------------------------------ MODULE CJsonText ------------------------------
(***************************************************************************)
(* How cJSON (cjson.c) reads a text and writes one.                        *)
(*                                                                         *)
(* A text is a sequence of tokens: "null", "true" and "false", the four    *)
(* digits behind \u, and otherwise single characters.  Positions count     *)
(* from 1; "NUL" is behind the end.  An item has a type, a value, the name *)
(* it has in an object, and the items below it.  A number is a pair        *)
(* <<m, e>> for m * 10^e, with m of at most six digits, as %g prints it    *)
(* exactly; e is 0, or negative and m no multiple of 10.                   *)
(***************************************************************************)
EXTENDS Integers, Sequences, SequencesExt

CONSTANTS Blank,      \* the characters up to 32
          CodeUnit,   \* CodeUnit[h]: what the four digits h say
          CharOf,     \* CharOf[u]: the character of a code point
          Escaped,    \* Escaped[c]: what is written for a character, if not itself
          Width       \* Width[t]: the bytes of a token that has more than one

At(text, p) == IF p <= Len(text) THEN text[p] ELSE "NUL"
Digits == <<"0", "1", "2", "3", "4", "5", "6", "7", "8", "9">>
Digit == ToSet(Digits)
Least(S) == CHOOSE x \in S : \A y \in S : x <= y

\* The first place from p on that has no character of S.
Past(text, p, S) == Least({q \in p .. Len(text) + 1 : At(text, q) \notin S} \cup {Len(text) + 1})

\* skip
Skip(text, p) == Past(text, p, Blank)

NewItem == [type |-> "invalid", valuefloat |-> <<0, 0>>, valuestring |-> <<>>,
            string |-> <<>>, child |-> <<>>]
\* What the parsers return: where to go on, the item, and ep.
Parsed(p, item) == [ok |-> TRUE, p |-> p, item |-> item, ep |-> 0]
\* Mutant: ep is not set.
FailedSilently(ep) == [ok |-> FALSE, p |-> 0, item |-> NewItem, ep |-> 0]
Failed(ep) == [ok |-> FALSE, p |-> 0, item |-> NewItem, ep |-> ep]

-----------------------------------------------------------------------------
(* Numbers. *)

ValueOf(digits) == FoldLeft(LAMBDA n, d : 10 * n + (CHOOSE k \in 0 .. 9 : Digits[k + 1] = d), 0, digits)

RECURSIVE Decimal(_, _)
Decimal(m, e) ==
  IF m = 0 THEN <<0, 0>>
  ELSE IF e > 0 THEN Decimal(m * 10, e - 1)
  ELSE IF e < 0 /\ m % 10 = 0 THEN Decimal(m \div 10, e + 1)
  ELSE <<m, e>>

\* parse_number: a sign, a 0 or digits, a fraction, an exponent; each may lack.
ParseNumber(text, from) ==
  LET minus == At(text, from) = "-"
      p0 == IF minus THEN from + 1 ELSE from
      p1 == IF At(text, p0) = "0" THEN p0 + 1 ELSE p0
      p2 == IF At(text, p1) \in Digit \ {"0"} THEN Past(text, p1, Digit) ELSE p1
      dot == At(text, p2) = "." /\ At(text, p2 + 1) \in Digit
      p3 == IF dot THEN Past(text, p2 + 1, Digit) ELSE p2
      fraction == IF dot THEN SubSeq(text, p2 + 1, p3 - 1) ELSE <<>>
      exp == At(text, p3) \in {"e", "E"}
      sign == exp /\ At(text, p3 + 1) \in {"+", "-"}
      p4 == IF sign THEN p3 + 2 ELSE IF exp THEN p3 + 1 ELSE p3
      p5 == IF exp THEN Past(text, p4, Digit) ELSE p3
      exponent == ValueOf(SubSeq(text, p4, p5 - 1))
                    * (IF sign /\ At(text, p3 + 1) = "-" THEN -1 ELSE 1)
      number == Decimal(ValueOf(SubSeq(text, p1, p2 - 1) \o fraction),
                        exponent - Len(fraction))
  IN  Parsed(p5, [NewItem EXCEPT !.type = "number",
                    !.valuefloat = IF minus THEN <<-number[1], number[2]>> ELSE number])

RECURSIVE DigitsOf(_)
DigitsOf(n) == (IF n < 10 THEN <<>> ELSE DigitsOf(n \div 10)) \o <<Digits[(n % 10) + 1]>>

\* print_number: %lld for a whole number, %g for another.
PrintNumber(number) ==
  LET m == IF number[1] < 0 THEN -number[1] ELSE number[1]
      all == DigitsOf(m)
      places == -number[2]
      padded == [i \in 1 .. places + 1 - Len(all) |-> "0"] \o all
  IN  (IF number[1] < 0 THEN <<"-">> ELSE <<>>)
        \o (IF places = 0 THEN all
            ELSE SubSeq(padded, 1, Len(padded) - places) \o <<".">>
                   \o SubSeq(padded, Len(padded) - places + 1, Len(padded)))

-----------------------------------------------------------------------------
(* Strings. *)

\* "^H" is the backspace.
Simple == [c \in {"b", "f", "n", "r", "t"} |->
             CASE c = "b" -> "^H" [] c = "f" -> "\f" [] c = "n" -> "\n"
               [] c = "r" -> "\r" [] c = "t" -> "\t"]

\* Or of two numbers of which the second is below 2^20, and the first 2^16.
OrBit16(x) == IF (x \div 65536) % 2 = 1 THEN x ELSE x + 65536
Combine(high, low) == OrBit16((high % 1024) * 1024 + (low % 1024))

\* Behind "\u", with the four digits at p: how many tokens belong to the escape
\* and what it says; nothing for a half of a pair or for 0.
Unicode(text, p) ==
  LET uc == CodeUnit[At(text, p)]
      pair == At(text, p + 1) = "\\" /\ At(text, p + 2) = "u"
      uc2 == CodeUnit[At(text, p + 3)]
  IN  IF uc \in 56320 .. 57343 \/ uc = 0 THEN [n |-> 1, out |-> <<>>]
      ELSE IF uc \notin 55296 .. 56319 THEN [n |-> 1, out |-> <<CharOf[uc]>>]
      ELSE IF ~pair THEN [n |-> 1, out |-> <<>>]
      ELSE IF uc2 \notin 56320 .. 57343 THEN [n |-> 4, out |-> <<>>]
      ELSE [n |-> 4, out |-> <<CharOf[Combine(uc, uc2)]>>]

\* The characters of a string that goes on at p, and where it ends.
Unescape(text, from) ==
  LET rest[p \in Nat] ==
        LET c == At(text, p)
            then(n, out) == [rest[p + n] EXCEPT !.out = out \o @]
            u == Unicode(text, p + 2)
        IN  IF c \in {"\"", "NUL"} THEN [p |-> p, out |-> <<>>]
            ELSE IF c # "\\" THEN then(1, <<c>>)
            ELSE IF At(text, p + 1) \in DOMAIN Simple THEN then(2, <<Simple[At(text, p + 1)]>>)
            ELSE IF At(text, p + 1) = "u" THEN then(2 + u.n, u.out)
            ELSE then(2, <<At(text, p + 1)>>)
  IN  rest[from]

\* parse_string; a string may end with the text.
ParseString(text, p) ==
  LET s == Unescape(text, p + 1)
  IN  IF At(text, p) # "\"" THEN Failed(p)
      ELSE Parsed(IF At(text, s.p) = "\"" THEN s.p + 1 ELSE s.p,
                  [NewItem EXCEPT !.type = "string", !.valuestring = s.out])

\* Mutant: a backslash is written as it is.
EscapeQuote(c) == IF c \in DOMAIN Escaped /\ c # "\\" THEN Escaped[c] ELSE <<c>>
Escape(c) == IF c \in DOMAIN Escaped THEN Escaped[c] ELSE <<c>>

\* print_string_ptr
PrintString(chars) ==
  <<"\"">> \o FlattenSeq([i \in DOMAIN chars |-> Escape(chars[i])]) \o <<"\"">>

-----------------------------------------------------------------------------
(* Values. *)

Literals == {"null", "false", "true"}

RECURSIVE ParseValue(_, _), ParseElements(_, _, _), ParsePairs(_, _, _)

\* parse_value
ParseValue(text, p) ==
  LET c == At(text, p)
      in == Skip(text, p + 1)
  IN  CASE c \in Literals -> Parsed(p + 1, [NewItem EXCEPT !.type = c])
        [] c = "\"" -> ParseString(text, p)
        [] c \in Digit \cup {"-"} -> ParseNumber(text, p)
        [] c = "[" -> IF At(text, in) = "]" THEN Parsed(in + 1, [NewItem EXCEPT !.type = "array"])
                      ELSE ParseElements(text, in, <<>>)
        [] c = "{" -> IF At(text, in) = "}" THEN Parsed(in + 1, [NewItem EXCEPT !.type = "object"])
                      ELSE ParsePairs(text, in, <<>>)
        [] OTHER -> Failed(p)

\* What follows a child of an array or object that ends at p.
Follows(text, p, close) ==
  LET c == At(text, Skip(text, p))
  IN  IF c = "," THEN "more" ELSE IF c = close THEN "end" ELSE "malformed"

\* parse_array, from the element at p on.
ParseElements(text, p, before) ==
  LET r == ParseValue(text, p)
      next == Skip(text, r.p)
      list == Append(before, r.item)
  IN  IF ~r.ok THEN r
      ELSE CASE Follows(text, r.p, "]") = "more" -> ParseElements(text, Skip(text, next + 1), list)
             [] Follows(text, r.p, "]") = "end" ->
                  Parsed(next + 1, [NewItem EXCEPT !.type = "array", !.child = list])
             [] OTHER -> Failed(next)

\* parse_object, from the name at p on.
ParsePairs(text, p, before) ==
  LET name == ParseString(text, p)
      colon == Skip(text, name.p)
      r == ParseValue(text, Skip(text, colon + 1))
      next == Skip(text, r.p)
      list == Append(before, [r.item EXCEPT !.string = name.item.valuestring])
  IN  IF ~name.ok THEN name
      ELSE IF At(text, colon) # ":" THEN Failed(colon)
      ELSE IF ~r.ok THEN r
      ELSE CASE Follows(text, r.p, "}") = "more" -> ParsePairs(text, Skip(text, next + 1), list)
             [] Follows(text, r.p, "}") = "end" ->
                  Parsed(next + 1, [NewItem EXCEPT !.type = "object", !.child = list])
             [] OTHER -> Failed(next)

\* cJSON_Parse: one value; what follows it is not looked at.
Parse(text) == ParseValue(text, Skip(text, 1))

Tabs(n) == [i \in 1 .. n |-> "\t"]
\* The parts with a separator between them.
Separated(parts, between) ==
  FlattenSeq([i \in DOMAIN parts |-> IF i = 1 THEN parts[i] ELSE between \o parts[i]])

\* Mutant: the comma is left out where the format puts a new line.
CommaFormatted(fmt) == IF fmt THEN <<"\n">> ELSE <<",">>
Comma(fmt) == IF fmt THEN <<",", "\n">> ELSE <<",">>

\* print_array, of what is printed for the elements.
PrintArray(parts, fmt) ==
  <<"[">> \o Separated(parts, IF fmt THEN <<",", " ">> ELSE <<",">>) \o <<"]">>

\* print_object, of what is printed for the pairs.
PrintObject(parts, depth, fmt) ==
  <<"{">> \o (IF fmt THEN <<"\n">> ELSE <<>>) \o Separated(parts, Comma(fmt))
          \o (IF fmt THEN (IF parts = <<>> THEN <<>> ELSE <<"\n">>) \o Tabs(depth) ELSE <<>>)
          \o <<"}">>

\* print_value; cJSON_Print and cJSON_PrintUnformatted start at depth 0.
RECURSIVE PrintValue(_, _, _)
PrintPair(child, depth, fmt) ==
  (IF fmt THEN Tabs(depth) ELSE <<>>) \o PrintString(child.string)
    \o (IF fmt THEN <<":", "\t">> ELSE <<":">>) \o PrintValue(child, depth, fmt)
PrintValue(item, depth, fmt) ==
  CASE item.type \in Literals -> <<item.type>>
    [] item.type = "number" -> PrintNumber(item.valuefloat)
    [] item.type = "string" -> PrintString(item.valuestring)
    [] item.type = "array" ->
         PrintArray([i \in DOMAIN item.child |-> PrintValue(item.child[i], depth + 1, fmt)], fmt)
    [] item.type = "object" ->
         PrintObject([i \in DOMAIN item.child |-> PrintPair(item.child[i], depth + 1, fmt)],
                     depth, fmt)

\* strlen
Bytes(t) ==
  FoldLeft(LAMBDA n, c : n + (IF c \in DOMAIN Width THEN Width[c] ELSE 1), 0, t)

\* The bytes that print_array asks malloc for.
ArrayLength(item, depth, fmt) ==
  FoldLeft(LAMBDA n, c : n + Bytes(PrintValue(c, depth + 1, fmt)) + 2 + (IF fmt THEN 1 ELSE 0),
           5, item.child)

\* Mutant: the tabs are not counted.
ObjectLengthNoTabs(item, depth, fmt) ==
  FoldLeft(LAMBDA n, c : n + Bytes(PrintString(c.string)) + Bytes(PrintValue(c, depth + 1, fmt))
                           + 2 + (IF fmt THEN 2 ELSE 0),
           7 + (IF fmt THEN depth + 1 ELSE 0), item.child)

\* The bytes that print_object asks malloc for.
ObjectLength(item, depth, fmt) ==
  FoldLeft(LAMBDA n, c : n + Bytes(PrintString(c.string)) + Bytes(PrintValue(c, depth + 1, fmt))
                           + 2 + (IF fmt THEN 2 + depth + 1 ELSE 0),
           7 + (IF fmt THEN depth + 1 ELSE 0), item.child)
=============================================================================
