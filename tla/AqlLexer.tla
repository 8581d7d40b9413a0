------------------------------- MODULE AqlLexer -------------------------------
(***************************************************************************)
(* The lexer of AQL (aql-lexer.c), the query language of the Antelope      *)
(* database.                                                               *)
(*                                                                         *)
(* A text is a sequence of LEXEMES: words and separators, whole numbers,   *)
(* quoted strings, and an opening quote nobody closes.  What puts them     *)
(* apart - white space, or one of the separators, which are lexemes of     *)
(* their own - is left out, and so is the case of the letters.  Words and  *)
(* strings are shorter than DB_MAX_ELEMENT_SIZE.                           *)
(***************************************************************************)
EXTENDS Integers, Sequences

Word(w) == [k |-> "word", w |-> w, n |-> 0]
Number(n) == [k |-> "number", w |-> "", n |-> n]
Quoted(w) == [k |-> "quoted", w |-> w, n |-> 0]
Unclosed(w) == [k |-> "unclosed", w |-> w, n |-> 0]

\* A token is named by the word it stands for; ";" is END and "<-" ASSIGN.
keywords ==
  << ";", "(", ")", ",", "=", ">", "<", ".", "+", "-", "*", "/", "#",
     ">=", "<=", "<>", "<-", "OR", "IS", "ON", "IN",
     "AND", "NOT", "SUM", "MAX", "MIN", "INT",
     "INTO", "FROM", "MEAN", "JOIN", "LONG", "TYPE",
     "WHERE", "COUNT", "INDEX",
     "INSERT", "SELECT", "REMOVE", "CREATE", "MEDIAN", "DOMAIN", "STRING",
     "INLINE",
     "PROJECT", "MAXHEAP", "MEMHASH",
     "RELATION", "ATTRIBUTE" >>

\* Where the keywords of each length start, counted from 0.
skip_hint == << 0, 13, 21, 27, 33, 36, 44, 47, 48 >>

\* Mutant: the last keyword of each length is not looked at.
GetTokenIdShort(w) ==
  IF Len(w) \notin 1 .. Len(skip_hint)
    THEN "NONE"
    ELSE LET last == IF Len(w) = Len(skip_hint)
                       THEN Len(keywords) ELSE skip_hint[Len(w) + 1]
         IN  IF \E i \in skip_hint[Len(w)] + 1 .. last - 1 : keywords[i] = w
               THEN w ELSE "NONE"

\* get_token_id: only the keywords of the word's own length are compared.
GetTokenId(w) ==
  IF Len(w) \notin 1 .. Len(skip_hint)
    THEN "NONE"
    ELSE LET last == IF Len(w) = Len(skip_hint)
                       THEN Len(keywords) ELSE skip_hint[Len(w) + 1]
         IN  IF \E i \in skip_hint[Len(w)] + 1 .. last : keywords[i] = w
               THEN w ELSE "NONE"

-----------------------------------------------------------------------------
\* A lexer_t s has the text it walks; input and prev_pos are positions in it.

\* next_string, next_real and next_token: the token and its value.
\* An unclosed string gives no token and is not skipped.
WordToken(id) == IF id = "NONE" THEN "IDENTIFIER" ELSE id
TokenOf(x) ==
  CASE x.k = "quoted"   -> "STRING_VALUE"
    [] x.k = "number"   -> "INTEGER_VALUE"
    [] x.k = "unclosed" -> "NONE"
    [] x.k = "word"     -> WordToken(GetTokenId(x.w))
Scan(s, x, token) ==
  [s EXCEPT !.token = token,
            !.prev_pos = s.input,
            !.input = IF token = "NONE" THEN @ ELSE @ + 1,
            !.value = IF token \in {"STRING_VALUE", "INTEGER_VALUE", "IDENTIFIER"}
                        THEN x ELSE @]

\* lexer_next: at the end of the text there is no token.
LexerNext(s) ==
  IF s.input > Len(s.text)
    THEN [s EXCEPT !.token = "NONE", !.prev_pos = s.input]
    ELSE Scan(s, s.text[s.input], TokenOf(s.text[s.input]))

\* lexer_rewind: the last token is read again.
LexerRewind(s) == [s EXCEPT !.input = s.prev_pos]
=============================================================================
