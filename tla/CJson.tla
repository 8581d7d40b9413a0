--------------------------------- MODULE CJson ---------------------------------
(***************************************************************************)
(* cJSON_Print and cJSON_Parse one after the other, as in the example      *)
(* program (main.c), where the text may be changed on the way: it is what  *)
(* somebody else wrote.                                                    *)
(***************************************************************************)
EXTENDS CJsonText

CONSTANTS Items,      \* the items to print
          Foreign,    \* texts that are not from cJSON_Print
          Tokens      \* what may be put into a text

VARIABLES
  item,    \* what is printed
  fmt,     \* cJSON_Print, or cJSON_PrintUnformatted
  text,    \* what it is printed to, and what is parsed
  edit,    \* the place that was changed, or 0
  result,  \* what cJSON_Parse returns
  stage    \* "new", "printed", "parsed"

vars == <<item, fmt, text, edit, result, stage>>

Init ==
  /\ result = Failed(0)
  /\ \/ /\ item \in Items /\ fmt \in BOOLEAN
        /\ text = <<>> /\ edit = 0 /\ stage = "new"
     \/ /\ item = NewItem /\ fmt = FALSE
        /\ text \in Foreign /\ edit = 1 /\ stage = "printed"

\* cJSON_Print and cJSON_PrintUnformatted.
Print1 ==
  /\ stage = "new"
  /\ text' = PrintValue(item, 0, fmt) /\ stage' = "printed"
  /\ UNCHANGED <<item, fmt, edit, result>>

\* Every escape is complete: each \u has its digits, nothing else has them, and a
\* backslash is neither the end nor before a longer token.  Of other texts nothing
\* is said: behind a backslash at the end, and behind a \u with fewer digits, the
\* parser steps over the NUL and reads on in what is there.
Lexed(t) ==
  \A p \in DOMAIN t :
    /\ t[p] = "\\" => At(t, p + 1) \notin Literals \cup {"NUL"}
    /\ (t[p] = "\\" /\ At(t, p + 1) = "u") => At(t, p + 2) \in DOMAIN CodeUnit
    /\ t[p] \in DOMAIN CodeUnit => p > 2 /\ t[p - 1] = "u" /\ t[p - 2] = "\\"

\* A token is lost, or another is put in its place or before it.
Change ==
  /\ stage = "printed" /\ edit = 0 /\ ~fmt
  /\ \E p \in DOMAIN text :
       /\ edit' = p
       /\ \/ text' = RemoveAt(text, p)
          \/ \E t \in Tokens : text' = ReplaceAt(text, p, t) \/ text' = InsertAt(text, p, t)
  /\ Lexed(text')
  /\ UNCHANGED <<item, fmt, result, stage>>

\* cJSON_Parse, and cJSON_GetErrorPtr after it.
Parse1 ==
  /\ stage = "printed"
  /\ result' = Parse(text) /\ stage' = "parsed"
  /\ UNCHANGED <<item, fmt, text, edit>>

Next == Print1 \/ Change \/ Parse1
Spec == Init /\ [][Next]_vars

-----------------------------------------------------------------------------
(* Properties. *)

\* What cJSON_Print and cJSON_PrintUnformatted write, cJSON_Parse reads: the
\* same item, and the whole text.
RoundTrip ==
  (stage = "parsed" /\ edit = 0) => /\ result.ok /\ result.item = item
                                    /\ result.p = Len(text) + 1

\* Whatever cJSON_Parse makes of a text somebody else wrote, with mistakes in it
\* but complete escapes, is an item that can be printed, with and without format,
\* and is read again as the same item.
Stable ==
  (stage = "parsed" /\ result.ok) =>
    \A f \in BOOLEAN : LET again == Parse(PrintValue(result.item, 0, f))
                       IN  again.ok /\ again.item = result.item

\* "Transcode utf16 to utf8" (cjson.c:270): a surrogate pair is read as the
\* character UTF-16 says, 65536 plus ten bits of each half.
PairsAreTranscoded ==
  (stage = "parsed" /\ Len(text) = 8 /\ \A p \in {2, 5} : text[p] = "\\" /\ text[p + 1] = "u") =>
    LET high == CodeUnit[text[4]]
        low == CodeUnit[text[7]]
    IN  (high \in 55296 .. 56319 /\ low \in 56320 .. 57343) =>
          result.item.valuestring = <<CharOf[65536 + (high - 55296) * 1024 + low - 56320]>>

\* cJSON_GetErrorPtr is 0 when cJSON_Parse succeeds, and otherwise leads into
\* the text, at most one token before the place that is wrong.
ErrorLeadsThere ==
  stage = "parsed" => /\ result.ok <=> result.ep = 0
                      /\ ~result.ok => result.ep \in edit - 1 .. Len(text) + 1

\* The memory that print_array and print_object ask for holds what they write,
\* with the NUL behind it, at every depth.
RECURSIVE AllFit(_, _)
AllFit(i, depth) ==
  i.type \in {"array", "object"} =>
    /\ Bytes(PrintValue(i, depth, fmt)) + 1
         <= IF i.type = "array" THEN ArrayLength(i, depth, fmt)
            ELSE ObjectLength(i, depth, fmt)
    /\ \A k \in DOMAIN i.child : AllFit(i.child[k], depth + 1)
Fits == stage = "printed" => AllFit(item, 0)
=============================================================================
