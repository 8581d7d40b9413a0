------------------------------ MODULE JsonParse ------------------------------
(***************************************************************************)
(* The JSON reader of json_parser/ (jsonparse.c): it hands out one element *)
(* of the text at a time and remembers the containers it is in.            *)
(*                                                                         *)
(* A text is a sequence of characters; positions count from 0, as in the   *)
(* code, and "NUL" is what is found behind the end.  "none" stands for 0   *)
(* where the code uses a character as a type.  What is read behind the NUL *)
(* is unknown, and so is what comes of a push on a stack that is full,     *)
(* which writes behind it: reading ends there, as BEYOND and as OVERRUN.   *)
(***************************************************************************)
EXTENDS Integers, Sequences, SequencesExt

CONSTANT ReadDepth      \* JSONPARSE_MAX_DEPTH

Digit == {"0", "1", "2", "3", "4", "5", "6", "7", "8", "9"}

CharAt(json, pos) == IF pos < Len(json) THEN json[pos + 1] ELSE "NUL"

\* jsonparse_setup; vtype and the place of a value are not set by it.
JsonparseSetup == [pos |-> 0, stack |-> <<>>, vtype |-> "none", vstart |-> 0,
                   vlen |-> 0, error |-> "OK"]

\* Mutant: the type of the last value survives.
PushKeepingType(state, c) == [state EXCEPT !.stack = Append(@, c)]

\* push, where there is room on the stack.
Push(state, c) == [state EXCEPT !.stack = Append(@, c), !.vtype = "none"]

\* pop
Pop(state) == [state EXCEPT !.stack = IF @ = <<>> THEN @ ELSE Front(@)]

\* jsonparse_get_type
GetType(state) == IF state.stack = <<>> THEN "none" ELSE Last(state.stack)

\* skip_ws
SkipWs(json, state) ==
  LET stops == {p \in state.pos .. Len(json) : CharAt(json, p) \notin {" ", "\n"}}
  IN  [state EXCEPT !.pos = CHOOSE p \in stops : \A q \in stops : p <= q]

\* Where a string that goes on at pos ends: behind its quote, or behind the NUL.
StringEnd(json, pos) ==
  LET end[p \in Nat] == LET c == CharAt(json, p)
                        IN  IF c \in {"\"", "NUL"} THEN p + 1
                            ELSE end[IF c = "\\" THEN p + 2 ELSE p + 1]
  IN  end[pos]

\* atomic, for a string or the name of a pair.
AtomicString(json, state, type) ==
  LET end == StringEnd(json, state.pos)
  IN  [state EXCEPT !.vstart = state.pos, !.vtype = type, !.pos = end,
                    !.vlen = end - state.pos - 1]

\* atomic, for a number, whose first digit is behind pos already.
AtomicNumber(json, state) ==
  LET stops == {p \in state.pos .. Len(json) : CharAt(json, p) \notin Digit \cup {"."}}
      end == CHOOSE p \in stops : \A q \in stops : p <= q
  IN  [state EXCEPT !.vstart = state.pos - 1, !.vtype = "0", !.pos = end,
                    !.vlen = end - (state.pos - 1)]

Element(result, state) == [result |-> result, state |-> state]
Error(error, state) == [result |-> "none", state |-> [state EXCEPT !.error = error]]

\* Into a container.
Enter(state, c) ==
  IF Len(state.stack) = ReadDepth THEN Error("OVERRUN", state)
                                  ELSE Element(c, Push(state, c))

\* Whether a pair ends here: there is a value behind the colon.
PairEnds(state) == GetType(state) = ":" /\ state.vtype # "none"

\* The end of an object, and of the pair that is open in it.
CloseObject(state) ==
  LET object == IF PairEnds(state) THEN Pop(state) ELSE state
  IN  IF GetType(object) = "{" THEN Element("}", Pop(object)) ELSE Error("SYNTAX", object)

\* jsonparse_next, from a place in the text or at its NUL.
NextElement(json, before) ==
  LET at == SkipWs(json, before)
      c == CharAt(json, at.pos)
      state == [at EXCEPT !.pos = @ + 1]
      s == GetType(state)
  IN  CASE c \in {"{", ":"} -> Enter(state, c)
        [] c = "}" -> CloseObject(state)
        [] c = "]" -> IF s = "[" THEN Element(c, Pop(state))
                                 ELSE Error("UNEXPECTED_END_OF_ARRAY", state)
        [] c = "," -> IF PairEnds(state) THEN Element(c, Pop(state))
                      ELSE IF s = "[" THEN Element(c, state) ELSE Error("SYNTAX", state)
        [] c = "\"" -> IF s \notin {"{", "[", ":"} THEN Error("UNEXPECTED_STRING", state)
                       ELSE LET type == IF s = "{" THEN "N" ELSE c
                            IN  Element(type, AtomicString(json, state, type))
        [] c = "[" -> IF s \in {"{", "[", ":"} THEN Enter(state, c)
                                               ELSE Error("UNEXPECTED_ARRAY", state)
        [] c \in Digit /\ s \in {":", "["} -> Element("0", AtomicNumber(json, state))
        [] OTHER -> Element("none", state)

\* jsonparse_next
JsonparseNext(json, before) ==
  IF before.pos > Len(json) THEN Error("BEYOND", before) ELSE NextElement(json, before)

\* jsonparse_copy_value, into a buffer that is large enough.
CopyValue(json, state) ==
  IF state.vtype = "none" THEN <<>>
  ELSE SubSeq(json, state.vstart + 1, state.vstart + state.vlen)
=============================================================================
