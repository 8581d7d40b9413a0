----------------------------- MODULE AqlStatements -----------------------------
(***************************************************************************)
(* What the parser and the logic machine of AQL promise about the texts    *)
(* they are given: statements as people write them, and the same with      *)
(* mistakes made on the keyboard.                                          *)
(*                                                                         *)
(* A STATEMENT here is what is meant; Write gives the text for it.  Its    *)
(* predicate is a list of comparisons with connectives between them, which *)
(* the language groups from the right, AND and OR alike.  There are no     *)
(* brackets in it: the parser takes the right one for a part of the        *)
(* expression inside and then asks for another.                            *)
(***************************************************************************)
EXTENDS AqlParser

CONSTANTS Statements,   \* the statements somebody wants to write
          Typeable,     \* lexemes a mistake may put into the text
          MaxEdits      \* bound: mistakes made in one text

VARIABLES meant,   \* the statement that is meant
          text,    \* the text as it stands
          edits    \* mistakes made in it

vars == <<meant, text, edits>>

-----------------------------------------------------------------------------
(* The grammar, written down as a printer. *)

Words(seq) == [i \in DOMAIN seq |-> Word(seq[i])]

\* The texts in seq, with commas between them.
RECURSIVE Commas(_)
Commas(seq) ==
  IF Len(seq) = 1 THEN seq[1] ELSE seq[1] \o Words(<<",">>) \o Commas(Tail(seq))

WriteColumn(c) ==
  IF c.agg = "NONE" THEN Words(<<c.name>>)
                    ELSE Words(<<c.agg, "(", c.name, ")">>)
WriteDomain(d) ==
  IF d.domain = "STRING" THEN Words(<<"STRING", "(">>) \o <<Number(d.size)>> \o Words(<<")">>)
                         ELSE Words(<<d.domain>>)

\* A comparison is [l |-> expression, o |-> operator, r |-> expression], an
\* expression names and numbers with operators between them.
WriteComparison(c) == c.l \o Words(<<c.o>>) \o c.r
RECURSIVE WriteFrom(_, _)
WriteFrom(pred, i) ==
  IF i = Len(pred.cs) THEN WriteComparison(pred.cs[i])
  ELSE WriteComparison(pred.cs[i]) \o Words(<<pred.os[i]>>) \o WriteFrom(pred, i + 1)
NoPredicate == [cs |-> <<>>, os |-> <<>>]
WriteWhere(pred) ==
  IF pred = NoPredicate THEN <<>> ELSE Words(<<"WHERE">>) \o WriteFrom(pred, 1)

Write(st) ==
  LET r == st.rels
      c == st.cols
      path == Words(<<r[1], ".", c[1].name>>)
  IN  (IF st.result = "" THEN <<>> ELSE Words(<<st.result, "<-">>))
      \o CASE st.type = "JOIN" ->
                Words(<<"JOIN", r[1], ",", r[2], "ON", c[1].name, "PROJECT">>)
                  \o Commas([i \in 1 .. Len(c) - 1 |-> WriteColumn(c[i + 1])])
           [] st.type = "SELECT" ->
                Words(<<"SELECT">>) \o Commas([i \in DOMAIN c |-> WriteColumn(c[i])]) \o Words(<<"FROM">>)
                  \o Commas([i \in DOMAIN r |-> Words(<<r[i]>>)]) \o WriteWhere(st.pred)
           [] st.type = "INSERT" ->
                Words(<<"INSERT", "(">>) \o Commas([i \in DOMAIN st.vals |-> <<st.vals[i]>>])
                  \o Words(<<")", "INTO">>) \o Commas([i \in DOMAIN r |-> Words(<<r[i]>>)])
           [] st.type = "REMOVE_TUPLES" ->
                Words(<<"REMOVE", "FROM", r[1]>>) \o WriteWhere(st.pred)
           [] st.type = "REMOVE_RELATION" -> Words(<<"REMOVE", "RELATION", r[1]>>)
           [] st.type = "REMOVE_ATTRIBUTE" -> Words(<<"REMOVE", "ATTRIBUTE">>) \o path
           [] st.type = "REMOVE_INDEX" -> Words(<<"REMOVE", "INDEX">>) \o path
           [] st.type = "CREATE_RELATION" -> Words(<<"CREATE", "RELATION", r[1]>>)
           [] st.type = "CREATE_INDEX" ->
                Words(<<"CREATE", "INDEX">>) \o path \o Words(<<"TYPE", st.index>>)
           [] st.type = "CREATE_ATTRIBUTE" ->
                Words(<<"CREATE", "ATTRIBUTE", c[1].name, "DOMAIN">>)
                  \o WriteDomain(c[1]) \o Words(<<"IN", r[1]>>)

\* SELECT without WHERE and INSERT end where they end; the others need ";".
OpenEnded(st) ==
  \/ st.type = "INSERT"
  \/ st.type = "SELECT" /\ st.pred = NoPredicate

WriteAll(st) == Write(st) \o IF OpenEnded(st) THEN <<>> ELSE Words(<<";">>)

-----------------------------------------------------------------------------
(* What is read back from the record the parser fills. *)

Read(t) == AqlParse(t, LvmReset)

\* The statement a record stands for, its predicate apart.
Recorded(adt) ==
  LET assigned == "ASSIGN" \in adt.flags
      stored == SelectSeq(adt.attributes, LAMBDA a : a.stored)
  IN  [type |-> adt.optype,
       result |-> IF assigned /\ adt.optype # "REMOVE_TUPLES" THEN adt.relations[1] ELSE "",
       rels |-> IF assigned THEN Tail(adt.relations) ELSE adt.relations,
       cols |-> [i \in DOMAIN stored |->
                   [agg |-> adt.aggregators[i], name |-> stored[i].name,
                    domain |-> stored[i].domain, size |-> stored[i].size]],
       vals |-> adt.values,
       index |-> adt.index_type,
       pred |-> NoPredicate]

\* The values a variable can have, and what a predicate says of them.
Longs == LongMin .. LongMax
Value(x, val) == IF x.k = "word" THEN val[x.w] ELSE x.n

\* What an expression's last operator applies to: operators group from the left.
Before(e) == SubSeq(e, 1, Len(e) - 2)
RECURSIVE ExprValue(_, _)
ExprValue(e, val) ==
  IF Len(e) = 1 THEN Value(e[1], val)
  ELSE LET a == ExprValue(Before(e), val)
           o == e[Len(e) - 1].w
           b == Value(e[Len(e)], val)
       IN  Long(CASE o = "+" -> a + b [] o = "-" -> a - b
                  [] o = "*" -> a * b [] o = "/" -> Quotient(a, b))

\* What comes of a quotient that has no value: an error when it is one by zero,
\* and the end of the process when it is larger than every long.
RECURSIVE Fault(_, _)
Fault(e, val) ==
  IF Len(e) = 1 THEN "none"
  ELSE LET before == Fault(Before(e), val)
           b == Value(e[Len(e)], val)
       IN  IF before # "none" \/ e[Len(e) - 1].w # "/" THEN before
           ELSE IF b = 0 THEN "MATH_ERROR"
           ELSE IF b = -1 /\ ExprValue(Before(e), val) = LongMin THEN "TRAP"
           ELSE "none"

Holds(c, val) ==
  LET a == ExprValue(c.l, val)
      b == ExprValue(c.r, val)
  IN  \/ c.o \in {"=", "<=", ">="} /\ a = b
      \/ c.o \in {"<", "<=", "<>"} /\ a < b
      \/ c.o \in {">", ">=", "<>"} /\ a > b

RECURSIVE HoldsFrom(_, _, _)
HoldsFrom(pred, i, val) ==
  LET this == Holds(pred.cs[i], val) IN
  IF i = Len(pred.cs) THEN this
  ELSE \/ this /\ (pred.os[i] = "OR" \/ HoldsFrom(pred, i + 1, val))
       \/ pred.os[i] = "OR" /\ HoldsFrom(pred, i + 1, val)

\* Every side is looked at, from the left, and the first fault counts.
Side(pred, i) ==
  IF i % 2 = 1 THEN pred.cs[(i + 1) \div 2].l ELSE pred.cs[i \div 2].r
Meaning(pred, val) ==
  LET faulty == {i \in 1 .. 2 * Len(pred.cs) : Fault(Side(pred, i), val) # "none"}
  IN  IF faulty # {}
        THEN Fault(Side(pred, CHOOSE i \in faulty : \A j \in faulty : i <= j), val)
        ELSE IF HoldsFrom(pred, 1, val) THEN "TRUE" ELSE "FALSE"

\* The variables of a predicate, and the valuations of them.
VariablesOf(pred) ==
  UNION {{e[i].w : i \in {j \in DOMAIN e : j % 2 = 1 /\ e[j].k = "word"}} :
           e \in {pred.cs[i].l : i \in DOMAIN pred.cs}
                   \cup {pred.cs[i].r : i \in DOMAIN pred.cs}}
Valuations(pred) == [VariablesOf(pred) -> Longs]

-----------------------------------------------------------------------------
(* Writing texts. *)

Init ==
  /\ meant \in Statements
  /\ edits = 0
  /\ text = WriteAll(meant)

\* A lexeme is forgotten, put in, or mistaken for another one.
Forget ==
  \E i \in DOMAIN text : text' = SubSeq(text, 1, i - 1) \o SubSeq(text, i + 1, Len(text))
PutIn ==
  \E i \in 0 .. Len(text), x \in Typeable :
     text' = SubSeq(text, 1, i) \o <<x>> \o SubSeq(text, i + 1, Len(text))
Mistake ==
  \E i \in DOMAIN text, x \in Typeable : text' = [text EXCEPT ![i] = x]

Next ==
  /\ edits < MaxEdits
  /\ Forget \/ PutIn \/ Mistake
  /\ edits' = edits + 1
  /\ UNCHANGED meant

Spec == Init /\ [][Next]_vars

-----------------------------------------------------------------------------
(* Properties. *)

\* Whatever is typed, the parser fills its record of a statement with what may
\* be in it, and only a text with more names than there is room for makes it
\* write past one of the record's arrays.
NamesIn(t) == {i \in DOMAIN t : TokenOf(t[i]) = "IDENTIFIER"}
Within(s, t) ==
  /\ IsAdt(s.adt) /\ s.token \in Token
  /\ s.adt.overrun => Cardinality(NamesIn(t)) > MinOf(RelationLimit, AttributeLimit)
TypeOK == Within(Read(text), text)

\* What the record has no room for, and nobody is told about: columns and
\* values beyond the limit, and the upper bits of a size.
AtMost(seq) == SubSeq(seq, 1, MinOf(Len(seq), AttributeLimit))
Kept(st) ==
  [st EXCEPT !.pred = NoPredicate, !.vals = AtMost(@),
             !.cols = AtMost([i \in DOMAIN st.cols |->
                                [st.cols[i] EXCEPT !.size = @ % 256]])]

\* There is room for its relations, db-result's place taken or db-remove's, and
\* for its aggregates.
HasRoom(st) ==
  /\ Len(st.rels) + (IF st.result # "" \/ st.type = "REMOVE_TUPLES" THEN 1 ELSE 0)
       <= RelationLimit
  /\ \A i \in DOMAIN st.cols : st.cols[i].agg # "NONE" => i <= AttributeLimit

\* Every statement that is written as the grammar says is accepted, whether
\* there is room for it or not.  The record aql_parse fills says what was
\* written, as far as it is kept: type, result relation, relations, attributes
\* with their aggregates and domains, values and index; it is overrun when, and
\* only when, there are too many relations or aggregates.  Strings together are
\* no longer than char_buf.
Says(adt, st) ==
  /\ [Recorded(adt) EXCEPT !.index = st.index] = Kept(st)
  /\ st.index \in {"", adt.index_type}
  /\ adt.condition <=> st.pred # NoPredicate
  /\ \/ Len(adt.attributes) = AttributeLimit
     \/ VariablesOf(st.pred) \subseteq
          {adt.attributes[i].name : i \in DOMAIN adt.attributes}
SaysWhenRead(s, st) ==
  /\ ~AqlError(s)
  /\ s.adt.overrun <=> ~HasRoom(st)
  /\ ~s.adt.overrun => Says(s.adt, st)
AcceptedAsWritten == edits = 0 => SaysWhenRead(Read(text), meant)

\* A text the parser accepts starts with the statement its record stands for,
\* sizes cut to a byte and up to the WHERE if it has one, so that no part of it
\* was skipped: unless the record is full, and but for lists of values
\* (ValuesNotSkipped) and for what is in a predicate, where the parser loses the
\* status of what it called.
Full(adt) ==
  adt.overrun \/ (Len(adt.attributes) = AttributeLimit
                    /\ adt.attributes[AttributeLimit].stored)
Strict(adt) == ~Full(adt) /\ adt.optype \notin {"NONE", "INSERT"}
Complete(st) ==
  /\ Len(st.rels) >= IF st.type = "JOIN" THEN 2 ELSE 1
  /\ st.type \notin {"CREATE_RELATION", "REMOVE_RELATION", "REMOVE_TUPLES"} =>
       st.cols # <<>>
Starts(t, written) == SubSeq(t, 1, Len(written)) = written
CutSizes(t) == [i \in DOMAIN t |-> [t[i] EXCEPT !.n = @ % 256]]
StartsWithStatement(t, st, condition) ==
  Complete(st) /\ Starts(CutSizes(t),
                         IF condition THEN Write(st) \o Words(<<"WHERE">>)
                                      ELSE WriteAll(st))
Skips(s, t) ==
  /\ ~AqlError(s) /\ Strict(s.adt)
  /\ ~StartsWithStatement(t, Recorded(s.adt), s.adt.condition)
NothingSkipped == ~Skips(Read(text), text)

\* The code a predicate is compiled to by parse_where evaluates, for every
\* tuple, to what the predicate says, faults included: predicates with at most
\* one operator on a side, and no brackets.
Evaluates(p, pred) ==
  \A val \in Valuations(pred) : LvmExecute(p, val) = Meaning(pred, val)
Chained(pred) ==
  \E i \in DOMAIN pred.cs : Len(pred.cs[i].l) > 3 \/ Len(pred.cs[i].r) > 3
MeansWhatItSays ==
  edits = 0 /\ meant.pred # NoPredicate /\ ~Chained(meant.pred) =>
    Evaluates(Read(text).p, meant.pred)

\* The same for more than one operator on a side, as in a + b - 1 < 5: parse_expr
\* puts the second one in front of the last operand only, so the code is wrong.
ChainsMeanWhatTheySay ==
  edits = 0 /\ Chained(meant.pred) => Evaluates(Read(text).p, meant.pred)

\* The ranges lvm_derive finds, which an index is searched with, leave out no
\* tuple the predicate holds for: where variables are compared with numbers,
\* and the comparisons are joined by AND or are about one variable.
Rangeable(pred) ==
  /\ pred # NoPredicate
  /\ \A i \in DOMAIN pred.cs : /\ Len(pred.cs[i].l) = 1 /\ pred.cs[i].l[1].k = "word"
                               /\ Len(pred.cs[i].r) = 1 /\ pred.cs[i].r[1].k = "number"
                               /\ pred.cs[i].o # "<>"
  /\ \/ \A i \in DOMAIN pred.os : pred.os[i] = "AND"
     \/ Cardinality(VariablesOf(pred)) = 1
Covers(range, x, pred) ==
  /\ range.derived
  /\ \A val \in Valuations(pred) :
        Meaning(pred, val) = "TRUE" => val[x] \in range.min .. range.max
SoundlyDerived(p, derivation, pred) ==
  \A x \in VariablesOf(pred) : Covers(LvmGetDerivedRange(p, derivation, x), x, pred)
SoundlyRanged(p, pred) == SoundlyDerived(p, LvmDerive(p), pred)
RangesAreSound ==
  (edits = 0 /\ Rangeable(meant.pred)) => SoundlyRanged(Read(text).p, meant.pred)

\* The same for INSERT: parse_values parses comma-separated values, so an
\* accepted text has no value the record does not have, unless it is full.
SkipsValue(s, t) ==
  /\ ~AqlError(s) /\ s.adt.optype = "INSERT" /\ ~s.adt.overrun
  /\ Len(s.adt.values) < AttributeLimit
  /\ ~Starts(t, Write(Recorded(s.adt)))
ValuesNotSkipped == ~SkipsValue(Read(text), text)
=============================================================================
