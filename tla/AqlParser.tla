------------------------------- MODULE AqlParser -------------------------------
(***************************************************************************)
(* The parser of AQL (aql-parser.c) and the record of a statement it       *)
(* fills (aql-adt.c).                                                      *)
(*                                                                         *)
(* Each parse_... function maps a parser state to a parser state: the      *)
(* lexer's fields, the statement, the code of its predicate, and the       *)
(* status r the function returned.  A function that only parses one thing  *)
(* after another is the sequence of those things, for Run to walk.         *)
(*                                                                         *)
(* Names are as long as the record has room for.  The numbers of relations *)
(* and of aggregates are not looked at: what is too much goes into the     *)
(* next array of the record, which is overrun then.  Parsing goes on, and  *)
(* what the record says after that is left open.                           *)
(***************************************************************************)
EXTENDS AqlLexer, LogicVm

CONSTANTS RelationLimit,    \* AQL_RELATION_LIMIT
          AttributeLimit,   \* AQL_ATTRIBUTE_LIMIT
          CharBytes         \* DB_MAX_CHAR_SIZE_PER_ROW

ASSUME AqlAssumption ==
  RelationLimit \in Nat /\ AttributeLimit \in Nat /\ CharBytes \in Nat

\* AQL_ERROR, of what a function returns; NONE is 255, and a function that
\* returns the value of PARSE returns 0 or 1.
AqlError(s) == s.r \in {"SYNTAX_ERROR", "NONE", "LEXER_ERROR"}
Return(s, r) == [s EXCEPT !.r = r]
ReturnParse(s) == Return(s, IF AqlError(s) THEN "0" ELSE "1")
SyntaxError(s) == Return(s, "SYNTAX_ERROR")

-----------------------------------------------------------------------------
(* The statement. *)

Aggregators == {"COUNT", "SUM", "MEAN", "MEDIAN", "MAX", "MIN"}

\* token_t, aql_adt_t.
Token ==
  {keywords[i] : i \in DOMAIN keywords}
    \cup {"INTEGER_VALUE", "STRING_VALUE", "IDENTIFIER", "NONE"}
IsAdt(adt) ==
  /\ adt.optype \in {"NONE", "SELECT", "INSERT", "CREATE_ATTRIBUTE", "CREATE_INDEX",
                     "CREATE_RELATION", "REMOVE_ATTRIBUTE", "REMOVE_INDEX",
                     "REMOVE_RELATION", "REMOVE_TUPLES", "JOIN"}
  /\ Len(adt.relations) <= RelationLimit /\ adt.overrun \in BOOLEAN
  /\ Len(adt.attributes) <= AttributeLimit /\ Len(adt.values) <= AttributeLimit
  /\ \A i \in DOMAIN adt.attributes : adt.attributes[i].size \in 0 .. 255
  /\ \A i \in 1 .. AttributeLimit : adt.aggregators[i] \in {"NONE"} \cup Aggregators
  /\ adt.flags \subseteq {"AGGREGATE", "ASSIGN"}
  /\ adt.index_type \in {"unknown", "INLINE", "MAXHEAP", "MEMHASH"}
  /\ adt.condition \in BOOLEAN
  /\ adt.chars <= CharBytes

\* aql_clear; index_type is left as it was, which is not known.
AqlClear ==
  [optype |-> "NONE", relations |-> <<>>, attributes |-> <<>>,
   aggregators |-> [i \in 1 .. AttributeLimit |-> "NONE"], values |-> <<>>,
   flags |-> {}, index_type |-> "unknown", condition |-> FALSE, chars |-> 0,
   overrun |-> FALSE]

SetType(s, t) == [s EXCEPT !.adt.optype = t]
SetFlag(s, f) == [s EXCEPT !.adt.flags = @ \cup {f}]

\* AQL_ADD_RELATION.
AddRelation(s, name) ==
  IF Len(s.adt.relations) = RelationLimit THEN [s EXCEPT !.adt.overrun = TRUE]
  ELSE [s EXCEPT !.adt.relations = Append(@, name)]

\* Mutant: as many attributes as somebody writes.
AqlAddAttributeUnlimited(s, name, dom, size, processed_only) ==
  IF processed_only /\ \E i \in DOMAIN s.adt.attributes :
                          s.adt.attributes[i].name = name
    THEN s
    ELSE [s EXCEPT !.adt.attributes =
            Append(@, [name |-> name, domain |-> dom, size |-> size % 256,
                       stored |-> ~processed_only])]

\* aql_add_attribute.  Its result is ignored wherever it is called, and the
\* size is cut down to a byte.
AqlAddAttribute(s, name, dom, size, processed_only) ==
  IF \/ Len(s.adt.attributes) = AttributeLimit
     \/ processed_only /\ \E i \in DOMAIN s.adt.attributes :
                             s.adt.attributes[i].name = name
    THEN s
    ELSE [s EXCEPT !.adt.attributes =
            Append(@, [name |-> name, domain |-> dom, size |-> size % 256,
                       stored |-> ~processed_only])]

\* AQL_ADD_AGGREGATE.
AddAggregate(s, f, name) ==
  IF Len(s.adt.attributes) = AttributeLimit THEN [s EXCEPT !.adt.overrun = TRUE]
  ELSE AqlAddAttribute([s EXCEPT !.adt.aggregators[Len(s.adt.attributes) + 1] = f],
                       name, "UNSPECIFIED", 0, FALSE)

\* aql_add_value with save_char.  A string that finds no room is counted as
\* a value all the same.
AqlAddValue(s, x) ==
  LET room == s.adt.chars + Len(x.w) + 1 <= CharBytes
      value == IF x.k = "quoted" /\ ~room THEN Quoted("NULL") ELSE x
  IN  IF Len(s.adt.values) = AttributeLimit THEN s
      ELSE [s EXCEPT !.adt.values = Append(@, value),
                     !.adt.chars = IF x.k = "quoted" /\ room
                                     THEN @ + Len(x.w) + 1 ELSE @]

-----------------------------------------------------------------------------
(* Sequences of things to parse.                                           *)
(*                                                                         *)
(* A production whose argument is called n is given the state with its     *)
(* first token read.                                                       *)

RECURSIVE Run(_, _), ParseExpr(_), ParseWhere(_)

\* What comes after a thing that was parsed: nothing, once it failed.
Then(s, steps) == IF AqlError(s) THEN s ELSE Run(steps, s)

\* CONSUME.
Expect(n, t) == Return(n, IF n.token = t THEN "OK" ELSE "SYNTAX_ERROR")
Consume(s, t) == Expect(LexerNext(s), t)

\* parse_index_type.
ParseIndexType(n) ==
  IF n.token \in {"INLINE", "MAXHEAP", "MEMHASH"}
    THEN [n EXCEPT !.adt.index_type = n.token, !.r = "OK"]
    ELSE SyntaxError(n)

\* The end of parse_relations and of parse_attributes.
More(n, list) ==
  IF n.token = "," THEN Run(list, n) ELSE Return(LexerRewind(n), "OK")

RECURSIVE ParseValues(_)
\* parse_values.  What follows a comma is answered with 0 or 1, never an error.
MoreValues(n) ==
  IF n.token = "," THEN ReturnParse(ParseValues(LexerNext(n)))
                   ELSE Return(LexerRewind(n), "OK")
ParseValues(n) ==
  IF n.token \notin {"STRING_VALUE", "INTEGER_VALUE"} THEN SyntaxError(n)
  ELSE MoreValues(LexerNext(AqlAddValue(n, n.value)))

\* parse_aggregator and parse_attributes.
Aggregate(s, f) ==
  IF AqlError(s) THEN s ELSE Consume(AddAggregate(s, f, s.value.w), ")")
ParseAttributes(n) ==
  IF n.token \in Aggregators
    THEN Then(Aggregate(Run(<< "(", "IDENTIFIER" >>, SetFlag(n, "AGGREGATE")), n.token),
              << "more attributes" >>)
    ELSE Run(<< "IDENTIFIER", "attribute", "more attributes" >>, LexerRewind(n))

\* parse_domain, for the attribute called name.
StringOf(s, name) ==
  IF AqlError(s) THEN s ELSE AqlAddAttribute(s, name, "STRING", s.value.n, FALSE)
ParseDomain(n, name) ==
  CASE n.token = "LONG" -> Return(AqlAddAttribute(n, name, "LONG", 4, FALSE), "OK")
    [] n.token = "INT" -> Return(AqlAddAttribute(n, name, "INT", 2, FALSE), "OK")
    [] n.token = "STRING" -> StringOf(Run(<< "(", "INTEGER_VALUE", ")" >>, n), name)
    [] OTHER -> Return(n, "NONE")

-----------------------------------------------------------------------------
(* Predicates. *)

\* The common end of the loops of parse_expr and parse_where: an operator is
\* put in front of the code that was moved away.
InFront(s, shifted, node) ==
  [s EXCEPT !.p = LvmSetEnd(Put(shifted.p, node), shifted.end)]

\* parse_operand.  Strings are taken, and compiled to nothing.
ParseOperand(n) ==
  CASE n.token = "IDENTIFIER" ->
         Return(AqlAddAttribute(
                  [n EXCEPT !.p = LvmSetVariable(LvmRegisterVariable(@, n.value.w),
                                                 n.value.w)],
                  n.value.w, "UNSPECIFIED", 0, TRUE), "OK")
    [] n.token = "STRING_VALUE" -> Return(n, "OK")
    [] n.token = "INTEGER_VALUE" -> Return([n EXCEPT !.p = LvmSetLong(@, n.value.n)], "OK")
    [] OTHER -> SyntaxError(n)

RECURSIVE ParseOps(_, _)
\* parse_op and the loop of parse_expr.  A right parenthesis ends an
\* expression and is not given back.
OrExpr(s) == IF AqlError(s) THEN ParseExpr(LexerNext(s)) ELSE s
Apply(s, shifted, op) ==
  IF AqlError(s) THEN SyntaxError(s)
  ELSE ParseOps(LexerNext(InFront(s, shifted, Arith(op))), shifted.end)
ParseArgument(s, saved_end, op) == Apply(s, LvmShiftForOperator(s.p, saved_end), op)
ParseOps(n, saved_end) ==
  CASE n.token = ")" -> Return(n, "OK")
    [] n.token \notin {"+", "-", "*", "/", ")"} -> Return(LexerRewind(n), "OK")
    [] OTHER -> ParseArgument(OrExpr(ParseOperand(LexerNext(n))), saved_end, n.token)

\* parse_expr.
MoreExpr(s, saved_end) ==
  IF AqlError(s) THEN SyntaxError(s) ELSE ParseOps(LexerNext(s), saved_end)
ParseExpr(n) ==
  MoreExpr(IF n.token = "(" THEN Then(ParseExpr(LexerNext(n)), << ")" >>)
                            ELSE ParseOperand(n), n.p.end)

\* parse_cmp and the rest of parse_comparison, behind its first operand: the
\* operator goes to where room is, the second operand to end.
Operator(n, end) ==
  IF n.token \notin Comparisons THEN SyntaxError(n)
  ELSE ParseExpr(LexerNext(
         [n EXCEPT !.p = LvmSetEnd(LvmSetRelation(@, n.token), end)]))
CompareWith(s, room) ==
  IF AqlError(s) THEN s
  ELSE Operator(LexerNext([s EXCEPT !.p = LvmSetEnd(@, room)]), s.p.end)

\* Mutant: no room is left for the operator.
ParseComparisonNoRoom(n) == CompareWith(ParseExpr(n), n.p.end)

\* parse_comparison: room for the operator is left in front of the operands.
ParseComparison(n) ==
  CompareWith(ParseExpr([n EXCEPT !.p = LvmJumpToOperand(@)]), n.p.end)

RECURSIVE ParseConnectives(_, _)
\* The loop of parse_where.  A comparison that is none makes it return 0.
ZeroIfError(s) == IF AqlError(s) THEN Return(s, "0") ELSE s
ParseConnected(n) ==
  IF n.token = "(" THEN Then(ParseWhere(LexerNext(n)), << ")" >>)
                   ELSE ZeroIfError(ParseComparison(n))
MoreConnectives(s, saved_end) ==
  IF AqlError(s) \/ s.r = "0" THEN s ELSE ParseConnectives(LexerNext(s), saved_end)
Connective(n, shifted) ==
  MoreConnectives(ParseConnected(LexerNext(InFront(n, shifted, Relation(n.token)))),
                  shifted.end)
ParseConnectives(n, saved_end) ==
  IF n.token \notin {"AND", "OR"} THEN Return(LexerRewind(n), "OK")
  ELSE Connective(n, LvmShiftForOperator(n.p, saved_end))

\* parse_where.
AfterFirst(s) == IF AqlError(s) THEN s ELSE ParseConnectives(LexerNext(s), 0)
ParseWhere(n) == AfterFirst(ParseComparison(n))

-----------------------------------------------------------------------------
(* Statements. *)

\* The last part of parse_select.  Without a WHERE it does not ask how the
\* statement ends.
ParseFilter(n) ==
  IF n.token # "WHERE" THEN Return(LexerRewind(n), "OK")
  ELSE Run(<< "predicate", "condition", ";" >>, [n EXCEPT !.p = LvmReset])

\* The things a statement is made of.  A token is consumed; "relation" and
\* "attribute" keep the identifier consumed last.
Step(step, s) ==
  CASE step = "relation" -> AddRelation(s, s.value.w)
    [] step = "attribute" -> AqlAddAttribute(s, s.value.w, "UNSPECIFIED", 0, FALSE)
    [] step = "condition" -> [s EXCEPT !.adt.condition = TRUE]
    [] step = "more relations" ->
         More(LexerNext(s), << "IDENTIFIER", "relation", "more relations" >>)
    [] step = "attributes" -> ParseAttributes(LexerNext(s))
    [] step = "more attributes" -> More(LexerNext(s), << "attributes" >>)
    [] step = "values" -> ParseValues(LexerNext(s))
    [] step = "index_type" -> ParseIndexType(LexerNext(s))
    [] step = "predicate" -> ParseWhere(LexerNext(s))
    [] step = "filter" -> ParseFilter(LexerNext(s))
    [] OTHER -> Consume(s, step)

\* Parse one thing after the other.
Run(steps, s) ==
  IF steps = <<>> THEN Return(s, "OK") ELSE Then(Step(Head(steps), s), Tail(steps))

\* parse_relations.
ParseRelations == << "IDENTIFIER", "relation", "more relations" >>

\* parse_join.
ParseJoin(s) ==
  Run(<< "IDENTIFIER", "relation", ",", "IDENTIFIER", "relation", "ON",
         "IDENTIFIER", "attribute", "PROJECT", "attributes", ";" >>,
      SetType(s, "JOIN"))

\* parse_select.
ParseSelect(s) ==
  Run(<< "attributes", "FROM" >> \o ParseRelations \o << "filter" >>,
      SetType(s, "SELECT"))

\* parse_insert.
ParseInsert(s) ==
  Run(<< "(", "values", ")", "INTO" >> \o ParseRelations, SetType(s, "INSERT"))

\* parse_remove_attribute and parse_remove_index.
DotPath == << "IDENTIFIER", "relation", ".", "IDENTIFIER", "attribute" >>

\* parse_remove_from.  It returns 0 or 1, so that its predicate may be anything.
RemoveWhere(s) ==
  IF AqlError(s) THEN s
  ELSE ReturnParse(Step("predicate", [s EXCEPT !.p = LvmReset, !.adt.condition = TRUE]))
ParseRemoveFrom(s) ==
  RemoveWhere(Run(<< "IDENTIFIER", "relation", "WHERE" >>,
                  AddRelation(SetFlag(SetType(s, "REMOVE_TUPLES"), "ASSIGN"), "db-remove")))

\* parse_remove, with parse_remove_relation.
RemovePart(n) ==
  CASE n.token = "ATTRIBUTE" -> Run(DotPath, SetType(n, "REMOVE_ATTRIBUTE"))
    [] n.token = "FROM" -> ParseRemoveFrom(n)
    [] n.token = "INDEX" -> Run(DotPath, SetType(n, "REMOVE_INDEX"))
    [] n.token = "RELATION" ->
         Run(<< "IDENTIFIER", "relation" >>, SetType(n, "REMOVE_RELATION"))
    [] OTHER -> SyntaxError(n)
ParseRemove(n) == Then(RemovePart(n), << ";" >>)

\* The part of parse_create_attributes up to the domain.
AttributeDomain(s) == IF AqlError(s) THEN s ELSE ParseDomain(LexerNext(s), s.value.w)
NewAttribute(s) ==
  AttributeDomain(Run(<< "IDENTIFIER", "DOMAIN" >>, SetType(s, "CREATE_ATTRIBUTE")))

\* Mutant: a domain that is none goes unnoticed.
ParseCreateAttributesLoose(s) == Run(<< "IN", "IDENTIFIER", "relation" >>, NewAttribute(s))

\* parse_create_attributes.
ParseCreateAttributes(s) ==
  Then(NewAttribute(s), << "IN", "IDENTIFIER", "relation" >>)

\* parse_create_relation: the type is set after the name is read.
ParseCreateRelation(n) ==
  IF n.token # "IDENTIFIER" THEN SyntaxError(n)
  ELSE Return(AddRelation(SetType(n, "CREATE_RELATION"), n.value.w), "OK")

\* parse_create, with parse_create_index.
CreatePart(n) ==
  CASE n.token = "ATTRIBUTE" -> ParseCreateAttributes(n)
    [] n.token = "INDEX" ->
         Run(DotPath \o << "TYPE", "index_type" >>, SetType(n, "CREATE_INDEX"))
    [] n.token = "RELATION" -> ParseCreateRelation(LexerNext(n))
    [] OTHER -> SyntaxError(n)
ParseCreate(n) == Then(CreatePart(n), << ";" >>)

\* The statements that may have a result, and the arrow in front of them.
ParseQuery(n) ==
  CASE n.token = "SELECT" -> ParseSelect(n)
    [] n.token = "JOIN" -> ParseJoin(n)
    [] OTHER -> SyntaxError(n)
ParseArrow(n) ==
  IF n.token = "<-" THEN ParseQuery(LexerNext(n)) ELSE SyntaxError(n)

\* aql_parse.  p is the code an earlier statement left behind.
ParseStatement(n) ==
  CASE n.token = "IDENTIFIER" ->
         ParseArrow(LexerNext(AddRelation(SetFlag(n, "ASSIGN"), n.value.w)))
    [] n.token \in {"SELECT", "JOIN"} -> ParseQuery(n)
    [] n.token = "CREATE" -> ParseCreate(LexerNext(n))
    [] n.token = "REMOVE" -> ParseRemove(LexerNext(n))
    [] n.token = "INSERT" -> ParseInsert(n)
    [] n.token = "NONE" ->
         Return(n, IF n.input <= Len(n.text) THEN "LEXER_ERROR" ELSE "OK")
    [] n.token \in {"#", ";"} -> Return(n, "OK")
    [] OTHER -> SyntaxError(n)
AqlParse(text, p) ==
  ParseStatement(LexerNext(
    [text |-> text, input |-> 1, prev_pos |-> 1, token |-> "NONE", value |-> Word(""),
     adt |-> AqlClear, p |-> p, r |-> "1"]))
=============================================================================
