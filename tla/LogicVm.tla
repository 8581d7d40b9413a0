------------------------------- MODULE LogicVm -------------------------------
(***************************************************************************)
(* The logic machine of AQL (lvm.c): predicates are byte code in prefix    *)
(* notation, built by the parser, evaluated for every tuple, and searched  *)
(* for the range of values a variable can have.                            *)
(*                                                                         *)
(* The code is a sequence of NODES, an operator or an operand each, and    *)
(* p.end a number of nodes; Bytes gives the bytes they take.  The parser   *)
(* only moves between nodes, and leaves room for exactly one operator.     *)
(* Predicates fit into the code buffer and have at most VariableLimit      *)
(* variables: beyond that lvm.c writes past its arrays.  Sums and products *)
(* that leave the longs wrap; a quotient that does ends the process.       *)
(***************************************************************************)
EXTENDS Integers, Sequences, FiniteSets

CONSTANTS LongMax,        \* a long is -LongMax-1 .. LongMax
          OperandBytes,   \* sizeof(node_type_t) + sizeof(operand_t)
          CodeBytes,      \* DB_VM_BYTECODE_SIZE
          VariableLimit   \* elements of variables and derivations

ASSUME LvmAssumption ==
  /\ LongMax \in Nat \ {0}
  /\ OperandBytes \in {12, 20}
  /\ CodeBytes \in Nat
  /\ VariableLimit \in Nat

LongMin == -LongMax - 1
Long(n) == LongMin + ((n - LongMin) % (2 * (LongMax + 1)))

Comparisons == {"=", "<>", ">", ">=", "<", "<="}

\* node_type_t and what follows it.  A hole is room nothing was written to.
Relation(o) == [k |-> "LVM_CMP_OP", o |-> o, v |-> 0]
Arith(o) == [k |-> "LVM_ARITH_OP", o |-> o, v |-> 0]
Variable(id) == [k |-> "LVM_OPERAND", o |-> "LVM_VARIABLE", v |-> id]
LongOperand(l) == [k |-> "LVM_OPERAND", o |-> "LVM_LONG", v |-> l]
Hole == [k |-> "none", o |-> "none", v |-> 0]

OperatorBytes == 8
Bytes(code) ==
  LET operands == {i \in DOMAIN code : code[i].k = "LVM_OPERAND"}
  IN  Cardinality(operands) * OperandBytes
        + (Len(code) - Cardinality(operands)) * OperatorBytes

-----------------------------------------------------------------------------
(* Building code. *)

\* lvm_reset, with the variables and derivations it clears.
LvmReset == [code |-> <<>>, end |-> 0, error |-> FALSE, variables |-> <<>>]

\* lvm_set_type and the copy after it: one node at the end of the code.
Put(p, node) ==
  [p EXCEPT !.end = @ + 1,
            !.code = IF p.end < Len(@) THEN [@ EXCEPT ![p.end + 1] = node]
                                       ELSE Append(@, node)]

\* lvm_set_relation, lvm_set_long.
LvmSetRelation(p, o) == Put(p, Relation(o))
LvmSetLong(p, l) == Put(p, LongOperand(Long(l)))

Fits(p, n) == Bytes(SubSeq(p.code, 1, n)) < CodeBytes

\* lvm_jump_to_operand: leave room for an operator; the old end is the answer.
LvmJumpToOperand(p) ==
  IF Bytes(SubSeq(p.code, 1, p.end)) + OperatorBytes >= CodeBytes
    THEN [p EXCEPT !.error = TRUE] ELSE Put(p, Hole)

\* lvm_shift_for_operator: move the code from end on; the new end is the answer.
LvmShiftForOperator(p, end) ==
  IF \/ Bytes(SubSeq(p.code, 1, p.end)) + 4 > CodeBytes
     \/ end >= p.end
    THEN [p |-> [p EXCEPT !.error = TRUE], end |-> 0]
    ELSE [p |-> [p EXCEPT !.code = SubSeq(@, 1, end) \o <<Hole>>
                                     \o SubSeq(@, end + 1, Len(@)),
                          !.end = end],
          end |-> p.end + 1]

\* lvm_set_end.
LvmSetEnd(p, end) ==
  IF Fits(p, end) THEN [p EXCEPT !.end = end] ELSE [p EXCEPT !.error = TRUE]

\* lookup: ids are positions from 0; a name that is not there gets the next one.
Lookup(p, name) ==
  IF \E i \in DOMAIN p.variables : p.variables[i] = name
    THEN (CHOOSE i \in DOMAIN p.variables : p.variables[i] = name) - 1
    ELSE Len(p.variables)

\* lvm_register_variable.
LvmRegisterVariable(p, name) ==
  IF Lookup(p, name) = Len(p.variables) /\ Len(p.variables) < VariableLimit
    THEN [p EXCEPT !.variables = Append(@, name)] ELSE p

\* lvm_set_variable.
LvmSetVariable(p, name) == Put(p, Variable(Lookup(p, name)))

-----------------------------------------------------------------------------
(* Evaluating code.  A result has a status, a value, and the next node. *)

NodeAt(p, ip) == IF ip \in DOMAIN p.code THEN p.code[ip] ELSE Hole
Failed(r) == r.status \notin {"TRUE", "FALSE"}
Result(st, v, ip) == [status |-> st, v |-> v, ip |-> ip]
Truth(b, ip) == Result(IF b THEN "TRUE" ELSE "FALSE", 0, ip)

\* C's division of longs truncates.
Quotient(a, b) ==
  LET abs(n) == IF n < 0 THEN -n ELSE n
      q == abs(a) \div abs(b)
  IN  IF (a < 0) = (b < 0) THEN q ELSE -q

\* The switch of eval_expr.  Only a zero is looked out for: the processor traps
\* a quotient there is no long for.
Arithmetic(o, a, b, ip) ==
  IF o = "/" /\ b = 0 THEN Result("MATH_ERROR", 0, ip)
  ELSE IF o = "/" /\ a = LongMin /\ b = -1 THEN Result("TRAP", 0, ip)
  ELSE Result("TRUE", Long(CASE o = "+" -> a + b
                             [] o = "-" -> a - b
                             [] o = "*" -> a * b
                             [] o = "/" -> Quotient(a, b)), ip)

\* The switch of eval_logic.
Compare(o, a, b) ==
  CASE o = "="  -> a = b
    [] o = "<>" -> a # b
    [] o = ">"  -> a > b
    [] o = ">=" -> a >= b
    [] o = "<"  -> a < b
    [] o = "<=" -> a <= b

\* What eval_expr makes of two arguments.
EvalExpr(o, a, b) ==
  IF Failed(a) THEN a ELSE IF Failed(b) THEN b ELSE Arithmetic(o, a.v, b.v, b.ip)

RECURSIVE Argument(_, _, _)
\* One turn of the loops of eval_expr and eval_logic.  val gives the variables
\* their values.
Argument(p, val, ip) ==
  LET node == NodeAt(p, ip) IN
  CASE node.k = "LVM_OPERAND" ->
         Result("TRUE", IF node.o = "LVM_VARIABLE"
                          THEN val[p.variables[node.v + 1]] ELSE node.v, ip + 1)
    [] node.k = "LVM_ARITH_OP" ->
         LET a == Argument(p, val, ip + 1)
         IN  EvalExpr(node.o, a, Argument(p, val, a.ip))
    [] OTHER -> Result("SEMANTIC_ERROR", 0, ip + 1)

\* What eval_logic makes of two sides.
Connect(o, a, b) ==
  CASE o = "AND" -> a.status = "TRUE" /\ b.status = "TRUE"
    [] o = "OR"  -> a.status = "TRUE" \/ b.status = "TRUE"
    [] OTHER     -> Compare(o, a.v, b.v)
Decide(o, a, b) ==
  IF Failed(a) THEN a ELSE IF Failed(b) THEN b ELSE Truth(Connect(o, a, b), b.ip)

RECURSIVE EvalLogic(_, _, _)
\* eval_logic, from the operator at ip; both sides are always evaluated.
EvalLogic(p, val, ip) ==
  LET o == NodeAt(p, ip).o
      Side(at) == IF o \notin {"AND", "OR"} THEN Argument(p, val, at)
                  ELSE IF NodeAt(p, at).k = "LVM_CMP_OP" THEN EvalLogic(p, val, at)
                  ELSE Result("SEMANTIC_ERROR", 0, at + 1)
      a == Side(ip + 1)
  IN  Decide(o, a, Side(a.ip))

\* lvm_execute.
LvmExecute(p, val) ==
  IF NodeAt(p, 1).k = "LVM_CMP_OP" THEN EvalLogic(p, val, 1).status
                                   ELSE "EXECUTION_ERROR"

-----------------------------------------------------------------------------
(* Ranges of variables. *)

MinOf(a, b) == IF a < b THEN a ELSE b
MaxOf(a, b) == IF a > b THEN a ELSE b

NoRange == [derived |-> FALSE, min |-> 0, max |-> 0]
Derived(lo, hi) == [derived |-> TRUE, min |-> lo, max |-> hi]
Underived == [i \in 0 .. VariableLimit |-> NoRange]

\* Mutant: an intersection that ends where the second range begins.
CreateIntersectionNarrow(d1, d2) ==
  [i \in DOMAIN d1 |->
     IF ~d1[i].derived THEN d2[i] ELSE IF ~d2[i].derived THEN d1[i]
     ELSE Derived(MaxOf(d1[i].min, d2[i].min), MinOf(d1[i].max, d2[i].min))]

\* create_intersection and create_union.  Where only one side has a range,
\* both of them take it.
CreateIntersection(d1, d2) ==
  [i \in DOMAIN d1 |->
     IF ~d1[i].derived THEN d2[i] ELSE IF ~d2[i].derived THEN d1[i]
     ELSE Derived(MaxOf(d1[i].min, d2[i].min), MinOf(d1[i].max, d2[i].max))]

CreateUnion(d1, d2) ==
  [i \in DOMAIN d1 |->
     IF ~d1[i].derived THEN d2[i] ELSE IF ~d2[i].derived THEN d1[i]
     ELSE Derived(MinOf(d1[i].min, d2[i].min), MaxOf(d1[i].max, d2[i].max))]

\* The switch of derive_relation.
RangeOf(o, v) ==
  CASE o = "="  -> Derived(v, v)
    [] o = ">"  -> Derived(Long(v + 1), LongMax)
    [] o = ">=" -> Derived(v, LongMax)
    [] o = "<"  -> Derived(LongMin, Long(v - 1))
    [] o = "<=" -> Derived(LongMin, v)

NoDerivation(ip) == [ok |-> FALSE, d |-> Underived, ip |-> ip]

\* What derive_relation makes of two sides, and of an operand and a constant.
Combine(o, l, r) ==
  IF ~l.ok THEN l ELSE IF ~r.ok THEN r
  ELSE [r EXCEPT !.d = IF o = "AND" THEN CreateIntersection(l.d, @)
                                    ELSE CreateUnion(l.d, @)]
RangeOfOne(o, id, v, ip) ==
  [ok |-> TRUE, ip |-> ip, d |-> [Underived EXCEPT ![id] = RangeOf(o, v)]]

RECURSIVE DeriveRelation(_, _)
\* derive_relation, from the operator at ip.  Of two constants the second one
\* passes for the id of a variable.
DeriveRelation(p, ip) ==
  LET o == NodeAt(p, ip).o
      x == NodeAt(p, ip + 1)
      y == NodeAt(p, ip + 2)
      l == DeriveRelation(p, ip + 1)
      id == IF x.o = "LVM_VARIABLE" THEN x.v ELSE y.v % 256
  IN  IF o \in {"AND", "OR"} THEN Combine(o, l, DeriveRelation(p, l.ip))
      ELSE IF \/ x.k # "LVM_OPERAND" \/ y.k # "LVM_OPERAND"
              \/ x.o = "LVM_VARIABLE" /\ y.o = "LVM_VARIABLE"
              \/ id \notin DOMAIN Underived
              \/ o \notin Comparisons \ {"<>"}
             THEN NoDerivation(ip + 3)
      ELSE RangeOfOne(o, id, IF x.o = "LVM_VARIABLE" THEN y.v ELSE x.v, ip + 3)

\* lvm_derive and lvm_get_derived_range.
LvmDerive(p) == DeriveRelation(p, 1)

LvmGetDerivedRange(p, derivation, name) ==
  IF derivation.ok /\ \E i \in DOMAIN p.variables : p.variables[i] = name
    THEN derivation.d[Lookup(p, name)] ELSE NoRange
=============================================================================
