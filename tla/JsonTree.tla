------------------------------- MODULE JsonTree -------------------------------
(***************************************************************************)
(* The JSON writer of json_parser/ (jsontree.c).  It walks a tree with a   *)
(* stack of its own, so that a caller can stop and go on between any two   *)
(* values: one call of jsontree_print_next is one step.                    *)
(*                                                                         *)
(* A value has its type: "{" with pairs, "[" with values, "\"" with the    *)
(* characters of a string, "I" with a number, "C" with the chunks a        *)
(* callback puts out, one at a time.                                       *)
(***************************************************************************)
EXTENDS Integers, Sequences, SequencesExt

CONSTANT MaxDepth       \* JSONTREE_MAX_DEPTH

\* The places of the context's two arrays.
Depths == 0 .. MaxDepth - 1

\* jsontree_write_string: a quote is escaped, a backslash is not.
WriteString(text) ==
  <<"\"">> \o FlattenSeq([i \in DOMAIN text |->
                IF text[i] = "\"" THEN <<"\\", "\"">> ELSE <<text[i]>>]) \o <<"\"">>

Digits == <<"0", "1", "2", "3", "4", "5", "6", "7", "8", "9">>
RECURSIVE WriteNat(_)
WriteNat(n) == (IF n < 10 THEN <<>> ELSE WriteNat(n \div 10)) \o <<Digits[(n % 10) + 1]>>

\* jsontree_write_int
WriteInt(n) == IF n < 0 THEN <<"-">> \o WriteNat(-n) ELSE WriteNat(n)

\* jsontree_setup and jsontree_reset: only the first place is set.
JsontreeSetup(root) ==
  [values |-> [d \in Depths |-> root], index |-> [d \in Depths |-> 0],
   depth |-> 0, path |-> 0, callback_state |-> 0]
JsontreeReset(ctx) == [ctx EXCEPT !.depth = 0, !.index[0] = 0]

Current(ctx) == ctx.values[ctx.depth]
Index(ctx) == ctx.index[ctx.depth]
Children(v) ==
  IF v.type = "{" THEN [i \in DOMAIN v.pairs |-> v.pairs[i].value] ELSE v.values

\* Mutant: the place that is stepped to keeps the index of a child before.
StepDownDirty(ctx) ==
  [ctx EXCEPT !.depth = @ + 1,
              !.values[ctx.depth + 1] = Children(Current(ctx))[Index(ctx) + 1]]

\* One level down, to the child that is next.
StepDown(ctx) ==
  [ctx EXCEPT !.depth = @ + 1,
              !.index[ctx.depth + 1] = 0,
              !.values[ctx.depth + 1] = Children(Current(ctx))[Index(ctx) + 1]]

\* One level up, when there is one; its next child is due.
Back(ctx) == [ctx EXCEPT !.depth = @ - 1, !.index[ctx.depth - 1] = @ + 1]

Done(ctx, out) ==
  IF ctx.depth > 0 THEN [ctx |-> Back(ctx), out |-> out, more |-> TRUE]
                   ELSE [ctx |-> ctx, out |-> out, more |-> FALSE]

Closing == ("{" :> "}") @@ ("[" :> "]")

\* jsontree_print_next for a container: its head, a comma, a name, its end.
PrintContainer(ctx) ==
  LET v == Current(ctx)
      index == Index(ctx)
      head == IF index = 0 THEN <<v.type, "\n">> ELSE <<>>
      comma == IF index > 0 THEN <<",", "\n">> ELSE <<>>
      name == IF v.type = "{" THEN WriteString(v.pairs[index + 1].name) \o <<":">> ELSE <<>>
  IN  IF index >= Len(Children(v))
        THEN Done(ctx, head \o <<"\n", Closing[v.type]>>)
        ELSE [ctx |-> StepDown(ctx), out |-> head \o comma \o name, more |-> TRUE]

FirstCall(ctx) == IF Index(ctx) = 0 THEN 0 ELSE ctx.callback_state

\* jsontree_print_next for a callback, which keeps its place in callback_state
\* and says whether it has more; without a function it is an empty string.
PrintCallback(ctx) ==
  LET chunks == Current(ctx).chunks
      k == FirstCall(ctx)
      next == [ctx EXCEPT !.callback_state = k + 1]
  IN  IF chunks = <<>> THEN Done([ctx EXCEPT !.callback_state = k], WriteString(<<>>))
      ELSE IF k + 1 < Len(chunks)
        THEN [ctx |-> [next EXCEPT !.index[ctx.depth] = @ + 1],
              out |-> chunks[k + 1], more |-> TRUE]
        ELSE Done(next, IF k < Len(chunks) THEN chunks[k + 1] ELSE <<>>)

\* jsontree_print_next
JsontreePrintNext(ctx) ==
  LET v == Current(ctx)
  IN  CASE v.type \in {"{", "["} -> PrintContainer(ctx)
        [] v.type = "\"" -> Done(ctx, WriteString(v.value))
        [] v.type = "I" -> Done(ctx, WriteInt(v.value))
        [] v.type = "C" -> PrintCallback(ctx)

\* find_next: the next value in the tree, or none at its end.
RECURSIVE FindNext(_)
FindNext(ctx) ==
  LET v == Current(ctx)
  IN  IF v.type \in {"{", "["} /\ Index(ctx) < Len(Children(v))
        THEN [ctx |-> StepDown(ctx), found |-> TRUE]
      ELSE IF ctx.depth > 0 THEN FindNext(Back(ctx))
      ELSE [ctx |-> ctx, found |-> FALSE]

\* Mutant: a list is passed over when a value is looked for.
IsOfTypeOrArray(next, type) == Current(next.ctx).type \in {type, "["}
IsOfType(next, type) == Current(next.ctx).type = type

\* jsontree_find_next: the next value of a type below path.
RECURSIVE JsontreeFindNext(_, _)
JsontreeFindNext(ctx, type) ==
  LET next == FindNext(ctx)
      below == next.ctx.path < next.ctx.depth
  IN  IF next.found /\ ~IsOfType(next, type) /\ below
        THEN JsontreeFindNext(next.ctx, type)
        ELSE [ctx |-> [next.ctx EXCEPT !.callback_state = 0], found |-> next.found /\ below]

\* jsontree_path_name: the name under which the walk went on at a depth.
PathName(ctx, depth) ==
  IF depth < ctx.depth /\ ctx.values[depth].type = "{"
    THEN ctx.values[depth].pairs[ctx.index[depth] + 1].name ELSE <<>>
=============================================================================
