------------------------------- MODULE JsonPipe -------------------------------
(***************************************************************************)
(* What jsontree.c writes, jsonparse.c reads: a tree is printed call by    *)
(* call, its text is read element by element in the loop of the harness    *)
(* (test_json.c), and the tree is then searched for the values of a type.  *)
(***************************************************************************)
EXTENDS JsonParse, JsonTree

CONSTANTS Trees,       \* the trees to print
          Wanted       \* the types to look for

VARIABLES
  root,      \* the tree
  ctx,       \* the context of the writer
  text,      \* what putchar was given so far
  parser,    \* the state of the reader
  elements,  \* what jsonparse_next has returned, with the values
  type,      \* the type to look for
  found,     \* what jsontree_find_next has returned, with the paths
  stage      \* "print", "parse", "search" or "end"

vars == <<root, ctx, text, parser, elements, type, found, stage>>

Init ==
  /\ root \in Trees /\ type \in Wanted
  /\ ctx = JsontreeSetup(root)
  /\ text = <<>> /\ parser = JsonparseSetup /\ elements = <<>> /\ found = <<>>
  /\ stage = "print"

\* One call of jsontree_print_next.
Print1 ==
  /\ stage = "print"
  /\ LET p == JsontreePrintNext(ctx) IN
       /\ text' = text \o p.out
       /\ ctx' = p.ctx
       /\ stage' = IF p.more THEN "print" ELSE "parse"
  /\ UNCHANGED <<root, parser, elements, type, found>>

\* One turn of the loop of the harness: the next element and its value.
Read1 ==
  /\ stage = "parse"
  /\ LET r == JsonparseNext(text, parser) IN
       /\ parser' = r.state
       /\ IF r.result = "none"
            THEN stage' = "search" /\ ctx' = JsontreeReset(ctx) /\ UNCHANGED elements
            ELSE /\ elements' = Append(elements, [is |-> r.result,
                                  value |-> IF r.result \in {"N", "\"", "0"}
                                              THEN CopyValue(text, r.state) ELSE <<>>])
                 /\ UNCHANGED <<stage, ctx>>
  /\ UNCHANGED <<root, text, type, found>>

\* One call of jsontree_find_next.
Find1 ==
  /\ stage = "search"
  /\ LET f == JsontreeFindNext(ctx, type) IN
       /\ ctx' = f.ctx
       /\ IF f.found
            THEN /\ found' = Append(found, [path |-> [d \in 1 .. f.ctx.depth |-> PathName(f.ctx, d - 1)],
                                            value |-> Current(f.ctx)])
                 /\ UNCHANGED stage
            ELSE stage' = "end" /\ UNCHANGED found
  /\ UNCHANGED <<root, text, parser, elements, type>>

Next == Print1 \/ Read1 \/ Find1
Spec == Init /\ [][Next]_vars

-----------------------------------------------------------------------------
(* What a tree means, defined over the tree and not step by step. *)

Joined(seqs, with) ==
  FlattenSeq([i \in DOMAIN seqs |-> (IF i = 1 THEN <<>> ELSE with) \o seqs[i]])

RECURSIVE Rendered(_)
Rendered(v) ==
  CASE v.type = "\"" -> WriteString(v.value)
    [] v.type = "I" -> WriteInt(v.value)
    [] v.type = "C" -> IF v.chunks = <<>> THEN <<"\"", "\"">> ELSE FlattenSeq(v.chunks)
    [] OTHER -> <<v.type, "\n">>
                  \o Joined([i \in DOMAIN Children(v) |->
                       (IF v.type = "{" THEN WriteString(v.pairs[i].name) \o <<":">> ELSE <<>>)
                         \o Rendered(Children(v)[i])], <<",", "\n">>)
                  \o <<"\n", Closing[v.type]>>

Only(is) == [is |-> is, value |-> <<>>]
Unquoted(s) == SubSeq(s, 2, Len(s) - 1)
RECURSIVE ElementsOf(_)
ElementsOf(v) ==
  CASE v.type \in {"\"", "C"} -> <<[is |-> "\"", value |-> Unquoted(Rendered(v))]>>
    [] v.type = "I" -> <<[is |-> "0", value |-> WriteInt(v.value)]>>
    [] OTHER -> <<Only(v.type)>>
                  \o Joined([i \in DOMAIN Children(v) |->
                       (IF v.type = "{"
                          THEN <<[is |-> "N", value |-> Unquoted(WriteString(v.pairs[i].name))],
                                 Only(":")>>
                          ELSE <<>>)
                         \o ElementsOf(Children(v)[i])], <<Only(",")>>)
                  \o <<Only(Closing[v.type])>>

\* The values below v in the order of the text, each with its path.
RECURSIVE Below(_, _)
Below(v, path) ==
  IF v.type \notin {"{", "["} THEN <<>>
  ELSE FlattenSeq([i \in DOMAIN Children(v) |->
         LET p == Append(path, IF v.type = "{" THEN v.pairs[i].name ELSE <<>>)
         IN  <<[path |-> p, value |-> Children(v)[i]]>> \o Below(Children(v)[i], p)])

\* A pair ends, for the reader, when a string or number came last.
RECURSIVE EndsInAtom(_)
EndsInAtom(v) ==
  v.type \in {"{", "["} => Children(v) # <<>> /\ EndsInAtom(Last(Children(v)))

AllOf(tree) ==
  {tree} \cup {f.value : f \in Range(Below(tree, <<>>))}

\* The quote that ends a string, and those inside, mean what they should: not an
\* odd number of backslashes, which are written as they are, is in front of one.
Quotable(s) ==
  \A k \in 0 .. Len(s) :
    (k = Len(s) \/ s[k + 1] = "\"") =>
      LET others == {0} \cup {i \in 1 .. k : s[i] # "\\"}
      IN  (k - Max(others)) % 2 = 0
AllQuotable(tree) ==
  \A v \in AllOf(tree) :
    /\ v.type = "\"" => Quotable(v.value)
    /\ v.type = "{" => \A i \in DOMAIN v.pairs : Quotable(v.pairs[i].name)

\* How many containers and pairs the reader is in where the tree is deepest.
RECURSIVE Nesting(_)
Nesting(v) ==
  IF v.type \notin {"{", "["} THEN 0
  ELSE 1 + Max({0} \cup {Nesting(c) + (IF v.type = "{" THEN 1 ELSE 0) :
                           c \in Range(Children(v))})

\* The trees the reader can follow: an object, without a negative number, in
\* which every string is one it finds the end of, and every pair ends in a string
\* or a number, no deeper than its stack.
Readable(tree) ==
  /\ tree.type = "{" /\ AllQuotable(tree) /\ Nesting(tree) <= ReadDepth
  /\ \A v \in AllOf(tree) :
       /\ v.type = "I" => v.value >= 0
       /\ v.type = "{" => \A i \in DOMAIN v.pairs : EndsInAtom(v.pairs[i].value)

-----------------------------------------------------------------------------
(* Properties. *)

\* No depth or place is out of bounds, but for a string whose end is not found.
TypeOK ==
  /\ type \in Wanted /\ stage \in {"print", "parse", "search", "end"}
  /\ ctx.depth \in Depths /\ \A d \in Depths : ctx.index[d] \in Nat
  /\ Len(parser.stack) <= ReadDepth
  /\ parser.error \in {"OK", "BEYOND", "OVERRUN", "SYNTAX", "UNEXPECTED_ARRAY", "UNEXPECTED_END_OF_ARRAY",
                       "UNEXPECTED_STRING"}
  /\ parser.pos \in 0 .. Len(text) + 1 /\ parser.vstart + parser.vlen <= Len(text)

\* However often jsontree_print_next stops and goes on, the text is that of the
\* tree, once, also with callbacks that put out their text in pieces; and for trees
\* of up to MaxDepth levels no depth or index leaves its array.
PrintsTheTree ==
  /\ TypeOK
  /\ stage # "print" => text = Rendered(root)

\* jsonparse_next never returns anything but what is in the tree, in its order,
\* as long as it finds the ends of the strings.
ReadsNothingElse == AllQuotable(root) => IsPrefix(elements, ElementsOf(root))

\* It reads a tree to its end exactly when it can follow it, and then there is no
\* error and no container left.
ReadsToTheEnd ==
  stage \in {"search", "end"} =>
    /\ elements = ElementsOf(root) <=> Readable(root)
    /\ elements = ElementsOf(root) => parser.error = "OK" /\ parser.stack = <<>>

\* The reader and the tree agree.
ReadsTheTree == ReadsNothingElse /\ ReadsToTheEnd

\* jsontree_find_next gives every value of the type below the root once, in the
\* order of the text, with the names on the way to it, and then no more.
FindsAll ==
  LET all == SelectSeq(Below(root, <<>>), LAMBDA f : f.value.type = type)
  IN  /\ IsPrefix(found, all)
      /\ stage = "end" => found = all
=============================================================================
