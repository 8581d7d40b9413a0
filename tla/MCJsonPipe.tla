------------------------------ MODULE MCJsonPipe ------------------------------
(***************************************************************************)
(* Trees of two levels below the root, over a few atoms, and trees as deep *)
(* as the writer and the reader can go.                                    *)
(***************************************************************************)
EXTENDS JsonPipe

Obj(pairs) == [type |-> "{", pairs |-> pairs]
Arr(values) == [type |-> "[", values |-> values]
Str(s) == [type |-> "\"", value |-> s]
Num(n) == [type |-> "I", value |-> n]
Callback(chunks) == [type |-> "C", chunks |-> chunks]
Pair(name, value) == [name |-> name, value |-> value]

Atoms == {Str(<<"a", "\"">>), Num(120), Callback(<<<<"\"", "b">>, <<"c", "\"">>>>)}
Leaves == Atoms \cup {Str(<<>>), Num(-7), Callback(<<>>)}
SmallSeqs(S) == {<<>>} \cup {<<x>> : x \in S} \cup {<<x, y>> : x \in S, y \in S}
Objects(seqs) == {Obj([i \in DOMAIN q |-> Pair(<<"n", Digits[i]>>, q[i])]) : q \in seqs}
Arrays(seqs) == {Arr(q) : q \in seqs}

Inner == Arrays({<<>>, <<Num(120)>>, <<Num(3), Str(<<"a">>)>>})
           \cup Objects({<<>>, <<Callback(<<<<"\"", "b">>, <<"c", "\"">>>>)>>})
Outer == {Arr(<<x>>) : x \in Inner} \cup Objects({<<x>> : x \in Inner})

\* Strings and names with backslashes, at the end and in front of a quote or not.
Slashed ==
  {<<"a", "\\">>, <<"\\", "a">>, <<"\\", "\\">>, <<"\\", "\"">>, <<"\\", "\\", "\"">>}
Slashes ==
  Objects(SmallSeqs({Str(s) : s \in Slashed} \cup {Num(3)}))
    \cup {Obj(<<Pair(s, Num(3)), Pair(<<"n">>, Str(<<"a">>))>>) : s \in Slashed}
    \cup {Str(s) : s \in Slashed}

\* One value on each level: lists, or objects as well, of so many levels.
RECURSIVE Deep(_, _)
Deep(levels, objects) ==
  IF levels = 1 THEN Num(3)
  ELSE IF levels <= objects THEN Obj(<<Pair(<<"n">>, Deep(levels - 1, objects))>>)
  ELSE Arr(<<Deep(levels - 1, objects)>>)
Deepest ==
  {Obj(<<Pair(<<"n">>, Deep(levels, objects))>>) :
     levels \in 1 .. MaxDepth - 1, objects \in 1 .. MaxDepth - 1}

MCTrees ==
  Slashes \cup Deepest \cup Leaves \cup Objects(SmallSeqs(Atoms \cup Inner)) \cup Objects(SmallSeqs(Leaves))
    \cup Arrays(SmallSeqs(Atoms)) \cup Objects({<<x, y>> : x \in Outer, y \in Atoms \cup Inner})
MCWanted == {"\"", "I", "[", "C"}
=============================================================================
