----------------------------- MODULE CJsonLists -----------------------------
(***************************************************************************)
(* What cJSON promises to who builds and takes apart items: an item has a  *)
(* list of items below it, each item is in one list or in the hands of the *)
(* caller, and what is deleted goes with everything below it.  A reference *)
(* has nothing below it that is its own.                                   *)
(***************************************************************************)
EXTENDS Integers, Sequences, FiniteSets, SequencesExt

CONSTANT Id

VARIABLE kids      \* for every item there is, the items in its list

Items == DOMAIN kids
ItemsIn(list) == {list[i] : i \in DOMAIN list}
Placed == UNION {ItemsIn(kids[c]) : c \in Items}
Free == Items \ Placed
New == Id \ Items

\* All of an item: below[k] is what is at most k lists below it.
Whole(n) ==
  LET lists == kids
      below[k \in Nat] ==
        IF k = 0 THEN {n}
        ELSE LET S == below[k - 1] IN S \cup UNION {ItemsIn(lists[m]) : m \in S}
  IN  below[Cardinality(DOMAIN lists)]

Without(S) == [c \in Items \ S |-> kids[c]]

LInit == kids = <<>>

\* New items, all but the last in the list of the last.
Create(new) ==
  kids' = [n \in ItemsIn(new) \cup Items |->
             IF n \in Items THEN kids[n]
             ELSE IF n = Last(new) THEN Front(new)
             ELSE <<>>]

Add(c, n) ==
  /\ c \notin Whole(n)
  /\ kids' = [kids EXCEPT ![c] = Append(@, n)]

\* A new reference, at the end of a list.
AddNew(c, n) ==
  kids' = [m \in Items \cup {n} |-> IF m = n THEN <<>>
             ELSE IF m = c THEN Append(kids[c], n) ELSE kids[m]]

Detach(c, i) == kids' = [kids EXCEPT ![c] = RemoveAt(@, i)]

DeleteAt(c, i) ==
  kids' = [Without(Whole(kids[c][i])) EXCEPT ![c] = RemoveAt(kids[c], i)]

Replace(c, i, n) ==
  /\ c \notin Whole(n)
  /\ kids' = [Without(Whole(kids[c][i])) EXCEPT ![c] = ReplaceAt(kids[c], i, n)]

Delete(n) == kids' = Without(Whole(n))

LNext ==
  \/ \E n \in New :
       Create(<<n>>) \/ \E m, k \in New : Cardinality({n, m, k}) = 3 /\ Create(<<n, m, k>>)
  \/ \E c \in Items :
       \/ \E n \in Free : Add(c, n)
       \/ \E n \in New : AddNew(c, n)
       \/ \E i \in DOMAIN kids[c] : Detach(c, i) \/ DeleteAt(c, i) \/ \E n \in Free : Replace(c, i, n)
  \/ \E n \in Free : Delete(n)

LSpec == LInit /\ [][LNext]_kids
=============================================================================
