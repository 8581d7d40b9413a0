--------------------------- MODULE CJsonItemsProofs ---------------------------
(***************************************************************************)
(* The items of cJSON, for every number of items and every set of names:   *)
(* the lists can always be walked both ways, and all can be given back.    *)
(*                                                                         *)
(* The lemmas are about a memory m of which the caller holds the items H,  *)
(* and say of each function of cjson.c that it leaves a sound memory;      *)
(* the steps then follow from what the caller keeps to.                    *)
(***************************************************************************)
EXTENDS CJsonItems, FiniteSetTheorems, TLAPS

-----------------------------------------------------------------------------
(* Natural numbers, iteration and closed sets. *)

\* A set of natural numbers with 0 and with the successor of each of its numbers has
\* them all: what is not in it would have a least interval.  (The induction of the
\* library takes its formula as a parameter, which no prover at hand can instantiate.)
LEMMA Induction ==
  ASSUME NEW S, S \subseteq Nat, 0 \in S, \A n \in S : n + 1 \in S
  PROVE  S = Nat
<1> SUFFICES ASSUME NEW z \in Nat, z \notin S PROVE FALSE
  OBVIOUS
<1> DEFINE U == {0 .. n : n \in Nat \ S}
           R == StrictSubsetOrdering(Nat)
<1>1. PICK u \in U : \A v \in U : <<v, u>> \notin R
  <2>1. IsWellFoundedOn(R, FiniteSubsetsOf(Nat))
    BY FS_StrictSubsetOrderingWellFounded
  <2>2. U \subseteq FiniteSubsetsOf(Nat)
    <3> SUFFICES ASSUME NEW n \in Nat PROVE 0 .. n \in FiniteSubsetsOf(Nat)
      OBVIOUS
    <3> QED
      BY FS_Interval DEF FiniteSubsetsOf
  <2>3. 0 .. z \in U
    OBVIOUS
  <2> HIDE DEF U, R
  <2> QED
    BY <2>1, <2>2, <2>3, WFMin
<1>2. PICK n \in Nat \ S : u = 0 .. n
  OBVIOUS
<1>3. n # 0 /\ n - 1 \in Nat /\ (n - 1) + 1 = n
  OBVIOUS
<1>4. n - 1 \notin S
  BY <1>3
<1>5. 0 .. n - 1 \in U /\ 0 .. n - 1 \subseteq 0 .. n /\ 0 .. n - 1 # 0 .. n
  BY <1>3, <1>4
<1>6. <<0 .. n - 1, 0 .. n>> \in R
  BY <1>5 DEF StrictSubsetOrdering
<1> QED
  BY <1>1, <1>2, <1>5, <1>6

\* A set of natural numbers has a least element: else there would be no number that
\* all of them are above.
LEMMA LeastElement ==
  ASSUME NEW T, T \subseteq Nat, T # {}
  PROVE  \E x \in T : \A y \in T : x <= y
<1> SUFFICES ASSUME \A x \in T : \E y \in T : ~(x <= y) PROVE FALSE
  OBVIOUS
<1> DEFINE S == {n \in Nat : \A y \in T : n <= y}
<1>1. 0 \in S
  OBVIOUS
<1>2. ASSUME NEW n \in S PROVE n + 1 \in S
  <2>1. n \notin T
    OBVIOUS
  <2> SUFFICES ASSUME NEW y \in T PROVE n + 1 <= y
    OBVIOUS
  <2>2. n <= y /\ n # y /\ n \in Nat /\ y \in Nat
    BY <2>1
  <2> QED
    BY <2>2
<1>3. S \subseteq Nat
  OBVIOUS
<1>4. PICK x \in T : x \in Nat
  OBVIOUS
<1>5. x + 1 \notin S
  BY <1>4
<1> HIDE DEF S
<1>6. S = Nat
  BY <1>1, <1>2, <1>3, Induction
<1> QED
  BY <1>4, <1>5, <1>6

\* What is defined by its first value and a step from each value to the next is a
\* function: the loops of cJSON_GetArrayItem and of cJSON_Delete always come to a
\* next state.
LEMMA Iterated ==
  ASSUME NEW S, NEW c \in S, NEW step \in [S -> S]
  PROVE  \E f \in [Nat -> S] :
           f = [k \in Nat |-> IF k = 0 THEN c ELSE step[f[k - 1]]]
<1> DEFINE Upto(n, g) == /\ g \in [0 .. n -> S] /\ g[0] = c
                         /\ \A k \in 0 .. n - 1 : g[k + 1] = step[g[k]]
           Begun == {n \in Nat : \E g : Upto(n, g)}
           Agree == {k \in Nat : \A n, m \in Nat : \A g, h :
                       k <= n /\ k <= m /\ Upto(n, g) /\ Upto(m, h) => g[k] = h[k]}
           F(n) == CHOOSE g : Upto(n, g)
           f == [n \in Nat |-> F(n)[n]]
<1>1. Begun = Nat
  <2>1. 0 \in Begun
    <3>1. Upto(0, [k \in 0 .. 0 |-> c])
      OBVIOUS
    <3> QED
      BY <3>1
  <2>2. ASSUME NEW n \in Begun PROVE n + 1 \in Begun
    <3>1. PICK g : Upto(n, g)
      OBVIOUS
    <3> DEFINE h == [k \in 0 .. n + 1 |-> IF k <= n THEN g[k] ELSE step[g[n]]]
    <3>2. Upto(n + 1, h)
      BY <3>1
    <3>3. n + 1 \in Nat
      OBVIOUS
    <3> HIDE DEF h, Upto
    <3> QED
      BY <3>2, <3>3
  <2> HIDE DEF Begun
  <2>3. Begun \subseteq Nat
    BY DEF Begun
  <2> QED
    BY <2>1, <2>2, <2>3, Induction
<1>2. Agree = Nat
  <2>1. 0 \in Agree
    OBVIOUS
  <2>2. ASSUME NEW k \in Agree PROVE k + 1 \in Agree
    <3> SUFFICES ASSUME NEW n \in Nat, NEW m \in Nat, NEW g, NEW h,
                        k + 1 <= n, k + 1 <= m, Upto(n, g), Upto(m, h)
                 PROVE  g[k + 1] = h[k + 1]
      BY DEF Agree
    <3>1. g[k] = h[k]
      <4>1. k \in Nat /\ k <= n /\ k <= m
        BY DEF Agree
      <4> HIDE DEF Upto
      <4> QED
        BY <4>1 DEF Agree
    <3>2. k \in 0 .. n - 1 /\ k \in 0 .. m - 1
      OBVIOUS
    <3> QED
      BY <3>1, <3>2
  <2> HIDE DEF Agree
  <2>3. Agree \subseteq Nat
    BY DEF Agree
  <2> QED
    BY <2>1, <2>2, <2>3, Induction
<1>3. \A n \in Nat : Upto(n, F(n))
  BY <1>1 DEF Begun
<1> HIDE DEF F, Agree, Begun
<1>4. f \in [Nat -> S] /\ f[0] = c
  BY <1>3
<1>5. ASSUME NEW k \in Nat PROVE f[k + 1] = step[f[k]]
  <2>1. Upto(k, F(k)) /\ Upto(k + 1, F(k + 1))
    BY <1>3
  <2>2. F(k)[k] = F(k + 1)[k]
    <3>1. k \in Agree /\ k + 1 \in Nat /\ k <= k /\ k <= k + 1
      BY <1>2
    <3> HIDE DEF Upto
    <3> QED
      BY <2>1, <3>1 DEF Agree
  <2> QED
    BY <2>1, <2>2
<1> HIDE DEF f
<1>6. f = [k \in Nat |-> IF k = 0 THEN c ELSE step[f[k - 1]]]
  <2>1. \A k \in Nat : f[k] = IF k = 0 THEN c ELSE step[f[k - 1]]
    <3> SUFFICES ASSUME NEW k \in Nat PROVE f[k] = IF k = 0 THEN c ELSE step[f[k - 1]]
      OBVIOUS
    <3>1. CASE k = 0
      BY <1>4, <3>1
    <3>2. CASE k # 0
      <4>1. k - 1 \in Nat /\ (k - 1) + 1 = k
        BY <3>2
      <4> QED
        BY <1>5, <3>2, <4>1
    <3> QED
      BY <3>1, <3>2
  <2> QED
    BY <1>4, <2>1
<1> QED
  BY <1>4, <1>6

\* A set that grows in rounds by what its elements lead to is closed after as many
\* rounds as there are elements, and is the least closed set with the first.
LEMMA Saturated ==
  ASSUME NEW D, IsFiniteSet(D), NEW c \in D, NEW on \in [D -> SUBSET D],
         NEW f \in [Nat -> SUBSET D],
         f[0] = {c},
         \A k \in Nat : \A y : y \in f[k + 1] <=> y \in f[k] \/ \E x \in f[k] : y \in on[x],
         NEW R, R = f[Cardinality(D)]
  PROVE  /\ R \subseteq D /\ c \in R
         /\ \A x \in R : on[x] \subseteq R
         /\ \A S : c \in S /\ (\A x \in S \cap D : on[x] \subseteq S) => R \subseteq S
<1> DEFINE Grown(k) == f[k] = f[k + 1] \/ Cardinality(f[k]) >= k + 1
<1>1. f[0] = {c} /\ \A k \in Nat : f[k + 1] = f[k] \cup UNION {on[x] : x \in f[k]}
  OBVIOUS
<1>2. \A k \in Nat : IsFiniteSet(f[k]) /\ Cardinality(f[k]) \in Nat
                     /\ Cardinality(f[k]) <= Cardinality(D)
  BY FS_Subset, FS_CardinalityType
<1>3. Cardinality(D) \in Nat
  BY FS_CardinalityType
<1>4. \A k \in Nat : Grown(k)
  <2> DEFINE G == {k \in Nat : Grown(k)}
  <2>1. 0 \in G
    <3>1. Cardinality(f[0]) = 1
      BY <1>1, FS_Singleton
    <3>2. Cardinality(f[0]) >= 0 + 1
      <4> DEFINE p == Cardinality(f[0])
      <4>1. p = 1
        BY <3>1
      <4> HIDE DEF p
      <4>2. p >= 0 + 1
        BY <4>1
      <4> QED
        BY <4>2 DEF p
    <3> QED
      BY <3>2
  <2>2. ASSUME NEW k \in G PROVE k + 1 \in G
    <3>1. k \in Nat /\ k + 1 \in Nat
      OBVIOUS
    <3>2. CASE f[k] = f[k + 1]
      <4>1. f[(k + 1) + 1] = f[k + 1]
        BY <1>1, <3>1, <3>2
      <4> QED
        BY <3>1, <4>1
    <3>3. CASE f[k] # f[k + 1] /\ Cardinality(f[k]) >= k + 1
      <4>1. f[k] \subseteq f[k + 1]
        BY <1>1, <3>1
      <4>2. /\ Cardinality(f[k]) <= Cardinality(f[k + 1])
            /\ Cardinality(f[k]) = Cardinality(f[k + 1]) => f[k] = f[k + 1]
        BY <1>2, <3>1, <4>1, FS_Subset
      <4>3. Cardinality(f[k + 1]) >= (k + 1) + 1
        <5>1. \A p, q \in Nat : p <= q /\ p # q /\ p >= k + 1 => q >= (k + 1) + 1
          BY <3>1
        <5> QED
          BY <1>2, <3>1, <3>3, <4>2, <5>1
      <4> QED
        BY <3>1, <4>3
    <3> QED
      BY <3>2, <3>3
  <2> HIDE DEF G
  <2>3. G \subseteq Nat
    BY DEF G
  <2>4. G = Nat
    BY <2>1, <2>2, <2>3, Induction
  <2> QED
    BY <2>4 DEF G
<1>5. R = f[Cardinality(D) + 1]
  <2>1. ~(Cardinality(R) >= Cardinality(D) + 1)
    <3>1. \A p, q \in Nat : p <= q => ~(p >= q + 1)
      OBVIOUS
    <3>2. Cardinality(R) \in Nat /\ Cardinality(R) <= Cardinality(D)
      BY <1>2, <1>3
    <3> QED
      BY <1>3, <3>1, <3>2
  <2> QED
    BY <1>3, <1>4, <2>1
<1>6. R = R \cup UNION {on[x] : x \in R}
  BY <1>1, <1>3, <1>5
<1>7. c \in R
  <2> DEFINE G == {k \in Nat : c \in f[k]}
  <2>1. 0 \in G /\ \A k \in G : k + 1 \in G
    BY <1>1
  <2> HIDE DEF G
  <2>2. G \subseteq Nat
    BY DEF G
  <2>3. G = Nat
    BY <2>1, <2>2, Induction
  <2> QED
    BY <1>3, <2>3 DEF G
<1>8. ASSUME NEW S, c \in S, \A x \in S \cap D : on[x] \subseteq S
      PROVE  R \subseteq S
  <2> DEFINE G == {k \in Nat : f[k] \subseteq S}
  <2>1. 0 \in G
    BY <1>1, <1>8
  <2>2. ASSUME NEW k \in G PROVE k + 1 \in G
    <3>1. \A x \in f[k] : on[x] \subseteq S
      BY <1>8
    <3> QED
      BY <1>1, <3>1
  <2> HIDE DEF G
  <2>3. G \subseteq Nat
    BY DEF G
  <2>4. G = Nat
    BY <2>1, <2>2, <2>3, Induction
  <2> QED
    BY <1>3, <2>4 DEF G
<1>9. R \subseteq D
  BY <1>3
<1>10. \A x \in R : on[x] \subseteq R
  BY <1>6
<1> QED
  BY <1>7, <1>8, <1>9, <1>10

-----------------------------------------------------------------------------
(* Memories. *)

\* The cJSON structures of a memory with the items D.
ItemSet(D) ==
  [type : Types \cup {"array", "leaf"}, isref : BOOLEAN, of : Nat, child : D \cup {0},
   next : D \cup {0}, prev : D \cup {0}, string : Name \cup {NoName}]

\* Every pointer of an item leads to an item of the memory.
Typed(m) == DOMAIN m \subseteq Id /\ m \in [DOMAIN m -> ItemSet(DOMAIN m)]

\* cJSON_Delete goes on from x to y.
Leads(m, x, y) == y # 0 /\ (m[x].next = y \/ (~m[x].isref /\ m[x].child = y))

\* Where cJSON_Delete goes on to, and that it stays in the memory.
LEMMA OnwardLeads ==
  ASSUME NEW m, Typed(m), NEW x \in DOMAIN m
  PROVE  /\ Onward(m, x) \subseteq DOMAIN m
         /\ \A y : y \in Onward(m, x) <=> Leads(m, x, y)
<1>1. m[x] \in ItemSet(DOMAIN m)
  BY DEF Typed
<1>2. m[x].next \in DOMAIN m \cup {0} /\ m[x].child \in DOMAIN m \cup {0}
  BY <1>1 DEF ItemSet
<1> QED
  BY <1>2 DEF Onward, OwnsChild, Leads

\* A memory is finite, and 0 is no item of it.
LEMMA FiniteMemory ==
  ASSUME NEW m, Typed(m)
  PROVE  /\ IsFiniteSet(DOMAIN m) /\ Cardinality(DOMAIN m) \in Nat
         /\ Cardinality(DOMAIN m) <= MaxItems
         /\ 0 \notin DOMAIN m
<1>1. IsFiniteSet(Id) /\ Cardinality(Id) = MaxItems
  BY ItemsAssumption, FS_Interval DEF Id
<1> QED
  BY <1>1, FS_Subset, FS_CardinalityType DEF Typed, Id

\* What cJSON_Delete frees is the least set with its item that it does not leave.
LEMMA DeletedIs ==
  ASSUME NEW m, Typed(m), NEW c \in DOMAIN m
  PROVE  /\ Deleted(m, c) \subseteq DOMAIN m /\ c \in Deleted(m, c)
         /\ \A x \in Deleted(m, c) : \A y : Leads(m, x, y) => y \in Deleted(m, c)
         /\ \A S : c \in S /\ (\A x \in S \cap DOMAIN m : \A y : Leads(m, x, y) => y \in S)
                     => Deleted(m, c) \subseteq S
<1> DEFINE D == DOMAIN m
           on == [x \in D |-> Onward(m, x)]
           step == [T \in SUBSET D |-> T \cup UNION {Onward(m, x) : x \in T}]
           seen == CHOOSE seen : seen =
                     [k \in Nat |-> IF k = 0 THEN {c}
                        ELSE LET S == seen[k - 1] IN S \cup UNION {Onward(m, x) : x \in S}]
<1>1. on \in [D -> SUBSET D]
  BY OnwardLeads
<1>2. step \in [SUBSET D -> SUBSET D]
  BY OnwardLeads
<1>3. PICK f \in [Nat -> SUBSET D] :
             f = [k \in Nat |-> IF k = 0 THEN {c} ELSE step[f[k - 1]]]
  <2> DEFINE first == {c}
             all == SUBSET D
  <2>1. first \in all /\ step \in [all -> all]
    BY <1>2
  <2> HIDE DEF step, first, all
  <2>2. \E f \in [Nat -> all] : f = [k \in Nat |-> IF k = 0 THEN first ELSE step[f[k - 1]]]
    BY <2>1, Iterated
  <2> QED
    BY <2>2 DEF first, all
<1>4. \A T \in SUBSET D : step[T] = T \cup UNION {Onward(m, x) : x \in T}
  OBVIOUS
<1> HIDE DEF step
<1>5. f = [k \in Nat |-> IF k = 0 THEN {c}
                         ELSE LET S == f[k - 1] IN S \cup UNION {Onward(m, x) : x \in S}]
  <2>1. ASSUME NEW k \in Nat, k # 0
        PROVE  step[f[k - 1]] = f[k - 1] \cup UNION {Onward(m, x) : x \in f[k - 1]}
    BY <1>4, <2>1
  <2> QED
    BY <1>3, <2>1
<1>6. seen = [k \in Nat |-> IF k = 0 THEN {c}
                         ELSE LET S == seen[k - 1] IN S \cup UNION {Onward(m, x) : x \in S}]
  BY <1>5
<1>7. Deleted(m, c) = seen[Cardinality(D)]
  BY DEF Deleted
<1> HIDE DEF seen
<1>8. \A k \in Nat : seen[k] \in SUBSET D
  <2> DEFINE G == {k \in Nat : seen[k] \in SUBSET D}
  <2>1. 0 \in G
    BY <1>6
  <2>2. ASSUME NEW k \in G PROVE k + 1 \in G
    <3>1. k + 1 \in Nat /\ k + 1 # 0 /\ (k + 1) - 1 = k
      OBVIOUS
    <3>2. seen[k + 1] = seen[k] \cup UNION {Onward(m, x) : x \in seen[k]}
      BY <1>6, <3>1
    <3> QED
      BY <3>1, <3>2, OnwardLeads
  <2> HIDE DEF G
  <2>3. G \subseteq Nat
    BY DEF G
  <2>4. G = Nat
    BY <2>1, <2>2, <2>3, Induction
  <2> QED
    BY <2>4 DEF G
<1>9. seen[0] = {c} /\ \A k \in Nat : \A y :
         y \in seen[k + 1] <=> y \in seen[k] \/ \E x \in seen[k] : y \in on[x]
  <2>1. seen[0] = {c}
    BY <1>6
  <2>2. ASSUME NEW k \in Nat PROVE seen[k + 1] = seen[k] \cup UNION {Onward(m, x) : x \in seen[k]}
    <3>1. k + 1 \in Nat /\ k + 1 # 0 /\ (k + 1) - 1 = k
      OBVIOUS
    <3> QED
      BY <1>6, <3>1
  <2>3. ASSUME NEW k \in Nat, NEW x \in seen[k] PROVE on[x] = Onward(m, x)
    BY <1>8
  <2> SUFFICES ASSUME NEW k \in Nat, NEW y
               PROVE  y \in seen[k + 1] <=> y \in seen[k] \/ \E x \in seen[k] : y \in on[x]
    BY <2>1
  <2>4. y \in seen[k + 1] <=> y \in seen[k] \/ \E x \in seen[k] : y \in Onward(m, x)
    BY <2>2
  <2> QED
    BY <2>3, <2>4
<1>10. seen \in [Nat -> SUBSET D]
  BY <1>6, <1>8
<1>11. IsFiniteSet(D)
  BY FiniteMemory
<1> DEFINE R == seen[Cardinality(D)]
<1> HIDE DEF on
<1>12. /\ R \subseteq D /\ c \in R
       /\ \A x \in R : on[x] \subseteq R
       /\ \A S : c \in S /\ (\A x \in S \cap D : on[x] \subseteq S) => R \subseteq S
  <2>1. R = seen[Cardinality(D)] /\ c \in D
    OBVIOUS
  <2> HIDE DEF R, D
  <2> QED
    BY <1>1, <1>9, <1>10, <1>11, <2>1, Saturated
<1>13. \A x \in D : on[x] = Onward(m, x)
  BY DEF on
<1>14. \A x \in D : \A y : y \in on[x] <=> Leads(m, x, y)
  BY <1>13, OnwardLeads
<1> HIDE DEF R
<1>15. \A x \in R : \A y : Leads(m, x, y) => y \in R
  BY <1>12, <1>14
<1>16. ASSUME NEW S, c \in S, \A x \in S \cap D : \A y : Leads(m, x, y) => y \in S
       PROVE  R \subseteq S
  BY <1>12, <1>14, <1>16
<1> QED
  BY <1>7, <1>12, <1>15, <1>16 DEF R

\* Every link forward is mirrored by one back, and the first of a list has none back.
Linked(m) ==
  \A x \in DOMAIN m :
    /\ m[x].next # 0 => m[m[x].next].prev = x
    /\ m[x].prev # 0 => m[m[x].prev].next = x
    /\ ~m[x].isref /\ m[x].child # 0 => m[m[x].child].prev = 0

\* A list is owned by one item.
OneOwner(m) ==
  \A x, y \in DOMAIN m :
    ~m[x].isref /\ ~m[y].isref /\ m[x].child # 0 /\ m[x].child = m[y].child => x = y

\* An item as the caller holds it: in no list and owned by none.
Loose(m, h) ==
  /\ m[h].next = 0 /\ m[h].prev = 0
  /\ \A x \in DOMAIN m : ~m[x].isref => m[x].child # h

\* A reference has the child of what it was made of, which is older.
Shares(m) ==
  \A r \in DOMAIN m :
    m[r].isref => m[r].of \in DOMAIN m /\ m[r].of < r /\ m[m[r].of].child = m[r].child

\* Everything can be reached from H: no smaller set has H and is closed.
Spanned(m, H) ==
  \A S \in SUBSET DOMAIN m :
    H \subseteq S /\ (\A x \in S : \A y : Leads(m, x, y) => y \in S) => S = DOMAIN m

\* The invariant of a memory of which the caller holds H.
Sound(m, H) ==
  /\ Typed(m) /\ H \subseteq DOMAIN m
  /\ Linked(m) /\ OneOwner(m) /\ (\A h \in H : Loose(m, h)) /\ Shares(m) /\ Spanned(m, H)

\* The fields of an item have their types.
LEMMA Fields ==
  ASSUME NEW m, Typed(m), NEW x \in DOMAIN m
  PROVE  /\ x \in Nat /\ x # 0
         /\ m[x].isref \in BOOLEAN /\ m[x].of \in Nat
         /\ m[x].next \in DOMAIN m \cup {0} /\ m[x].prev \in DOMAIN m \cup {0}
         /\ m[x].child \in DOMAIN m \cup {0}
         /\ \A y : Leads(m, x, y) => y \in DOMAIN m
<1>1. m[x] \in ItemSet(DOMAIN m)
  BY DEF Typed
<1>2. x \in Nat /\ x # 0
  BY DEF Typed, Id
<1> QED
  BY <1>1, <1>2 DEF ItemSet, Leads

\* To an item leads one item at most.
LEMMA OneLink ==
  ASSUME NEW m, Typed(m), Linked(m), OneOwner(m), NEW x \in DOMAIN m, NEW y \in DOMAIN m,
         NEW z, Leads(m, x, z), Leads(m, y, z)
  PROVE  x = y
<1>1. x # 0 /\ y # 0
  BY Fields
<1> QED
  BY <1>1 DEF Leads, Linked, OneOwner

\* To what the caller holds leads nothing.
LEMMA LooseEnd ==
  ASSUME NEW m, Typed(m), Linked(m), NEW h \in DOMAIN m, Loose(m, h), NEW x \in DOMAIN m
  PROVE  ~Leads(m, x, h)
BY Fields DEF Leads, Linked, Loose

\* cJSON_Delete comes to every item but the first from another one that it frees.
LEMMA CameBy ==
  ASSUME NEW m, Typed(m), NEW c \in DOMAIN m, NEW y \in Deleted(m, c), y # c
  PROVE  \E x \in Deleted(m, c) : Leads(m, x, y)
<1> DEFINE K == Deleted(m, c)
           S == {c} \cup {z \in K : \E x \in K : Leads(m, x, z)}
<1>1. K \subseteq DOMAIN m /\ c \in K /\ \A x \in K : \A z : Leads(m, x, z) => z \in K
  BY DeletedIs
<1>2. \A x \in S \cap DOMAIN m : \A z : Leads(m, x, z) => z \in S
  BY <1>1
<1>3. K \subseteq S
  <2>1. c \in S
    OBVIOUS
  <2> HIDE DEF S
  <2> QED
    BY <1>2, <2>1, DeletedIs
<1> QED
  BY <1>3

\* There are no cycles: what leads to an item is not freed with it.  If it were, the
\* freed items would lead to each other, and all the others would be a smaller closed
\* set with everything that is held.
LEMMA NoWayBack ==
  ASSUME NEW m, NEW H, Sound(m, H), NEW p \in DOMAIN m, NEW c \in DOMAIN m, Leads(m, p, c)
  PROVE  p \notin Deleted(m, c)
<1> SUFFICES ASSUME p \in Deleted(m, c) PROVE FALSE
  OBVIOUS
<1> DEFINE K == Deleted(m, c)
           S == DOMAIN m \ K
<1>1. Typed(m) /\ Linked(m) /\ OneOwner(m) /\ H \subseteq DOMAIN m /\ \A h \in H : Loose(m, h)
  BY DEF Sound
<1>2. K \subseteq DOMAIN m /\ c \in K /\ \A x \in K : \A z : Leads(m, x, z) => z \in K
  BY <1>1, DeletedIs
<1>3. \A y \in K : \E x \in K : Leads(m, x, y)
  BY <1>1, CameBy
<1>4. H \subseteq S
  BY <1>1, <1>2, <1>3, LooseEnd
<1>5. ASSUME NEW x \in S, NEW y, Leads(m, x, y) PROVE y \in S
  <2>1. y \in DOMAIN m
    BY <1>1, <1>5, Fields
  <2>2. CASE y \in K
    <3>1. PICK z \in K : Leads(m, z, y)
      BY <1>3, <2>2
    <3>2. z = x
      BY <1>1, <1>2, <1>5, <3>1, OneLink
    <3> QED
      BY <3>1, <3>2
  <2> QED
    BY <2>1, <2>2
<1>6. S = DOMAIN m
  <2>1. S \in SUBSET DOMAIN m
    OBVIOUS
  <2> HIDE DEF S
  <2> QED
    BY <1>4, <1>5, <2>1 DEF Sound, Spanned
<1> QED
  BY <1>2, <1>6

\* The chain of references ends at an item that is none, of which the last was made:
\* each was made of an older one.
LEMMA Original ==
  ASSUME NEW m, Typed(m), Shares(m), NEW r \in DOMAIN m, m[r].isref
  PROVE  \E o \in DOMAIN m : /\ ~m[o].isref /\ m[o].child = m[r].child
                             /\ \E q \in DOMAIN m : m[q].isref /\ m[q].of = o
<1> DEFINE T == {q \in DOMAIN m : m[q].isref /\ m[q].child = m[r].child}
<1>1. T \subseteq Nat /\ T # {}
  BY Fields
<1>2. PICK q \in T : \A y \in T : q <= y
  <2> HIDE DEF T
  <2> QED
    BY <1>1, LeastElement
<1>3. m[q].of \in DOMAIN m /\ m[q].of < q /\ m[m[q].of].child = m[r].child
  BY <1>2 DEF Shares
<1>4. q \in Nat /\ m[q].of \in Nat
  BY <1>1, Fields
<1>5. m[q].of \notin T
  <2>1. ~(q <= m[q].of)
    BY <1>3, <1>4
  <2> QED
    BY <1>2, <2>1
<1> QED
  BY <1>2, <1>3, <1>5

\* What comes behind p in the list of a, with 0 for the place before all.
Behind(m, a, p) == IF p = 0 THEN m[a].child ELSE m[p].next

\* Only names and links differ.
Rewired(m, m2) ==
  /\ DOMAIN m2 = DOMAIN m /\ m2 \in [DOMAIN m -> ItemSet(DOMAIN m)]
  /\ \A x \in DOMAIN m : m2[x].isref = m[x].isref /\ m2[x].of = m[x].of

\* n was put behind p, or first in the list of a.
Inserted(m, m2, a, p, n) ==
  /\ Rewired(m, m2)
  /\ \A x \in DOMAIN m :
       /\ m2[x].child = IF x = a /\ p = 0 THEN n ELSE m[x].child
       /\ m2[x].next = IF x = n THEN Behind(m, a, p) ELSE IF x = p THEN n ELSE m[x].next
       /\ m2[x].prev = IF x = n THEN p ELSE IF x = Behind(m, a, p) THEN n ELSE m[x].prev

\* p is 0 or in the list of a, or below it.
InsertPlace(m, a, p) ==
  /\ a \in DOMAIN m /\ ~m[a].isref
  /\ p # 0 => p \in DOMAIN m /\ m[a].child # 0 /\ p \in Deleted(m, m[a].child)

\* No reference was made of a.
Unshared(m, a) == \A r \in DOMAIN m : m[r].isref => m[r].of # a

\* An item that one can be put behind is not held: something leads to it.
LEMMA PlaceIsLed ==
  ASSUME NEW m, Typed(m), Linked(m), NEW a, NEW p, InsertPlace(m, a, p), p # 0
  PROVE  \E x \in DOMAIN m : Leads(m, x, p)
<1>1. m[a].child \in DOMAIN m /\ Leads(m, a, m[a].child) /\ a \in DOMAIN m
  BY Fields DEF InsertPlace, Leads
<1>2. CASE p = m[a].child
  BY <1>1, <1>2
<1>3. CASE p # m[a].child
  <2>1. \E x \in Deleted(m, m[a].child) : Leads(m, x, p)
    BY <1>1, <1>3, CameBy DEF InsertPlace
  <2> QED
    BY <1>1, <2>1, DeletedIs
<1> QED
  BY <1>2, <1>3

\* A held item that the container is not below can be put in its list anywhere.
LEMMA InsertSound ==
  ASSUME NEW m, NEW H, Sound(m, H), NEW a, NEW p, InsertPlace(m, a, p), Unshared(m, a),
         NEW n \in H, a \notin Deleted(m, n), NEW m2, Inserted(m, m2, a, p, n)
  PROVE  Sound(m2, H \ {n})
<1> DEFINE D == DOMAIN m
           nx == Behind(m, a, p)
<1>1. /\ Typed(m) /\ Linked(m) /\ OneOwner(m) /\ Shares(m) /\ H \subseteq D
      /\ \A h \in H : Loose(m, h)
  BY DEF Sound
<1>2. a \in D /\ ~m[a].isref /\ n \in D /\ a # n /\ 0 \notin D
  BY <1>1, DeletedIs, FiniteMemory DEF InsertPlace
<1>3. p # 0 => p \in D /\ p \notin H
  BY <1>1, PlaceIsLed, LooseEnd DEF InsertPlace
<1>4. nx # 0 => nx \in D /\ nx \notin H /\ nx # p
                /\ (IF p = 0 THEN m[nx].prev = 0 /\ Leads(m, a, nx)
                             ELSE m[nx].prev = p /\ Leads(m, p, nx))
  <2> SUFFICES ASSUME nx # 0
               PROVE  nx \in D /\ nx \notin H /\ nx # p
                      /\ (IF p = 0 THEN m[nx].prev = 0 /\ Leads(m, a, nx)
                                   ELSE m[nx].prev = p /\ Leads(m, p, nx))
    OBVIOUS
  <2>1. CASE p = 0
    <3>1. nx = m[a].child
      BY <2>1 DEF Behind
    <3>2. nx \in D /\ m[nx].prev = 0 /\ Leads(m, a, nx)
      BY <1>1, <1>2, <3>1, Fields DEF Linked, Leads
    <3> QED
      BY <1>1, <1>2, <2>1, <3>2, LooseEnd
  <2>2. CASE p # 0
    <3>1. nx = m[p].next /\ p \in D
      BY <1>3, <2>2 DEF Behind
    <3>2. nx \in D /\ m[nx].prev = p /\ Leads(m, p, nx)
      BY <1>1, <3>1, Fields DEF Linked, Leads
    <3>3. nx # p
      BY <1>1, <3>1, <3>2, NoWayBack, DeletedIs
    <3> QED
      BY <1>1, <2>2, <3>1, <3>2, <3>3, LooseEnd
  <2> QED
    BY <2>1, <2>2
<1>5. \A h \in H : m[h].next = 0 /\ m[h].prev = 0 /\ \A x \in D : ~m[x].isref => m[x].child # h
  BY <1>1 DEF Loose
<1>6. /\ DOMAIN m2 = D /\ m2 \in [D -> ItemSet(D)]
      /\ \A x \in D : m2[x].isref = m[x].isref /\ m2[x].of = m[x].of
      /\ \A x \in D : /\ m2[x].child = IF x = a /\ p = 0 THEN n ELSE m[x].child
                      /\ m2[x].next = IF x = n THEN nx ELSE IF x = p THEN n ELSE m[x].next
                      /\ m2[x].prev = IF x = n THEN p ELSE IF x = nx THEN n ELSE m[x].prev
  BY DEF Inserted, Rewired
<1>7. \A x \in D : /\ m[x].next \in D \cup {0} /\ m[x].prev \in D \cup {0}
                   /\ m[x].child \in D \cup {0}
  BY <1>1, Fields
<1> HIDE DEF nx
<1>10. Typed(m2) /\ H \ {n} \subseteq DOMAIN m2
  BY <1>1, <1>6 DEF Typed
<1>11. Linked(m2)
  <2> SUFFICES ASSUME NEW x \in D
               PROVE  /\ m2[x].next # 0 => m2[m2[x].next].prev = x
                      /\ m2[x].prev # 0 => m2[m2[x].prev].next = x
                      /\ ~m2[x].isref /\ m2[x].child # 0 => m2[m2[x].child].prev = 0
    BY <1>6 DEF Linked
  <2>1. m2[x].next # 0 => m2[m2[x].next].prev = x
    <3>1. CASE x = n
      BY <1>2, <1>4, <1>6, <3>1
    <3>2. CASE x # n /\ x = p
      BY <1>2, <1>6, <3>2
    <3>3. CASE x # n /\ x # p /\ m[x].next # 0
      <4> DEFINE y == m[x].next
      <4>1. m2[x].next = y /\ y \in D /\ m[y].prev = x
        BY <1>1, <1>6, <1>7, <3>3 DEF Linked
      <4>2. y # n /\ y # nx
        BY <1>2, <1>4, <1>5, <3>3, <4>1
      <4> QED
        BY <1>6, <4>1, <4>2
    <3>4. CASE x # n /\ x # p /\ m[x].next = 0
      BY <1>6, <3>4
    <3> QED
      BY <3>1, <3>2, <3>3, <3>4
  <2>2. m2[x].prev # 0 => m2[m2[x].prev].next = x
    <3>1. CASE x = n
      BY <1>2, <1>3, <1>6, <3>1
    <3>2. CASE x # n /\ x = nx
      BY <1>2, <1>6, <3>2
    <3>3. CASE x # n /\ x # nx /\ m[x].prev # 0
      <4> DEFINE y == m[x].prev
      <4>1. m2[x].prev = y /\ y \in D /\ m[y].next = x
        BY <1>1, <1>6, <1>7, <3>3 DEF Linked
      <4>2. y # n
        BY <1>2, <1>5, <4>1
      <4>3. y # p
        BY <1>2, <3>3, <4>1 DEF nx, Behind
      <4> QED
        BY <1>6, <4>1, <4>2, <4>3
    <3>4. CASE x # n /\ x # nx /\ m[x].prev = 0
      BY <1>6, <3>4
    <3> QED
      BY <3>1, <3>2, <3>3, <3>4
  <2>3. ~m2[x].isref /\ m2[x].child # 0 => m2[m2[x].child].prev = 0
    <3>1. CASE x = a /\ p = 0
      BY <1>2, <1>6, <3>1
    <3>2. CASE ~(x = a /\ p = 0) /\ ~m[x].isref /\ m[x].child # 0
      <4> DEFINE y == m[x].child
      <4>1. m2[x].child = y /\ y \in D /\ m[y].prev = 0
        BY <1>1, <1>6, <1>7, <3>2 DEF Linked
      <4>2. y # n
        BY <1>5, <3>2
      <4>3. y # nx
        <5>1. CASE p # 0
          BY <1>2, <1>4, <4>1, <5>1
        <5>2. CASE p = 0
          <6>1. nx = m[a].child
            BY <5>2 DEF nx, Behind
          <6> QED
            BY <1>1, <1>2, <3>2, <5>2, <6>1 DEF OneOwner
        <5> QED
          BY <5>1, <5>2
      <4> QED
        BY <1>6, <4>1, <4>2, <4>3
    <3> QED
      BY <1>6, <3>1, <3>2
  <2> QED
    BY <2>1, <2>2, <2>3
<1>12. OneOwner(m2)
  <2> SUFFICES ASSUME NEW x \in D, NEW y \in D, ~m[x].isref, ~m[y].isref,
                      m2[x].child # 0, m2[x].child = m2[y].child
               PROVE  x = y
    BY <1>6 DEF OneOwner
  <2>1. m[x].child # n /\ m[y].child # n
    BY <1>5
  <2> QED
    BY <1>1, <1>6, <2>1 DEF OneOwner
<1>13. \A h \in H \ {n} : Loose(m2, h)
  <2> SUFFICES ASSUME NEW h \in H, h # n PROVE Loose(m2, h)
    OBVIOUS
  <2>1. h \in D /\ h # p /\ h # nx /\ h # 0
    BY <1>1, <1>2, <1>3, <1>4
  <2>2. m2[h].next = 0 /\ m2[h].prev = 0
    BY <1>5, <1>6, <2>1
  <2>3. \A x \in D : ~m2[x].isref => m2[x].child # h
    BY <1>5, <1>6
  <2> QED
    BY <1>6, <2>2, <2>3 DEF Loose
<1>14. Shares(m2)
  <2> SUFFICES ASSUME NEW r \in D, m[r].isref
               PROVE  m[r].of \in D /\ m[r].of < r /\ m2[m[r].of].child = m2[r].child
    BY <1>6 DEF Shares
  <2>1. m[r].of \in D /\ m[r].of < r /\ m[m[r].of].child = m[r].child
    BY <1>1 DEF Shares
  <2>2. m[r].of # a /\ r # a
    BY <1>2 DEF Unshared
  <2> QED
    BY <1>6, <2>1, <2>2
<1>15. Spanned(m2, H \ {n})
  <2> SUFFICES ASSUME NEW S \in SUBSET D, H \ {n} \subseteq S,
                      \A x \in S : \A y : Leads(m2, x, y) => y \in S
               PROVE  S = D
    BY <1>6 DEF Spanned
  <2>1. ASSUME NEW x \in S, NEW y, Leads(m, x, y) PROVE y \in S
    <3>1. y # 0 /\ y # n
      BY <1>1, <1>2, <2>1, LooseEnd DEF Leads
    <3>2. CASE Leads(m2, x, y)
      BY <3>2
    <3>3. CASE ~Leads(m2, x, y)
      <4>1. Leads(m2, x, n) /\ y = nx
        <5>1. x # n
          BY <1>2, <1>5, <1>6, <2>1, <3>3 DEF Leads
        <5>2. CASE m[x].next = y
          <6>1. x = p
            BY <1>6, <3>1, <3>3, <5>1, <5>2 DEF Leads
          <6> QED
            BY <1>2, <1>6, <5>1, <5>2, <6>1 DEF Leads, nx, Behind
        <5>3. CASE ~m[x].isref /\ m[x].child = y
          <6>1. x = a /\ p = 0
            BY <1>6, <3>1, <3>3, <5>3 DEF Leads
          <6> QED
            BY <1>2, <1>6, <5>3, <6>1 DEF Leads, nx, Behind
        <5> QED
          BY <2>1, <5>2, <5>3 DEF Leads
      <4>2. n \in S
        BY <4>1
      <4>3. Leads(m2, n, y)
        BY <1>2, <1>6, <3>1, <4>1 DEF Leads
      <4> QED
        BY <4>2, <4>3
    <3> QED
      BY <3>2, <3>3
  <2> DEFINE K == Deleted(m, n)
             T == S \cup K
  <2>2. K \subseteq D /\ n \in K /\ \A x \in K : \A y : Leads(m, x, y) => y \in K
    BY <1>1, <1>2, DeletedIs
  <2>3. T = D
    <3>1. T \in SUBSET D /\ H \subseteq T
      BY <2>2
    <3>2. \A x \in T : \A y : Leads(m, x, y) => y \in T
      BY <2>1, <2>2
    <3> HIDE DEF T
    <3> QED
      BY <3>1, <3>2 DEF Sound, Spanned
  <2>4. a \in S
    BY <1>2, <2>3
  <2>5. n \in S
    <3>1. CASE p = 0
      BY <1>2, <1>6, <2>4, <3>1 DEF Leads
    <3>2. CASE p # 0
      <4>1. m[a].child \in D /\ m[a].child \in S
        BY <1>1, <1>2, <2>1, <2>4, <3>2, Fields DEF InsertPlace, Leads
      <4>2. Deleted(m, m[a].child) \subseteq S
        BY <1>1, <2>1, <4>1, DeletedIs
      <4>3. p \in S
        BY <3>2, <4>2 DEF InsertPlace
      <4> QED
        BY <1>2, <1>3, <1>6, <3>2, <4>3 DEF Leads
    <3> QED
      BY <3>1, <3>2
  <2>6. H \subseteq S
    BY <2>5
  <2> QED
    BY <2>1, <2>6 DEF Sound, Spanned
<1> QED
  BY <1>10, <1>11, <1>12, <1>13, <1>14, <1>15 DEF Sound

\* c was taken out of the list of a.
Detached(m, m2, a, c) ==
  /\ Rewired(m, m2)
  /\ \A x \in DOMAIN m :
       /\ m2[x].child = IF x = a /\ m[a].child = c THEN m[c].next ELSE m[x].child
       /\ m2[x].next = IF x = c THEN 0 ELSE IF x = m[c].prev THEN m[c].next ELSE m[x].next
       /\ m2[x].prev = IF x = c THEN 0 ELSE IF x = m[c].next THEN m[c].prev ELSE m[x].prev

\* c has an item before it, or is the first of a.
Listed(m, a, c) ==
  a \in DOMAIN m /\ ~m[a].isref /\ c \in DOMAIN m /\ (m[c].prev = 0 => m[a].child = c)

\* What is taken out of a list can be held.
LEMMA DetachSound ==
  ASSUME NEW m, NEW H, Sound(m, H), NEW a, NEW c, Listed(m, a, c), Unshared(m, a),
         NEW m2, Detached(m, m2, a, c)
  PROVE  Sound(m2, H \cup {c})
<1> DEFINE D == DOMAIN m
           p == m[c].prev
           nx == m[c].next
           q == IF p = 0 THEN a ELSE p
<1>1. /\ Typed(m) /\ Linked(m) /\ OneOwner(m) /\ Shares(m) /\ H \subseteq D
      /\ \A h \in H : Loose(m, h)
  BY DEF Sound
<1>2. a \in D /\ ~m[a].isref /\ c \in D /\ 0 \notin D /\ (p = 0 => m[a].child = c)
  BY <1>1, FiniteMemory DEF Listed
<1>3. \A x \in D : /\ m[x].next \in D \cup {0} /\ m[x].prev \in D \cup {0}
                   /\ m[x].child \in D \cup {0}
  BY <1>1, Fields
<1>4. (p # 0 => m[p].next = c) /\ (nx # 0 => m[nx].prev = c)
  BY <1>1, <1>2 DEF Linked
<1>5. q \in D /\ Leads(m, q, c)
  BY <1>2, <1>3, <1>4 DEF Leads
<1>6. q \notin Deleted(m, c) /\ c \in Deleted(m, c)
  BY <1>1, <1>2, <1>5, NoWayBack, DeletedIs
<1>7. p # c /\ nx # c
  <2>1. p # c
    BY <1>2, <1>6
  <2>2. nx # c
    BY <1>2, <1>4, <2>1
  <2> QED
    BY <2>1, <2>2
<1>8. \A h \in H : m[h].next = 0 /\ m[h].prev = 0 /\ \A x \in D : ~m[x].isref => m[x].child # h
  BY <1>1 DEF Loose
<1>9. /\ DOMAIN m2 = D /\ m2 \in [D -> ItemSet(D)]
      /\ \A x \in D : m2[x].isref = m[x].isref /\ m2[x].of = m[x].of
      /\ \A x \in D : /\ m2[x].child = IF x = a /\ m[a].child = c THEN nx ELSE m[x].child
                      /\ m2[x].next = IF x = c THEN 0 ELSE IF x = p THEN nx ELSE m[x].next
                      /\ m2[x].prev = IF x = c THEN 0 ELSE IF x = nx THEN p ELSE m[x].prev
  BY DEF Detached, Rewired
<1>16. \A x \in D : ~m[x].isref /\ m[x].child # 0 => m[x].child # nx
  BY <1>1, <1>2, <1>4 DEF Linked
<1>17. \A x \in D : ~m[x].isref /\ m[x].child = c => x = a /\ m[a].child = c /\ p = 0
  <2> SUFFICES ASSUME NEW x \in D, ~m[x].isref, m[x].child = c
               PROVE  x = a /\ m[a].child = c /\ p = 0
    OBVIOUS
  <2>1. p = 0
    BY <1>1, <1>2 DEF Linked
  <2> QED
    BY <1>1, <1>2, <2>1 DEF OneOwner
<1>10. Typed(m2) /\ H \cup {c} \subseteq DOMAIN m2
  BY <1>1, <1>2, <1>9 DEF Typed
<1> HIDE DEF p, nx
<1>11. Linked(m2)
  <2> SUFFICES ASSUME NEW x \in D
               PROVE  /\ m2[x].next # 0 => m2[m2[x].next].prev = x
                      /\ m2[x].prev # 0 => m2[m2[x].prev].next = x
                      /\ ~m2[x].isref /\ m2[x].child # 0 => m2[m2[x].child].prev = 0
    BY <1>9 DEF Linked
  <2>1. m2[x].next # 0 => m2[m2[x].next].prev = x
    <3>1. CASE x = c
      BY <1>9, <3>1
    <3>2. CASE x # c /\ x = p
      BY <1>3, <1>2, <1>7, <1>9, <3>2 DEF nx
    <3>3. CASE x # c /\ x # p /\ m[x].next # 0
      <4> DEFINE y == m[x].next
      <4>1. m2[x].next = y /\ y \in D /\ m[y].prev = x
        BY <1>1, <1>3, <1>9, <3>3 DEF Linked
      <4>2. y # c /\ y # nx
        BY <1>2, <1>4, <3>3, <4>1 DEF p
      <4> QED
        BY <1>9, <4>1, <4>2
    <3>4. CASE x # c /\ x # p /\ m[x].next = 0
      BY <1>9, <3>4
    <3> QED
      BY <3>1, <3>2, <3>3, <3>4
  <2>2. m2[x].prev # 0 => m2[m2[x].prev].next = x
    <3>1. CASE x = c
      BY <1>9, <3>1
    <3>2. CASE x # c /\ x = nx
      BY <1>3, <1>2, <1>7, <1>9, <3>2 DEF p
    <3>3. CASE x # c /\ x # nx /\ m[x].prev # 0
      <4> DEFINE y == m[x].prev
      <4>1. m2[x].prev = y /\ y \in D /\ m[y].next = x
        BY <1>1, <1>3, <1>9, <3>3 DEF Linked
      <4>2. y # c /\ y # p
        BY <1>2, <1>4, <3>3, <4>1 DEF nx
      <4> QED
        BY <1>9, <4>1, <4>2
    <3>4. CASE x # c /\ x # nx /\ m[x].prev = 0
      BY <1>9, <3>4
    <3> QED
      BY <3>1, <3>2, <3>3, <3>4
  <2>3. ~m2[x].isref /\ m2[x].child # 0 => m2[m2[x].child].prev = 0
    <3>1. CASE x = a /\ m[a].child = c
      <4>1. m2[x].child = nx /\ p = 0
        BY <1>2, <1>9, <1>17, <3>1
      <4> QED
        BY <1>2, <1>3, <1>7, <1>9, <4>1 DEF nx
    <3>2. CASE ~(x = a /\ m[a].child = c) /\ ~m[x].isref /\ m[x].child # 0
      <4> DEFINE y == m[x].child
      <4>1. m2[x].child = y /\ y \in D /\ m[y].prev = 0
        BY <1>1, <1>3, <1>9, <3>2 DEF Linked
      <4>2. y # c /\ y # nx
        BY <1>16, <1>17, <3>2
      <4> QED
        BY <1>9, <4>1, <4>2
    <3> QED
      BY <1>9, <3>1, <3>2
  <2> QED
    BY <2>1, <2>2, <2>3
<1>12. OneOwner(m2)
  <2> SUFFICES ASSUME NEW x \in D, NEW y \in D, ~m[x].isref, ~m[y].isref,
                      m2[x].child # 0, m2[x].child = m2[y].child
               PROVE  x = y
    BY <1>9 DEF OneOwner
  <2>1. (m[x].child # 0 => m[x].child # nx) /\ (m[y].child # 0 => m[y].child # nx)
    BY <1>16
  <2> QED
    BY <1>1, <1>9, <2>1 DEF OneOwner
<1>13. \A h \in H \cup {c} : Loose(m2, h)
  <2> SUFFICES ASSUME NEW h \in H \cup {c} PROVE Loose(m2, h)
    OBVIOUS
  <2>1. h \in D /\ h # 0
    BY <1>1, <1>2
  <2>2. CASE h = c
    <3>1. \A x \in D : ~m2[x].isref => m2[x].child # c
      BY <1>7, <1>9, <1>17
    <3> QED
      BY <1>2, <1>9, <2>2, <3>1 DEF Loose
  <2>3. CASE h # c
    <3>1. h \in H /\ h # p /\ h # nx
      BY <1>2, <1>4, <1>8, <2>1, <2>3
    <3>2. m2[h].next = 0 /\ m2[h].prev = 0
      BY <1>8, <1>9, <2>1, <2>3, <3>1
    <3>3. \A x \in D : ~m2[x].isref => m2[x].child # h
      BY <1>8, <1>9, <3>1
    <3> QED
      BY <1>9, <3>2, <3>3 DEF Loose
  <2> QED
    BY <2>2, <2>3
<1>14. Shares(m2)
  <2> SUFFICES ASSUME NEW r \in D, m[r].isref
               PROVE  m[r].of \in D /\ m[r].of < r /\ m2[m[r].of].child = m2[r].child
    BY <1>9 DEF Shares
  <2>1. m[r].of \in D /\ m[r].of < r /\ m[m[r].of].child = m[r].child
    BY <1>1 DEF Shares
  <2>2. m[r].of # a /\ r # a
    BY <1>2 DEF Unshared
  <2> QED
    BY <1>9, <2>1, <2>2
<1>15. Spanned(m2, H \cup {c})
  <2> SUFFICES ASSUME NEW S \in SUBSET D, H \cup {c} \subseteq S,
                      \A x \in S : \A y : Leads(m2, x, y) => y \in S
               PROVE  S = D
    BY <1>9 DEF Spanned
  <2>1. ASSUME NEW x \in S, NEW y, Leads(m, x, y), x # c, y # c PROVE y \in S
    <3>1. Leads(m2, x, y)
      <4>1. CASE m[x].next = y
        <5>1. x # p
          BY <1>2, <1>4, <2>1, <4>1
        <5> QED
          BY <1>9, <2>1, <4>1, <5>1 DEF Leads
      <4>2. CASE ~m[x].isref /\ m[x].child = y
        BY <1>9, <2>1, <4>2 DEF Leads
      <4> QED
        BY <2>1, <4>1, <4>2 DEF Leads
    <3> QED
      BY <3>1
  <2> DEFINE K == Deleted(m, c)
             T == S \cup K
  <2>2. K \subseteq D /\ c \in K /\ \A x \in K : \A y : Leads(m, x, y) => y \in K
    BY <1>1, <1>2, DeletedIs
  <2>3. T = D
    <3>1. T \in SUBSET D /\ H \subseteq T
      BY <2>2
    <3>2. \A x \in T : \A y : Leads(m, x, y) => y \in T
      BY <2>1, <2>2
    <3> HIDE DEF T
    <3> QED
      BY <3>1, <3>2 DEF Sound, Spanned
  <2>4. q \in S
    BY <1>5, <1>6, <2>3
  <2>5. nx # 0 => Leads(m2, q, nx)
    <3>1. CASE p = 0
      BY <1>2, <1>9, <3>1 DEF Leads
    <3>2. CASE p # 0
      BY <1>5, <1>7, <1>9, <3>2 DEF Leads
    <3> QED
      BY <3>1, <3>2
  <2>6. ASSUME NEW x \in S, NEW y, Leads(m, x, y) PROVE y \in S
    <3>1. CASE y = c
      BY <3>1
    <3>2. CASE x = c /\ y # c
      <4>1. CASE y = nx
        BY <2>4, <2>5, <2>6, <4>1 DEF Leads
      <4>2. CASE y # nx
        <5>1. ~m[c].isref /\ m[c].child = y /\ y # 0
          BY <2>6, <3>2, <4>2 DEF Leads, nx
        <5> QED
          BY <1>2, <1>9, <2>6, <3>2, <5>1 DEF Leads
      <4> QED
        BY <4>1, <4>2
    <3>3. CASE x # c /\ y # c
      BY <2>1, <2>6, <3>3
    <3> QED
      BY <3>1, <3>2, <3>3
  <2> QED
    BY <2>6 DEF Sound, Spanned
<1> QED
  BY <1>10, <1>11, <1>12, <1>13, <1>14, <1>15 DEF Sound

\* A held item can be freed with all it leads to, when no reference was made of any
\* of it.
LEMMA DeleteSound ==
  ASSUME NEW m, NEW H, Sound(m, H), NEW c \in H,
         \A r \in DOMAIN m : m[r].isref => m[r].of \notin Deleted(m, c)
  PROVE  Sound(Delete(m, c), H \ {c}) /\ DOMAIN Delete(m, c) = DOMAIN m \ Deleted(m, c)
<1> DEFINE D == DOMAIN m
           K == Deleted(m, c)
           m2 == Delete(m, c)
<1>1. /\ Typed(m) /\ Linked(m) /\ OneOwner(m) /\ Shares(m) /\ H \subseteq D
      /\ \A h \in H : Loose(m, h)
  BY DEF Sound
<1>2. 0 \notin D /\ c \in D
  BY <1>1, FiniteMemory
<1>3. K \subseteq D /\ c \in K /\ \A x \in K : \A y : Leads(m, x, y) => y \in K
  BY <1>1, <1>2, DeletedIs
<1>4. DOMAIN m2 = D \ K /\ \A x \in D \ K : m2[x] = m[x]
  BY DEF Delete
<1>5. ASSUME NEW x \in D \ K, NEW y, Leads(m, x, y) PROVE y \in D \ K
  <2>1. y \in D
    BY <1>1, <1>5, Fields
  <2>2. y # c
    BY <1>1, <1>2, <1>5, LooseEnd
  <2>3. CASE y \in K
    <3>1. PICK z \in K : Leads(m, z, y)
      BY <1>1, <1>2, <2>2, <2>3, CameBy
    <3>2. z = x
      BY <1>1, <1>3, <1>5, <3>1, OneLink
    <3> QED
      BY <3>2
  <2> QED
    BY <2>1, <2>3
<1>6. H \ {c} \subseteq D \ K
  <2> SUFFICES ASSUME NEW h \in H, h # c, h \in K PROVE FALSE
    BY <1>1
  <2>1. PICK z \in K : Leads(m, z, h)
    BY <1>1, <1>2, CameBy
  <2> QED
    BY <1>1, <1>3, <2>1, LooseEnd
<1>7. ASSUME NEW x \in D \ K
      PROVE  /\ m[x].next \in (D \ K) \cup {0} /\ m[x].prev \in (D \ K) \cup {0}
             /\ m[x].child \in (D \ K) \cup {0}
  <2>1. /\ m[x].next \in D \cup {0} /\ m[x].prev \in D \cup {0} /\ m[x].child \in D \cup {0}
        /\ m[x].isref \in BOOLEAN
    BY <1>1, Fields
  <2>2. m[x].next # 0 => m[x].next \notin K
    BY <1>5 DEF Leads
  <2>3. m[x].prev # 0 => m[x].prev \notin K
    <3> SUFFICES ASSUME m[x].prev # 0, m[x].prev \in K PROVE FALSE
      OBVIOUS
    <3>1. m[m[x].prev].next = x
      BY <1>1 DEF Linked
    <3> QED
      BY <1>2, <1>3, <3>1 DEF Leads
  <2>4. m[x].child # 0 => m[x].child \notin K
    <3>1. CASE ~m[x].isref
      BY <1>5, <3>1 DEF Leads
    <3>2. CASE m[x].isref /\ m[x].child # 0
      <4>1. PICK o \in D : /\ ~m[o].isref /\ m[o].child = m[x].child
                           /\ \E q \in D : m[q].isref /\ m[q].of = o
        BY <1>1, <3>2, Original
      <4>2. o \in D \ K /\ Leads(m, o, m[x].child)
        BY <3>2, <4>1 DEF Leads
      <4> QED
        BY <1>5, <4>2
    <3> QED
      BY <2>1, <3>1, <3>2
  <2> QED
    BY <2>1, <2>2, <2>3, <2>4
<1>8. m2 \in [D \ K -> ItemSet(D \ K)]
  <2>1. ASSUME NEW x \in D \ K PROVE m[x] \in ItemSet(D \ K)
    <3>1. m[x] \in ItemSet(D)
      BY <1>1 DEF Typed
    <3> QED
      BY <1>7, <3>1 DEF ItemSet
  <2> QED
    BY <2>1 DEF Delete
<1> HIDE DEF m2
<1>9. \A x, y : x \in D \ K => (Leads(m2, x, y) <=> Leads(m, x, y))
  BY <1>4 DEF Leads
<1>10. Typed(m2) /\ H \ {c} \subseteq DOMAIN m2
  BY <1>1, <1>4, <1>6, <1>8 DEF Typed
<1>11. Linked(m2)
  <2> SUFFICES ASSUME NEW x \in D \ K
               PROVE  /\ m2[x].next # 0 => m2[m2[x].next].prev = x
                      /\ m2[x].prev # 0 => m2[m2[x].prev].next = x
                      /\ ~m2[x].isref /\ m2[x].child # 0 => m2[m2[x].child].prev = 0
    BY <1>4 DEF Linked
  <2>1. /\ m[x].next # 0 => m[m[x].next].prev = x
        /\ m[x].prev # 0 => m[m[x].prev].next = x
        /\ ~m[x].isref /\ m[x].child # 0 => m[m[x].child].prev = 0
    BY <1>1 DEF Linked
  <2>2. /\ m[x].next # 0 => m[x].next \in D \ K
        /\ m[x].prev # 0 => m[x].prev \in D \ K
        /\ m[x].child # 0 => m[x].child \in D \ K
    BY <1>7
  <2> QED
    BY <1>4, <2>1, <2>2
<1>12. OneOwner(m2)
  BY <1>1, <1>4 DEF OneOwner
<1>13. \A h \in H \ {c} : Loose(m2, h)
  BY <1>1, <1>4, <1>6 DEF Loose
<1>14. Shares(m2)
  <2> SUFFICES ASSUME NEW r \in D \ K, m[r].isref
               PROVE  m[r].of \in D \ K /\ m[r].of < r /\ m[m[r].of].child = m[r].child
    BY <1>4 DEF Shares
  <2> QED
    BY <1>1 DEF Shares
<1>15. Spanned(m2, H \ {c})
  <2> SUFFICES ASSUME NEW S \in SUBSET (D \ K), H \ {c} \subseteq S,
                      \A x \in S : \A y : Leads(m2, x, y) => y \in S
               PROVE  S = D \ K
    BY <1>4 DEF Spanned
  <2> DEFINE T == S \cup K
  <2>1. T \in SUBSET D /\ H \subseteq T
    BY <1>3
  <2>2. \A x \in T : \A y : Leads(m, x, y) => y \in T
    BY <1>3, <1>9
  <2>3. T = D
    <3> HIDE DEF T
    <3> QED
      BY <2>1, <2>2 DEF Sound, Spanned
  <2> QED
    BY <2>3
<1> QED
  BY <1>4, <1>10, <1>11, <1>12, <1>13, <1>14, <1>15 DEF Sound, m2

\* A new item can be held, with nothing of its own below it.
LEMMA NewSound ==
  ASSUME NEW m, NEW H, Sound(m, H), NEW k \in Id \ DOMAIN m,
         NEW new \in ItemSet(DOMAIN m), new.next = 0, new.prev = 0,
         IF new.isref THEN new.of \in DOMAIN m /\ new.of < k /\ m[new.of].child = new.child
                      ELSE new.child = 0,
         NEW m2, m2 = [x \in DOMAIN m \cup {k} |-> IF x = k THEN new ELSE m[x]]
  PROVE  Sound(m2, H \cup {k})
<1> DEFINE D == DOMAIN m
<1>1. /\ Typed(m) /\ Linked(m) /\ OneOwner(m) /\ Shares(m) /\ H \subseteq D
      /\ \A h \in H : Loose(m, h)
  BY DEF Sound
<1>2. 0 \notin D /\ k # 0 /\ k \notin D /\ \A x \in D : x # k
  BY <1>1, FiniteMemory DEF Id
<1>3. /\ DOMAIN m2 = D \cup {k} /\ m2[k] = new
      /\ \A x \in D : m2[x] = m[x]
  BY <1>2
<1>4. \A x \in D : /\ m[x].next \in D \cup {0} /\ m[x].prev \in D \cup {0}
                   /\ m[x].child \in D \cup {0}
  BY <1>1, Fields
<1>5. new.child \in D \cup {0} /\ new.isref \in BOOLEAN
  BY DEF ItemSet
<1>6. m2 \in [D \cup {k} -> ItemSet(D \cup {k})]
  <2>1. ItemSet(D) \subseteq ItemSet(D \cup {k})
    BY DEF ItemSet
  <2>2. \A x \in D : m[x] \in ItemSet(D)
    BY <1>1 DEF Typed
  <2> QED
    BY <2>1, <2>2
<1>10. Typed(m2) /\ H \cup {k} \subseteq DOMAIN m2
  BY <1>1, <1>3, <1>6 DEF Typed
<1>11. Linked(m2)
  <2> SUFFICES ASSUME NEW x \in D \cup {k}
               PROVE  /\ m2[x].next # 0 => m2[m2[x].next].prev = x
                      /\ m2[x].prev # 0 => m2[m2[x].prev].next = x
                      /\ ~m2[x].isref /\ m2[x].child # 0 => m2[m2[x].child].prev = 0
    BY <1>3 DEF Linked
  <2>1. CASE x = k
    BY <1>3, <2>1
  <2>2. CASE x \in D
    <3>1. /\ m[x].next # 0 => m[m[x].next].prev = x
          /\ m[x].prev # 0 => m[m[x].prev].next = x
          /\ ~m[x].isref /\ m[x].child # 0 => m[m[x].child].prev = 0
      BY <1>1, <2>2 DEF Linked
    <3> QED
      BY <1>3, <1>4, <2>2, <3>1
  <2> QED
    BY <2>1, <2>2
<1>12. OneOwner(m2)
  <2> SUFFICES ASSUME NEW x \in D \cup {k}, NEW y \in D \cup {k}, ~m2[x].isref, ~m2[y].isref,
                      m2[x].child # 0, m2[x].child = m2[y].child
               PROVE  x = y
    BY <1>3 DEF OneOwner
  <2>1. x # k /\ y # k
    BY <1>3
  <2> QED
    BY <1>1, <1>3, <2>1 DEF OneOwner
<1>13. \A h \in H \cup {k} : Loose(m2, h)
  <2>1. ASSUME NEW h \in H PROVE Loose(m2, h)
    <3>1. h \in D /\ Loose(m, h) /\ h # 0
      BY <1>1, <1>2
    <3>2. ~new.isref => new.child # h
      BY <3>1
    <3> QED
      BY <1>3, <3>1, <3>2 DEF Loose
  <2>2. Loose(m2, k)
    <3>1. \A x \in D : m[x].child # k
      BY <1>2, <1>4
    <3>2. new.child # k
      BY <1>2, <1>5
    <3> QED
      BY <1>3, <3>1, <3>2 DEF Loose
  <2> QED
    BY <2>1, <2>2
<1>14. Shares(m2)
  <2> SUFFICES ASSUME NEW r \in D \cup {k}, m2[r].isref
               PROVE  /\ m2[r].of \in D \cup {k} /\ m2[r].of < r
                      /\ m2[m2[r].of].child = m2[r].child
    BY <1>3 DEF Shares
  <2>1. CASE r = k
    BY <1>3, <2>1
  <2>2. CASE r \in D
    <3>1. m[r].of \in D /\ m[r].of < r /\ m[m[r].of].child = m[r].child
      BY <1>1, <1>3, <2>2 DEF Shares
    <3> QED
      BY <1>3, <2>2, <3>1
  <2> QED
    BY <2>1, <2>2
<1>15. Spanned(m2, H \cup {k})
  <2> SUFFICES ASSUME NEW S \in SUBSET (D \cup {k}), H \cup {k} \subseteq S,
                      \A x \in S : \A y : Leads(m2, x, y) => y \in S
               PROVE  S = D \cup {k}
    BY <1>3 DEF Spanned
  <2> DEFINE T == S \ {k}
  <2>1. T \in SUBSET D /\ H \subseteq T
    BY <1>1, <1>2
  <2>2. ASSUME NEW x \in T, NEW y, Leads(m, x, y) PROVE y \in T
    <3>1. Leads(m2, x, y) /\ y \in D
      BY <1>1, <1>3, <2>1, <2>2, Fields DEF Leads
    <3> QED
      BY <1>2, <3>1
  <2>3. T = D
    <3> HIDE DEF T
    <3> QED
      BY <2>1, <2>2 DEF Sound, Spanned
  <2> QED
    BY <2>3
<1> QED
  BY <1>10, <1>11, <1>12, <1>13, <1>14, <1>15 DEF Sound

\* A new item that is no reference can be held: cJSON_New_Item.
LEMMA NewItemSound ==
  ASSUME NEW m, NEW H, Sound(m, H), NEW k \in Id \ DOMAIN m,
         NEW type \in Types \cup {"array", "leaf"},
         NEW m2, m2 = [x \in DOMAIN m \cup {k} |-> IF x = k THEN NewItem(type) ELSE m[x]]
  PROVE  Sound(m2, H \cup {k})
<1> DEFINE new == NewItem(type)
<1>1. new \in ItemSet(DOMAIN m)
  BY DEF NewItem, ItemSet
<1>2. new.next = 0 /\ new.prev = 0 /\ ~new.isref /\ new.child = 0
  BY DEF NewItem
<1>3. m2 = [x \in DOMAIN m \cup {k} |-> IF x = k THEN new ELSE m[x]]
  OBVIOUS
<1> HIDE DEF new
<1>4. IF new.isref THEN new.of \in DOMAIN m /\ new.of < k /\ m[new.of].child = new.child
                   ELSE new.child = 0
  BY <1>2
<1> QED
  BY <1>1, <1>2, <1>3, <1>4, NewSound

\* Only names differ.
Renamed(m, m2) ==
  /\ Rewired(m, m2)
  /\ \A x \in DOMAIN m :
       m2[x].next = m[x].next /\ m2[x].prev = m[x].prev /\ m2[x].child = m[x].child

\* What is freed depends only on the links of what is freed.
LEMMA SameDeleted ==
  ASSUME NEW m, Typed(m), NEW m2, Typed(m2), DOMAIN m2 = DOMAIN m, NEW c \in DOMAIN m,
         \A x \in Deleted(m, c) : \A y : Leads(m2, x, y) <=> Leads(m, x, y)
  PROVE  Deleted(m2, c) = Deleted(m, c)
<1> DEFINE K == Deleted(m, c)
           L == Deleted(m2, c)
<1>1. K \subseteq DOMAIN m /\ c \in K /\ \A x \in K : \A y : Leads(m, x, y) => y \in K
  BY DeletedIs
<1>2. L \subseteq DOMAIN m /\ c \in L /\ \A x \in L : \A y : Leads(m2, x, y) => y \in L
  BY DeletedIs
<1>3. L \subseteq K
  BY <1>1, DeletedIs
<1>4. K \subseteq L
  <2> DEFINE S == L \cap K
  <2>1. c \in S /\ \A x \in S \cap DOMAIN m : \A y : Leads(m, x, y) => y \in S
    BY <1>1, <1>2
  <2> HIDE DEF S
  <2>2. K \subseteq S
    BY <2>1, DeletedIs
  <2> QED
    BY <2>2 DEF S
<1> QED
  BY <1>3, <1>4

\* Names are not part of what makes a memory sound.
LEMMA RenameSound ==
  ASSUME NEW m, NEW H, Sound(m, H), NEW m2, Renamed(m, m2)
  PROVE  /\ Sound(m2, H)
         /\ \A x, y : x \in DOMAIN m => (Leads(m2, x, y) <=> Leads(m, x, y))
         /\ \A c \in DOMAIN m : Deleted(m2, c) = Deleted(m, c)
<1> DEFINE D == DOMAIN m
<1>1. /\ Typed(m) /\ Linked(m) /\ OneOwner(m) /\ Shares(m) /\ H \subseteq D
      /\ \A h \in H : Loose(m, h)
  BY DEF Sound
<1>2. DOMAIN m2 = D /\ m2 \in [D -> ItemSet(D)]
      /\ \A x \in D : /\ m2[x].next = m[x].next /\ m2[x].prev = m[x].prev
                      /\ m2[x].child = m[x].child
                      /\ m2[x].isref = m[x].isref /\ m2[x].of = m[x].of
  BY DEF Renamed, Rewired
<1>3. \A x \in D : /\ m[x].next \in D \cup {0} /\ m[x].prev \in D \cup {0}
                   /\ m[x].child \in D \cup {0}
  BY <1>1, Fields
<1>4. \A x, y : x \in D => (Leads(m2, x, y) <=> Leads(m, x, y))
  BY <1>2 DEF Leads
<1>5. Typed(m2)
  BY <1>1, <1>2 DEF Typed
<1>6. \A c \in D : Deleted(m2, c) = Deleted(m, c)
  <2> SUFFICES ASSUME NEW c \in D PROVE Deleted(m2, c) = Deleted(m, c)
    OBVIOUS
  <2>1. Deleted(m, c) \subseteq D
    BY <1>1, DeletedIs
  <2> QED
    BY <1>1, <1>2, <1>4, <1>5, <2>1, SameDeleted
<1>7. Linked(m2)
  BY <1>1, <1>2, <1>3 DEF Linked
<1>8. OneOwner(m2)
  BY <1>1, <1>2 DEF OneOwner
<1>9. \A h \in H : Loose(m2, h)
  BY <1>1, <1>2 DEF Loose
<1>10. Shares(m2)
  BY <1>1, <1>2 DEF Shares
<1>11. Spanned(m2, H)
  <2> SUFFICES ASSUME NEW S \in SUBSET D, H \subseteq S,
                      \A x \in S : \A y : Leads(m2, x, y) => y \in S
               PROVE  S = D
    BY <1>2 DEF Spanned
  <2>1. \A x \in S : \A y : Leads(m, x, y) => y \in S
    BY <1>4
  <2> QED
    BY <2>1 DEF Sound, Spanned
<1> QED
  BY <1>1, <1>2, <1>4, <1>5, <1>6, <1>7, <1>8, <1>9, <1>10, <1>11 DEF Sound

-----------------------------------------------------------------------------
(* Lists. *)

\* A walk starts at its item and goes on by next.
LEMMA WalkIs ==
  ASSUME NEW m, Typed(m), NEW c \in DOMAIN m \cup {0}, NEW at, at = Walk(m, c)
  PROVE  /\ at \in [Nat -> DOMAIN m \cup {0}]
         /\ at[0] = c /\ \A k \in Nat : at[k + 1] = After(m, at[k])
<1> DEFINE S == DOMAIN m \cup {0}
           step == [x \in S |-> After(m, x)]
<1>1. \A x \in S : After(m, x) \in S
  BY Fields DEF After
<1>2. c \in S /\ step \in [S -> S]
  BY <1>1
<1>3. PICK f \in [Nat -> S] : f = [k \in Nat |-> IF k = 0 THEN c ELSE step[f[k - 1]]]
  <2> HIDE DEF step, S
  <2> QED
    BY <1>2, Iterated
<1>4. f = [k \in Nat |-> IF k = 0 THEN c ELSE After(m, f[k - 1])]
  <2>1. ASSUME NEW k \in Nat, k # 0 PROVE step[f[k - 1]] = After(m, f[k - 1])
    BY <2>1
  <2> HIDE DEF step
  <2> QED
    BY <1>3, <2>1
<1>5. at = [k \in Nat |-> IF k = 0 THEN c ELSE After(m, at[k - 1])]
  BY <1>4 DEF Walk
<1>6. at[0] = c
  BY <1>5
<1>7. \A k \in Nat : at[k + 1] = After(m, at[k])
  <2> SUFFICES ASSUME NEW k \in Nat PROVE at[k + 1] = After(m, at[k])
    OBVIOUS
  <2>1. k + 1 \in Nat /\ k + 1 # 0 /\ (k + 1) - 1 = k
    OBVIOUS
  <2> QED
    BY <1>5, <2>1
<1>8. \A k \in Nat : at[k] \in S
  <2> DEFINE G == {k \in Nat : at[k] \in S}
  <2>1. 0 \in G
    BY <1>6
  <2>2. ASSUME NEW k \in G PROVE k + 1 \in G
    BY <1>1, <1>7
  <2> HIDE DEF G
  <2>3. G \subseteq Nat
    BY DEF G
  <2>4. G = Nat
    BY <2>1, <2>2, <2>3, Induction
  <2> QED
    BY <2>4 DEF G
<1> QED
  BY <1>5, <1>6, <1>7, <1>8

\* A walk from the first of a list ends: the items it comes by differ, for each has one
\* before it, and there are only so many.
LEMMA WalkEnds ==
  ASSUME NEW m, Typed(m), Linked(m), NEW c \in DOMAIN m, m[c].prev = 0,
         NEW at \in [Nat -> DOMAIN m \cup {0}], at[0] = c,
         \A k \in Nat : at[k + 1] = After(m, at[k])
  PROVE  \E n \in 1 .. MaxItems : \A k \in Nat : at[k] # 0 <=> k < n
<1> DEFINE D == DOMAIN m
           size == Cardinality(D)
<1>1. at \in [Nat -> D \cup {0}] /\ at[0] = c /\ \A k \in Nat : at[k + 1] = After(m, at[k])
  OBVIOUS
<1>2. IsFiniteSet(D) /\ size \in Nat /\ size <= MaxItems /\ 0 \notin D
  BY FiniteMemory
<1>3. \A k \in Nat : at[k + 1] # 0 => at[k] \in D /\ m[at[k + 1]].prev = at[k]
  BY <1>1 DEF After, Linked
<1>4. \A k \in Nat : at[k] = 0 => at[k + 1] = 0
  BY <1>1 DEF After
<1>5. \A i, j \in Nat : i < j /\ at[i] = at[j] => at[i] = 0
  <2> DEFINE G == {i \in Nat : \A j \in Nat : i < j /\ at[i] = at[j] => at[i] = 0}
  <2>1. 0 \in G
    <3> SUFFICES ASSUME NEW j \in Nat, 0 < j, at[0] = at[j] PROVE FALSE
      OBVIOUS
    <3>1. j - 1 \in Nat /\ (j - 1) + 1 = j
      OBVIOUS
    <3>2. at[j - 1] \in D /\ m[at[j]].prev = at[j - 1]
      BY <1>1, <1>2, <1>3, <3>1
    <3> QED
      BY <1>1, <1>2, <3>2
  <2>2. ASSUME NEW i \in G PROVE i + 1 \in G
    <3> SUFFICES ASSUME NEW j \in Nat, i + 1 < j, at[i + 1] = at[j], at[i + 1] # 0 PROVE FALSE
      OBVIOUS
    <3>1. i \in Nat /\ j - 1 \in Nat /\ (j - 1) + 1 = j /\ i < j - 1
      OBVIOUS
    <3>2. m[at[i + 1]].prev = at[i] /\ at[i] \in D
      BY <1>3, <3>1
    <3>3. m[at[j]].prev = at[j - 1]
      BY <1>3, <3>1
    <3>4. at[i] = 0
      BY <3>1, <3>2, <3>3
    <3> QED
      BY <1>2, <3>2, <3>4
  <2> HIDE DEF G
  <2>3. G \subseteq Nat
    BY DEF G
  <2>4. G = Nat
    BY <2>1, <2>2, <2>3, Induction
  <2> QED
    BY <2>4 DEF G
<1>6. \E k \in 0 .. size : at[k] = 0
  <2> SUFFICES ASSUME \A k \in 0 .. size : at[k] # 0 PROVE FALSE
    OBVIOUS
  <2> DEFINE all == 0 .. size
             f == [k \in all |-> at[k]]
  <2>1. f \in [all -> D]
    BY <1>1, <1>2
  <2>2. IsFiniteSet(all) /\ Cardinality(all) = size + 1
    BY <1>2, FS_Interval
  <2>3. size < Cardinality(all)
    BY <1>2, <2>2
  <2> HIDE DEF f, all
  <2>4. \E x, y \in all : x # y /\ f[x] = f[y]
    BY <1>2, <2>1, <2>2, <2>3, FS_PigeonHole
  <2>5. PICK x \in all, y \in all : x # y /\ at[x] = at[y]
    BY <2>4 DEF f
  <2>6. x \in Nat /\ y \in Nat /\ at[x] # 0 /\ (x < y \/ y < x)
    BY <1>2, <2>5 DEF all
  <2> QED
    BY <1>5, <2>5, <2>6
<1> DEFINE Ends == {k \in Nat : at[k] = 0}
<1>7. PICK n \in Ends : \A k \in Ends : n <= k
  <2>1. Ends \subseteq Nat /\ Ends # {}
    BY <1>2, <1>6
  <2> HIDE DEF Ends
  <2> QED
    BY <2>1, LeastElement
<1>8. n \in 1 .. MaxItems
  <2>1. PICK k \in 0 .. size : at[k] = 0
    BY <1>6
  <2>2. k \in Ends /\ k <= size
    BY <1>2, <2>1
  <2>3. n \in Nat /\ n <= k /\ n # 0
    BY <1>1, <1>2, <1>7, <2>2
  <2> QED
    BY <1>2, <2>2, <2>3, ItemsAssumption
<1>9. \A k \in Nat : k < n => at[k] # 0
  BY <1>7
<1>10. \A k \in Nat : at[n + k] = 0
  <2> DEFINE G == {k \in Nat : at[n + k] = 0}
  <2>1. 0 \in G
    BY <1>7
  <2>2. ASSUME NEW k \in G PROVE k + 1 \in G
    <3>1. n + k \in Nat /\ n + (k + 1) = (n + k) + 1
      OBVIOUS
    <3> QED
      BY <1>4, <3>1
  <2> HIDE DEF G
  <2>3. G \subseteq Nat
    BY DEF G
  <2>4. G = Nat
    BY <2>1, <2>2, <2>3, Induction
  <2> QED
    BY <2>4 DEF G
<1>11. ASSUME NEW k \in Nat PROVE at[k] # 0 <=> k < n
  <2>1. CASE k < n
    BY <1>9, <2>1
  <2>2. CASE ~(k < n)
    <3>1. k - n \in Nat /\ n + (k - n) = k
      BY <1>8, <2>2
    <3>2. at[n + (k - n)] = 0
      BY <1>10, <3>1
    <3> QED
      BY <2>2, <3>1, <3>2
  <2> QED
    BY <2>1, <2>2
<1> QED
  BY <1>8, <1>11

\* The list of an item: it starts with the child, goes on by next, and ends with an
\* item that has nothing behind it; all in it can be reached from the child.
LEMMA ListIs ==
  ASSUME NEW m, NEW H, Sound(m, H), NEW a \in DOMAIN m, ~m[a].isref
  PROVE  \E n \in Nat :
           /\ List(m, a) \in [1 .. n -> DOMAIN m]
           /\ n = 0 <=> m[a].child = 0
           /\ n # 0 => List(m, a)[1] = m[a].child /\ m[List(m, a)[n]].next = 0
           /\ \A i \in 1 .. n - 1 : m[List(m, a)[i]].next = List(m, a)[i + 1]
           /\ \A i \in 1 .. n : Listed(m, a, List(m, a)[i])
           /\ \A i \in 1 .. n : List(m, a)[i] \in Deleted(m, m[a].child)
<1> DEFINE D == DOMAIN m
           c == m[a].child
           at == Walk(m, c)
           s == List(m, a)
           places == {k \in Id : at[k - 1] # 0}
<1>1. Typed(m) /\ Linked(m)
  BY DEF Sound
<1>2. c \in D \cup {0} /\ 0 \notin D
  BY <1>1, Fields, FiniteMemory
<1>3. at \in [Nat -> D \cup {0}] /\ at[0] = c /\ \A k \in Nat : at[k + 1] = After(m, at[k])
  <2> HIDE DEF at, c
  <2>1. at = Walk(m, c)
    BY DEF at
  <2> QED
    BY <1>1, <1>2, <2>1, WalkIs
<1>4. s = [k \in places |-> at[k - 1]]
  BY DEF List
<1>5. PICK n \in 0 .. MaxItems : (n = 0 <=> c = 0) /\ \A k \in Nat : at[k] # 0 <=> k < n
  <2>1. CASE c = 0
    <3> DEFINE G == {k \in Nat : at[k] = 0}
    <3>1. 0 \in G /\ \A k \in G : k + 1 \in G
      BY <1>3, <2>1 DEF After
    <3> HIDE DEF G
    <3>2. G \subseteq Nat
      BY DEF G
    <3>3. G = Nat
      BY <3>1, <3>2, Induction
    <3>4. \A k \in Nat : at[k] = 0
      BY <3>3 DEF G
    <3> HIDE DEF at, c
    <3>5. 0 \in 0 .. MaxItems /\ \A k \in Nat : at[k] # 0 <=> k < 0
      BY <3>4, ItemsAssumption
    <3> QED
      BY <2>1, <3>5
  <2>2. CASE c # 0
    <3>1. c \in D /\ m[c].prev = 0
      BY <1>1, <1>2, <2>2 DEF Linked
    <3> HIDE DEF at, c
    <3>2. PICK n \in 1 .. MaxItems : \A k \in Nat : at[k] # 0 <=> k < n
      BY <1>1, <1>3, <3>1, WalkEnds
    <3>3. n \in 0 .. MaxItems /\ n # 0
      BY ItemsAssumption
    <3> QED
      BY <2>2, <3>2, <3>3
  <2> QED
    BY <2>1, <2>2
<1> HIDE DEF at, c
<1>6. n \in Nat
  BY ItemsAssumption
<1>7. places = 1 .. n
  <2>1. \A k \in Id : k \in Int /\ k - 1 \in Nat
    BY ItemsAssumption DEF Id
  <2>2. \A k \in 1 .. n : k \in Id
    BY ItemsAssumption DEF Id
  <2>3. \A k \in Int : k - 1 < n <=> k <= n
    BY <1>6
  <2>4. \A k \in Id : k \in 1 .. n <=> k <= n
    BY <1>6, ItemsAssumption DEF Id
  <2>5. \A k \in Id : at[k - 1] # 0 <=> k \in 1 .. n
    BY <1>5, <2>1, <2>3, <2>4
  <2> QED
    BY <2>2, <2>5
<1>8. s = [k \in 1 .. n |-> at[k - 1]]
  BY <1>4, <1>7
<1> HIDE DEF s, places
<1>9. \A k \in 1 .. n : k - 1 \in Nat /\ k - 1 < n /\ s[k] = at[k - 1] /\ s[k] \in D
  <2> SUFFICES ASSUME NEW k \in 1 .. n
               PROVE  k - 1 \in Nat /\ k - 1 < n /\ s[k] = at[k - 1] /\ s[k] \in D
    OBVIOUS
  <2>1. k - 1 \in Nat /\ k - 1 < n
    BY <1>6
  <2> QED
    BY <1>3, <1>5, <1>8, <2>1
<1>10. s \in [1 .. n -> D]
  BY <1>8, <1>9
<1>11. \A k \in 1 .. n - 1 : m[s[k]].next = s[k + 1]
  <2> SUFFICES ASSUME NEW k \in 1 .. n - 1 PROVE m[s[k]].next = s[k + 1]
    OBVIOUS
  <2>1. k \in 1 .. n /\ k + 1 \in 1 .. n /\ (k + 1) - 1 = (k - 1) + 1 /\ k - 1 \in Nat
    BY <1>6
  <2>2. s[k + 1] = at[(k - 1) + 1] /\ s[k] = at[k - 1]
    BY <1>9, <2>1
  <2>3. at[(k - 1) + 1] = After(m, at[k - 1]) /\ at[k - 1] # 0
    BY <1>2, <1>3, <1>9, <2>1, <2>2
  <2> QED
    BY <2>2, <2>3 DEF After
<1>12. n # 0 => s[1] = c /\ m[s[n]].next = 0
  <2> SUFFICES ASSUME n # 0 PROVE s[1] = c /\ m[s[n]].next = 0
    OBVIOUS
  <2>1. 1 \in 1 .. n /\ n \in 1 .. n /\ 1 - 1 = 0 /\ n - 1 \in Nat /\ (n - 1) + 1 = n
    BY <1>6
  <2>2. s[1] = c
    <3>1. s[1] = at[1 - 1]
      BY <1>9, <2>1
    <3> QED
      BY <1>3, <3>1
  <2>3. s[n] = at[n - 1] /\ at[n - 1] # 0
    BY <1>2, <1>9, <2>1
  <2>4. at[n] = After(m, at[n - 1])
    BY <1>3, <2>1
  <2>5. at[n] = 0
    BY <1>5, <1>6
  <2> QED
    BY <2>2, <2>3, <2>4, <2>5 DEF After
<1>13. \A k \in Nat : k < n => at[k] \in Deleted(m, c) /\ (m[at[k]].prev = 0 => at[k] = c)
  <2> SUFFICES ASSUME n # 0
               PROVE  \A k \in Nat : k < n => at[k] \in Deleted(m, c)
                                              /\ (m[at[k]].prev = 0 => at[k] = c)
    BY <1>6
  <2>1. c \in D
    BY <1>2, <1>5
  <2>2. /\ c \in Deleted(m, c) /\ Deleted(m, c) \subseteq D
        /\ \A x \in Deleted(m, c) : \A y : Leads(m, x, y) => y \in Deleted(m, c)
    BY <1>1, <2>1, DeletedIs
  <2> DEFINE G == {k \in Nat : k < n => at[k] \in Deleted(m, c)
                                        /\ (m[at[k]].prev = 0 => at[k] = c)}
  <2>3. 0 \in G
    BY <1>3, <2>2
  <2>4. ASSUME NEW k \in G PROVE k + 1 \in G
    <3> SUFFICES ASSUME k + 1 < n
                 PROVE  at[k + 1] \in Deleted(m, c) /\ (m[at[k + 1]].prev = 0 => at[k + 1] = c)
      OBVIOUS
    <3>1. k \in Nat /\ k < n /\ k + 1 \in Nat
      BY <1>6
    <3>2. at[k + 1] # 0 /\ at[k] # 0 /\ at[k + 1] = m[at[k]].next /\ at[k] \in D
      BY <1>3, <1>5, <3>1 DEF After
    <3>3. m[at[k + 1]].prev = at[k]
      BY <1>1, <3>2 DEF Linked
    <3>4. Leads(m, at[k], at[k + 1])
      BY <3>2 DEF Leads
    <3> QED
      BY <2>2, <3>1, <3>2, <3>3, <3>4
  <2> HIDE DEF G
  <2>5. G \subseteq Nat
    BY DEF G
  <2>6. G = Nat
    BY <2>3, <2>4, <2>5, Induction
  <2> QED
    BY <2>6 DEF G
<1>14. \A i \in 1 .. n : s[i] \in Deleted(m, c) /\ (m[s[i]].prev = 0 => s[i] = c)
  BY <1>9, <1>13
<1>15. \A i \in 1 .. n : Listed(m, a, s[i])
  BY <1>9, <1>14 DEF Listed, c
<1> QED
  BY <1>5, <1>6, <1>10, <1>11, <1>12, <1>14, <1>15 DEF s, c

-----------------------------------------------------------------------------
(* The functions. *)

\* What cJSON_Delete frees for an item in no list.
Below(m, n) == {n} \cup (IF OwnsChild(m, n) THEN Deleted(m, m[n].child) ELSE {})

\* An assignment to next changes nothing else.
LEMMA NextSet ==
  ASSUME NEW D, NEW m \in [D -> ItemSet(D)], NEW x \in D, NEW v \in D \cup {0},
         NEW m2, m2 = [m EXCEPT ![x].next = v]
  PROVE  /\ m2 \in [D -> ItemSet(D)]
         /\ \A y \in D : /\ m2[y].next = (IF y = x THEN v ELSE m[y].next)
                         /\ m2[y].prev = m[y].prev /\ m2[y].child = m[y].child
                         /\ m2[y].isref = m[y].isref /\ m2[y].of = m[y].of
BY DEF ItemSet

\* An assignment to child changes nothing else.
LEMMA ChildSet ==
  ASSUME NEW D, NEW m \in [D -> ItemSet(D)], NEW x \in D, NEW v \in D \cup {0},
         NEW m2, m2 = [m EXCEPT ![x].child = v]
  PROVE  /\ m2 \in [D -> ItemSet(D)]
         /\ \A y \in D : /\ m2[y].child = (IF y = x THEN v ELSE m[y].child)
                         /\ m2[y].next = m[y].next /\ m2[y].prev = m[y].prev
                         /\ m2[y].isref = m[y].isref /\ m2[y].of = m[y].of
BY DEF ItemSet

\* suffix_object changes one link forward and one back.
LEMMA SuffixSet ==
  ASSUME NEW D, NEW m \in [D -> ItemSet(D)], NEW p \in D, NEW n \in D,
         NEW m2, m2 = SuffixObject(m, p, n)
  PROVE  /\ m2 \in [D -> ItemSet(D)]
         /\ \A y \in D : /\ m2[y].next = (IF y = p THEN n ELSE m[y].next)
                         /\ m2[y].prev = (IF y = n THEN p ELSE m[y].prev)
                         /\ m2[y].child = m[y].child
                         /\ m2[y].isref = m[y].isref /\ m2[y].of = m[y].of
<1> DEFINE m1 == [m EXCEPT ![p].next = n]
<1>1. m2 = [m1 EXCEPT ![n].prev = p]
  BY DEF SuffixObject
<1>2. /\ m1 \in [D -> ItemSet(D)]
      /\ \A y \in D : /\ m1[y].next = (IF y = p THEN n ELSE m[y].next)
                      /\ m1[y].prev = m[y].prev /\ m1[y].child = m[y].child
                      /\ m1[y].isref = m[y].isref /\ m1[y].of = m[y].of
  <2>1. m1 = [m EXCEPT ![p].next = n] /\ n \in D \cup {0}
    OBVIOUS
  <2> HIDE DEF m1
  <2> QED
    BY <2>1, NextSet
<1> HIDE DEF m1
<1>3. /\ m2 \in [D -> ItemSet(D)]
      /\ \A y \in D : /\ m2[y].prev = (IF y = n THEN p ELSE m1[y].prev)
                      /\ m2[y].next = m1[y].next /\ m2[y].child = m1[y].child
                      /\ m2[y].isref = m1[y].isref /\ m2[y].of = m1[y].of
  <2>1. p \in D \cup {0} /\ m1 \in [D -> ItemSet(D)]
    BY <1>2
  <2> QED
    BY <1>1, <2>1 DEF ItemSet
<1> QED
  BY <1>2, <1>3

\* cJSON_AddItemToArray puts the item first in an empty list, or behind the last.
LEMMA AddIs ==
  ASSUME NEW m, NEW H, Sound(m, H), NEW a \in DOMAIN m, ~m[a].isref, NEW n \in H,
         NEW p, p = (IF m[a].child = 0 THEN 0 ELSE Last(List(m, a)))
  PROVE  InsertPlace(m, a, p) /\ Inserted(m, AddItemToArray(m, a, n), a, p, n)
<1> DEFINE D == DOMAIN m
           m2 == AddItemToArray(m, a, n)
<1>1. Typed(m) /\ n \in D /\ m \in [D -> ItemSet(D)] /\ 0 \notin D /\ Loose(m, n)
  BY FiniteMemory DEF Sound, Typed
<1>2. CASE m[a].child = 0
  <2>1. m2 = [m EXCEPT ![a].child = n]
    BY <1>2 DEF AddItemToArray
  <2> HIDE DEF m2
  <2>2. /\ m2 \in [D -> ItemSet(D)]
        /\ \A y \in D : /\ m2[y].child = (IF y = a THEN n ELSE m[y].child)
                        /\ m2[y].next = m[y].next /\ m2[y].prev = m[y].prev
                        /\ m2[y].isref = m[y].isref /\ m2[y].of = m[y].of
    BY <1>1, <2>1, ChildSet
  <2>3. DOMAIN m2 = D /\ Behind(m, a, 0) = 0
    BY <1>2, <2>2 DEF Behind
  <2>4. Inserted(m, m2, a, 0, n)
    BY <1>1, <2>2, <2>3 DEF Inserted, Rewired, Loose
  <2>5. InsertPlace(m, a, 0)
    BY DEF InsertPlace
  <2> QED
    BY <1>2, <2>4, <2>5 DEF m2
<1>3. CASE m[a].child # 0
  <2>1. PICK l \in D : l = Last(List(m, a)) /\ m[l].next = 0 /\ l \in Deleted(m, m[a].child)
    <3> DEFINE s == List(m, a)
    <3>1. PICK k \in Nat : /\ s \in [1 .. k -> D] /\ k # 0 /\ m[s[k]].next = 0
                           /\ \A i \in 1 .. k : s[i] \in Deleted(m, m[a].child)
      BY <1>3, ListIs
    <3> HIDE DEF s
    <3>2. k \in 1 .. k /\ Len(s) = k
      BY <3>1
    <3>3. Last(s) = s[k]
      BY <3>2 DEF Last
    <3> QED
      BY <3>1, <3>2, <3>3 DEF s
  <2>2. m2 = SuffixObject(m, l, n)
    BY <1>3, <2>1 DEF AddItemToArray
  <2> HIDE DEF m2
  <2>3. /\ m2 \in [D -> ItemSet(D)]
        /\ \A y \in D : /\ m2[y].next = (IF y = l THEN n ELSE m[y].next)
                        /\ m2[y].prev = (IF y = n THEN l ELSE m[y].prev)
                        /\ m2[y].child = m[y].child
                        /\ m2[y].isref = m[y].isref /\ m2[y].of = m[y].of
    BY <1>1, <2>1, <2>2, SuffixSet
  <2>4. DOMAIN m2 = D /\ Behind(m, a, l) = 0 /\ l # 0
    BY <1>1, <2>1, <2>3 DEF Behind
  <2>5. InsertPlace(m, a, l)
    BY <1>3, <2>1 DEF InsertPlace
  <2>6. l # n
    <3>1. PICK x \in D : Leads(m, x, l)
      BY <2>4, <2>5, PlaceIsLed DEF Sound
    <3> QED
      BY <1>1, <3>1, LooseEnd DEF Sound
  <2>7. Inserted(m, m2, a, l, n)
    BY <1>1, <2>3, <2>4, <2>6 DEF Inserted, Rewired, Loose
  <2> QED
    BY <1>3, <2>1, <2>5, <2>7 DEF m2
<1> QED
  BY <1>2, <1>3

\* cJSON_AddItemToArray keeps the memory sound and takes the item from the caller.
LEMMA AddSound ==
  ASSUME NEW m, NEW H, Sound(m, H), NEW a \in DOMAIN m, ~m[a].isref, Unshared(m, a),
         NEW n \in H, a \notin Deleted(m, n)
  PROVE  Sound(AddItemToArray(m, a, n), H \ {n})
BY AddIs, InsertSound

\* cJSON_DetachItemFromArray takes the item out of its list, wherever it is in it.
LEMMA DetachIs ==
  ASSUME NEW m, NEW H, Sound(m, H), NEW a \in DOMAIN m, ~m[a].isref,
         NEW i \in DOMAIN List(m, a), NEW c, c = List(m, a)[i]
  PROVE  Listed(m, a, c) /\ Detached(m, DetachItem(m, a, i), a, c)
<1> DEFINE D == DOMAIN m
           p == m[c].prev
           nx == m[c].next
           m1 == IF p # 0 THEN [m EXCEPT ![p].next = nx] ELSE m
           m2 == IF nx # 0 THEN [m1 EXCEPT ![nx].prev = p] ELSE m1
           m3 == [m2 EXCEPT ![a].child = IF c = m[a].child THEN nx ELSE @]
           m4 == [m3 EXCEPT ![c].prev = 0]
           m5 == [m4 EXCEPT ![c].next = 0]
<1>1. /\ Typed(m) /\ Linked(m) /\ m \in [D -> ItemSet(D)] /\ 0 \notin D
  BY FiniteMemory DEF Sound, Typed
<1>2. Listed(m, a, c)
  BY ListIs
<1>3. c \in D /\ p \in D \cup {0} /\ nx \in D \cup {0}
  BY <1>1, <1>2, Fields DEF Listed
<1>4. DetachItem(m, a, i) = m5
  BY DEF DetachItem
<1>5. /\ m1 \in [D -> ItemSet(D)]
      /\ \A y \in D : /\ m1[y].next = (IF y = p THEN nx ELSE m[y].next)
                      /\ m1[y].prev = m[y].prev /\ m1[y].child = m[y].child
                      /\ m1[y].isref = m[y].isref /\ m1[y].of = m[y].of
  <2>1. CASE p # 0
    BY <1>1, <1>3, <2>1 DEF ItemSet
  <2>2. CASE p = 0
    <3>1. m1 = m /\ \A y \in D : y # p
      BY <1>1, <2>2
    <3> HIDE DEF p, m1
    <3> QED
      BY <1>1, <3>1
  <2> QED
    BY <2>1, <2>2
<1> HIDE DEF m1, p, nx
<1>6. /\ m2 \in [D -> ItemSet(D)]
      /\ \A y \in D : /\ m2[y].prev = (IF y = nx THEN p ELSE m1[y].prev)
                      /\ m2[y].next = m1[y].next /\ m2[y].child = m1[y].child
                      /\ m2[y].isref = m1[y].isref /\ m2[y].of = m1[y].of
  <2>1. CASE nx # 0
    BY <1>3, <1>5, <2>1 DEF ItemSet
  <2>2. CASE nx = 0
    <3>1. m2 = m1 /\ \A y \in D : y # nx
      BY <1>1, <2>2
    <3> HIDE DEF m2
    <3> QED
      BY <1>5, <3>1
  <2> QED
    BY <2>1, <2>2
<1> HIDE DEF m2
<1>7. /\ m3 \in [D -> ItemSet(D)]
      /\ \A y \in D : /\ m3[y].child = (IF y = a /\ m[a].child = c THEN nx ELSE m2[y].child)
                      /\ m3[y].next = m2[y].next /\ m3[y].prev = m2[y].prev
                      /\ m3[y].isref = m2[y].isref /\ m3[y].of = m2[y].of
  BY <1>3, <1>6 DEF ItemSet
<1> HIDE DEF m3
<1>8. /\ m4 \in [D -> ItemSet(D)]
      /\ \A y \in D : /\ m4[y].prev = (IF y = c THEN 0 ELSE m3[y].prev)
                      /\ m4[y].next = m3[y].next /\ m4[y].child = m3[y].child
                      /\ m4[y].isref = m3[y].isref /\ m4[y].of = m3[y].of
  BY <1>3, <1>7 DEF ItemSet
<1> HIDE DEF m4
<1>9. /\ m5 \in [D -> ItemSet(D)]
      /\ \A y \in D : /\ m5[y].next = (IF y = c THEN 0 ELSE m4[y].next)
                      /\ m5[y].prev = m4[y].prev /\ m5[y].child = m4[y].child
                      /\ m5[y].isref = m4[y].isref /\ m5[y].of = m4[y].of
  BY <1>3, <1>8 DEF ItemSet
<1> HIDE DEF m5
<1>10. DOMAIN m5 = D
  BY <1>9
<1>11. Rewired(m, m5)
  BY <1>5, <1>6, <1>7, <1>8, <1>9, <1>10 DEF Rewired
<1>12. \A x \in D :
         /\ m5[x].child = IF x = a /\ m[a].child = c THEN nx ELSE m[x].child
         /\ m5[x].next = IF x = c THEN 0 ELSE IF x = p THEN nx ELSE m[x].next
         /\ m5[x].prev = IF x = c THEN 0 ELSE IF x = nx THEN p ELSE m[x].prev
  BY <1>5, <1>6, <1>7, <1>8, <1>9
<1> QED
  BY <1>2, <1>4, <1>11, <1>12 DEF Detached, p, nx

\* An item with nothing behind it is freed with what is below it and no more.
LEMMA HeldBelow ==
  ASSUME NEW m, Typed(m), NEW n \in DOMAIN m, m[n].next = 0
  PROVE  Deleted(m, n) = Below(m, n)
<1> DEFINE c == m[n].child
           B == Below(m, n)
<1>1. /\ Deleted(m, n) \subseteq DOMAIN m /\ n \in Deleted(m, n)
      /\ \A x \in Deleted(m, n) : \A y : Leads(m, x, y) => y \in Deleted(m, n)
  BY DeletedIs
<1>2. CASE OwnsChild(m, n)
  <2>1. c \in DOMAIN m /\ Leads(m, n, c) /\ B = {n} \cup Deleted(m, c)
    BY <1>2, Fields DEF OwnsChild, Leads, Below
  <2>2. c \in Deleted(m, c) /\ \A x \in Deleted(m, c) : \A y : Leads(m, x, y) => y \in Deleted(m, c)
    BY <2>1, DeletedIs
  <2>3. Deleted(m, c) \subseteq Deleted(m, n)
    BY <1>1, <2>1, DeletedIs
  <2>4. n \in B /\ \A x \in B \cap DOMAIN m : \A y : Leads(m, x, y) => y \in B
    BY <2>1, <2>2 DEF Leads
  <2>5. Deleted(m, n) \subseteq B
    <3> HIDE DEF B
    <3> QED
      BY <2>4, DeletedIs
  <2> QED
    BY <1>1, <2>1, <2>3, <2>5
<1>3. CASE ~OwnsChild(m, n)
  <2>1. B = {n} /\ \A y : ~Leads(m, n, y)
    BY <1>3 DEF Below, OwnsChild, Leads
  <2>2. Deleted(m, n) \subseteq {n}
    BY <2>1, DeletedIs
  <2> QED
    BY <1>1, <2>1, <2>2
<1> QED
  BY <1>2, <1>3

\* An item that was cut from its list, and all below left as it was, is freed with what
\* was below it and no more.
LEMMA CutBelow ==
  ASSUME NEW m, NEW H, Sound(m, H), NEW c \in DOMAIN m, NEW m2, Rewired(m, m2),
         m2[c].next = 0, m2[c].child = m[c].child,
         \A x \in Below(m, c) \ {c} : m2[x].next = m[x].next /\ m2[x].child = m[x].child
  PROVE  Deleted(m2, c) = Below(m, c)
<1>1. Typed(m) /\ Typed(m2) /\ DOMAIN m2 = DOMAIN m
      /\ \A x \in DOMAIN m : m2[x].isref = m[x].isref
  BY DEF Sound, Typed, Rewired
<1>2. Deleted(m2, c) = Below(m2, c)
  BY <1>1, HeldBelow
<1>3. OwnsChild(m2, c) <=> OwnsChild(m, c)
  BY <1>1 DEF OwnsChild
<1>4. CASE ~OwnsChild(m, c)
  BY <1>2, <1>3, <1>4 DEF Below
<1>5. CASE OwnsChild(m, c)
  <2> DEFINE k == m[c].child
  <2>1. k \in DOMAIN m /\ Leads(m, c, k)
    BY <1>1, <1>5, Fields DEF OwnsChild, Leads
  <2>2. c \notin Deleted(m, k) /\ Deleted(m, k) \subseteq DOMAIN m
    <3> HIDE DEF k
    <3> QED
      BY <1>1, <2>1, NoWayBack, DeletedIs
  <2>3. ASSUME NEW x \in Deleted(m, k) PROVE \A y : Leads(m2, x, y) <=> Leads(m, x, y)
    <3>1. x \in Below(m, c) \ {c} /\ x \in DOMAIN m
      BY <1>5, <2>2, <2>3 DEF Below
    <3> QED
      BY <1>1, <3>1 DEF Leads
  <2>4. Deleted(m2, k) = Deleted(m, k)
    <3> HIDE DEF k
    <3> QED
      BY <1>1, <2>1, <2>3, SameDeleted
  <2> QED
    BY <1>2, <1>3, <1>5, <2>4 DEF Below
<1> QED
  BY <1>4, <1>5

\* What is below an item is in the memory.
LEMMA BelowIn ==
  ASSUME NEW m, Typed(m), NEW c \in DOMAIN m
  PROVE  Below(m, c) \subseteq DOMAIN m /\ c \in Below(m, c)
<1>1. OwnsChild(m, c) => m[c].child \in DOMAIN m
  BY Fields DEF OwnsChild
<1> QED
  BY <1>1, DeletedIs DEF Below

\* Neither what leads to an item nor what is held is below it.
LEMMA NotBelow ==
  ASSUME NEW m, NEW H, Sound(m, H), NEW c \in DOMAIN m, NEW q \in DOMAIN m, q # c,
         Leads(m, q, c) \/ q \in H
  PROVE  q \notin Below(m, c)
<1> SUFFICES ASSUME OwnsChild(m, c), q \in Deleted(m, m[c].child) PROVE FALSE
  BY DEF Below
<1> DEFINE k == m[c].child
<1>1. Typed(m) /\ Linked(m) /\ \A h \in H : Loose(m, h)
  BY DEF Sound
<1>2. k \in DOMAIN m /\ Leads(m, c, k)
  BY <1>1, Fields DEF OwnsChild, Leads
<1>3. CASE Leads(m, q, c)
  <2>1. Deleted(m, k) \subseteq Deleted(m, c)
    <3>1. c \in Deleted(m, c) /\ \A x \in Deleted(m, c) : \A y : Leads(m, x, y) => y \in Deleted(m, c)
      BY <1>1, DeletedIs
    <3>2. k \in Deleted(m, c)
      BY <1>2, <3>1
    <3> HIDE DEF k
    <3> QED
      BY <1>1, <1>2, <3>1, <3>2, DeletedIs
  <2> QED
    BY <1>3, <2>1, NoWayBack
<1>4. CASE q \in H
  <2>1. q # k
    BY <1>1, <1>2, <1>4, LooseEnd
  <2>2. \E x \in Deleted(m, k) : Leads(m, x, q)
    BY <1>1, <1>2, <2>1, CameBy
  <2>3. Deleted(m, k) \subseteq DOMAIN m
    BY <1>1, <1>2, DeletedIs
  <2> QED
    BY <1>1, <1>4, <2>2, <2>3, LooseEnd
<1> QED
  BY <1>3, <1>4

\* The place before an item of a list is one to insert at.
LEMMA PlaceBefore ==
  ASSUME NEW m, NEW H, Sound(m, H), NEW a \in DOMAIN m, ~m[a].isref,
         NEW i \in DOMAIN List(m, a), NEW c, c = List(m, a)[i]
  PROVE  /\ c \in DOMAIN m /\ c \notin H
         /\ InsertPlace(m, a, m[c].prev) /\ Behind(m, a, m[c].prev) = c
         /\ IF m[c].prev = 0 THEN m[a].child = c /\ Leads(m, a, c) /\ a # c
            ELSE m[a].child # c /\ Leads(m, m[c].prev, c) /\ m[c].prev # c
<1> DEFINE D == DOMAIN m
           p == m[c].prev
<1>1. Typed(m) /\ Linked(m) /\ OneOwner(m) /\ 0 \notin D /\ H \subseteq D
      /\ \A h \in H : Loose(m, h)
  BY FiniteMemory DEF Sound
<1>2. /\ c \in D /\ (p = 0 => m[a].child = c)
      /\ c \in Deleted(m, m[a].child) /\ m[a].child # 0
  <2>1. PICK n \in Nat : /\ List(m, a) \in [1 .. n -> D]
                         /\ n = 0 <=> m[a].child = 0
                         /\ \A k \in 1 .. n : Listed(m, a, List(m, a)[k])
                         /\ \A k \in 1 .. n : List(m, a)[k] \in Deleted(m, m[a].child)
    BY ListIs
  <2>2. i \in 1 .. n
    BY <2>1
  <2> QED
    BY <2>1, <2>2 DEF Listed
<1>3. p \in D \cup {0}
  BY <1>1, <1>2, Fields
<1>4. m[a].child \in D /\ m[m[a].child].prev = 0
  BY <1>1, <1>2, Fields DEF Linked
<1>5. CASE p = 0
  <2>1. Leads(m, a, c)
    BY <1>1, <1>2, <1>5 DEF Leads
  <2>2. a # c
    BY <1>1, <1>2, <2>1, NoWayBack, DeletedIs
  <2>3. c \notin H
    BY <1>1, <2>1, LooseEnd
  <2> QED
    BY <1>2, <1>5, <2>1, <2>2, <2>3 DEF InsertPlace, Behind
<1>6. CASE p # 0
  <2>1. p \in D /\ m[p].next = c /\ Leads(m, p, c)
    BY <1>1, <1>2, <1>3, <1>6 DEF Linked, Leads
  <2>2. p # c
    BY <1>1, <1>2, <2>1, NoWayBack, DeletedIs
  <2>3. c \notin H
    BY <1>1, <2>1, LooseEnd
  <2>4. m[a].child # c
    BY <1>4, <1>6
  <2>5. PICK x \in Deleted(m, m[a].child) : Leads(m, x, c)
    BY <1>1, <1>2, <1>4, <2>4, CameBy
  <2>6. x \in D
    BY <1>1, <1>4, DeletedIs
  <2>7. x = p
    BY <1>1, <2>1, <2>5, <2>6, OneLink
  <2> QED
    BY <1>2, <1>6, <2>1, <2>2, <2>3, <2>4, <2>5, <2>7 DEF InsertPlace, Behind
<1> QED
  BY <1>5, <1>6

\* cJSON_ReplaceItemInArray links the new item as if it came before the old one and
\* the old one was then detached.
LEMMA ReplaceIs ==
  ASSUME NEW m, NEW H, Sound(m, H), NEW a \in DOMAIN m, ~m[a].isref,
         NEW i \in DOMAIN List(m, a), NEW c, c = List(m, a)[i], NEW n \in H
  PROVE  \E m1, m2 :
           /\ Inserted(m, m1, a, m[c].prev, n) /\ m1[c].prev = n /\ Detached(m1, m2, a, c)
           /\ ReplaceItem(m, a, i, n) = Delete(m2, c)
<1> DEFINE D == DOMAIN m
           p == m[c].prev
           nx == m[c].next
<1>1. /\ Typed(m) /\ m \in [D -> ItemSet(D)] /\ 0 \notin D /\ n \in D /\ Loose(m, n)
  BY FiniteMemory DEF Sound, Typed
<1>2. /\ c \in D /\ c # n /\ p # c /\ n # p /\ Behind(m, a, p) = c
      /\ p = 0 <=> c = m[a].child
  <2>1. c \in D /\ c # n /\ Behind(m, a, p) = c /\ (p = 0 <=> c = m[a].child)
    BY PlaceBefore
  <2>2. p # c
    BY <1>1, PlaceBefore
  <2>3. n # p
    <3>1. p # 0 => m[p].next = c
      BY <1>1, <2>1 DEF Sound, Linked
    <3> QED
      BY <1>1, <2>1, <3>1 DEF Loose
  <2> QED
    BY <2>1, <2>2, <2>3
<1>3. p \in D \cup {0} /\ nx \in D \cup {0} /\ c \in D \cup {0} /\ n \in D \cup {0}
  BY <1>1, <1>2, Fields
<1> HIDE DEF p, nx
<1> DEFINE kid(x) == IF x = a /\ p = 0 THEN n ELSE m[x].child
           on(x) == IF x = n THEN c ELSE IF x = p THEN n ELSE m[x].next
           back(x) == IF x = n THEN p ELSE IF x = c THEN n ELSE m[x].prev
           m1 == [x \in D |-> [m[x] EXCEPT !.child = kid(x), !.next = on(x), !.prev = back(x)]]
<1>4. m1 \in [D -> ItemSet(D)]
  <2> SUFFICES ASSUME NEW x \in D PROVE m1[x] \in ItemSet(D)
    OBVIOUS
  <2>1. m[x] \in ItemSet(D)
    BY <1>1
  <2>2. kid(x) \in D \cup {0} /\ on(x) \in D \cup {0} /\ back(x) \in D \cup {0}
    BY <1>1, <1>3, Fields
  <2>3. m1[x] = [m[x] EXCEPT !.child = kid(x), !.next = on(x), !.prev = back(x)]
    OBVIOUS
  <2> HIDE DEF kid, on, back, m1
  <2> QED
    BY <2>1, <2>2, <2>3 DEF ItemSet
<1>5. \A x \in D : /\ m1[x].child = IF x = a /\ p = 0 THEN n ELSE m[x].child
                   /\ m1[x].next = IF x = n THEN c ELSE IF x = p THEN n ELSE m[x].next
                   /\ m1[x].prev = IF x = n THEN p ELSE IF x = c THEN n ELSE m[x].prev
                   /\ m1[x].isref = m[x].isref /\ m1[x].of = m[x].of
  BY <1>1 DEF ItemSet
<1> HIDE DEF m1
<1>6. Inserted(m, m1, a, p, n) /\ DOMAIN m1 = D
  BY <1>2, <1>4, <1>5 DEF Inserted, Rewired
<1>7. m1[c].prev = n /\ m1[c].next = nx
  BY <1>2, <1>5 DEF nx
<1> DEFINE s1 == [m EXCEPT ![n].next = nx]
           s2 == [s1 EXCEPT ![n].prev = p]
           s3 == IF nx # 0 THEN [s2 EXCEPT ![nx].prev = n] ELSE s2
           s4 == IF c = m[a].child THEN [s3 EXCEPT ![a].child = n] ELSE [s3 EXCEPT ![p].next = n]
           s5 == [s4 EXCEPT ![c].next = 0]
           s6 == [s5 EXCEPT ![c].prev = 0]
<1>8. ReplaceItem(m, a, i, n) = Delete(s6, c)
  BY DEF ReplaceItem, p, nx
<1>9. /\ s1 \in [D -> ItemSet(D)]
      /\ \A y \in D : /\ s1[y].next = (IF y = n THEN nx ELSE m[y].next)
                      /\ s1[y].prev = m[y].prev /\ s1[y].child = m[y].child
                      /\ s1[y].isref = m[y].isref /\ s1[y].of = m[y].of
  BY <1>1, <1>3 DEF ItemSet
<1> HIDE DEF s1
<1>10. /\ s2 \in [D -> ItemSet(D)]
       /\ \A y \in D : /\ s2[y].prev = (IF y = n THEN p ELSE s1[y].prev)
                       /\ s2[y].next = s1[y].next /\ s2[y].child = s1[y].child
                       /\ s2[y].isref = s1[y].isref /\ s2[y].of = s1[y].of
  BY <1>1, <1>3, <1>9 DEF ItemSet
<1> HIDE DEF s2
<1>11. /\ s3 \in [D -> ItemSet(D)]
       /\ \A y \in D : /\ s3[y].prev = (IF y = nx THEN n ELSE s2[y].prev)
                       /\ s3[y].next = s2[y].next /\ s3[y].child = s2[y].child
                       /\ s3[y].isref = s2[y].isref /\ s3[y].of = s2[y].of
  <2>1. CASE nx # 0
    BY <1>3, <1>10, <2>1 DEF ItemSet
  <2>2. CASE nx = 0
    <3>1. s3 = s2 /\ \A y \in D : y # nx
      BY <1>1, <2>2
    <3> HIDE DEF s3
    <3> QED
      BY <1>10, <3>1
  <2> QED
    BY <2>1, <2>2
<1> HIDE DEF s3
<1>12. /\ s4 \in [D -> ItemSet(D)]
       /\ \A y \in D : /\ s4[y].child = (IF y = a /\ p = 0 THEN n ELSE s3[y].child)
                       /\ s4[y].next = (IF y = p THEN n ELSE s3[y].next)
                       /\ s4[y].prev = s3[y].prev
                       /\ s4[y].isref = s3[y].isref /\ s4[y].of = s3[y].of
  <2>1. CASE p = 0
    <3>1. s4 = [s3 EXCEPT ![a].child = n] /\ \A y \in D : y # p
      BY <1>1, <1>2, <2>1
    <3> HIDE DEF s4
    <3> QED
      BY <1>3, <1>11, <2>1, <3>1 DEF ItemSet
  <2>2. CASE p # 0
    <3>1. s4 = [s3 EXCEPT ![p].next = n] /\ p \in D
      BY <1>2, <1>3, <2>2
    <3> HIDE DEF s4
    <3> QED
      BY <1>3, <1>11, <2>2, <3>1 DEF ItemSet
  <2> QED
    BY <2>1, <2>2
<1> HIDE DEF s4
<1>13. /\ s5 \in [D -> ItemSet(D)]
       /\ \A y \in D : /\ s5[y].next = (IF y = c THEN 0 ELSE s4[y].next)
                       /\ s5[y].prev = s4[y].prev /\ s5[y].child = s4[y].child
                       /\ s5[y].isref = s4[y].isref /\ s5[y].of = s4[y].of
  BY <1>2, <1>12 DEF ItemSet
<1> HIDE DEF s5
<1>14. /\ s6 \in [D -> ItemSet(D)]
       /\ \A y \in D : /\ s6[y].prev = (IF y = c THEN 0 ELSE s5[y].prev)
                       /\ s6[y].next = s5[y].next /\ s6[y].child = s5[y].child
                       /\ s6[y].isref = s5[y].isref /\ s6[y].of = s5[y].of
  BY <1>2, <1>13 DEF ItemSet
<1> HIDE DEF s6
<1>15. Rewired(m1, s6)
  BY <1>4, <1>5, <1>6, <1>9, <1>10, <1>11, <1>12, <1>13, <1>14 DEF Rewired
<1>16. ASSUME NEW x \in D
       PROVE  /\ s6[x].child = IF x = a /\ m1[a].child = c THEN nx ELSE m1[x].child
              /\ s6[x].next = IF x = c THEN 0 ELSE IF x = n THEN nx ELSE m1[x].next
              /\ s6[x].prev = IF x = c THEN 0 ELSE IF x = nx THEN n ELSE m1[x].prev
  <2>1. s6[x].child = IF x = a /\ m1[a].child = c THEN nx ELSE m1[x].child
    <3>1. m1[a].child # c
      BY <1>2, <1>5
    <3> QED
      BY <1>5, <1>9, <1>10, <1>11, <1>12, <1>13, <1>14, <3>1
  <2>2. s6[x].next = IF x = c THEN 0 ELSE IF x = n THEN nx ELSE m1[x].next
    BY <1>2, <1>5, <1>9, <1>10, <1>11, <1>12, <1>13, <1>14
  <2>3. s6[x].prev = IF x = c THEN 0 ELSE IF x = nx THEN n ELSE m1[x].prev
    BY <1>5, <1>9, <1>10, <1>11, <1>12, <1>13, <1>14
  <2> QED
    BY <2>1, <2>2, <2>3
<1>17. Detached(m1, s6, a, c)
  BY <1>6, <1>7, <1>15, <1>16 DEF Detached
<1> QED
  BY <1>6, <1>7, <1>8, <1>17 DEF p

\* How cJSON_ReplaceItemInArray comes from m to the memory m2, of which it then deletes
\* the old item c: by m1, where the new item n comes before it.
Replaces(m, H, a, i, n, m1, m2) ==
  LET c == List(m, a)[i] IN
    /\ Inserted(m, m1, a, m[c].prev, n) /\ m1[c].prev = n /\ Detached(m1, m2, a, c)
    /\ ReplaceItem(m, a, i, n) = Delete(m2, c)
    /\ Sound(m1, H \ {n}) /\ Sound(m2, (H \ {n}) \cup {c})
    /\ Rewired(m, m2) /\ Deleted(m2, c) = Below(m, c)

\* The old item, which the new one was put before, is taken out, and what would be
\* freed with it is what was below it.
LEMMA ReplaceCuts ==
  ASSUME NEW m, NEW H, Sound(m, H), NEW a \in DOMAIN m, ~m[a].isref, Unshared(m, a),
         NEW i \in DOMAIN List(m, a), NEW n \in H, a \notin Deleted(m, n)
  PROVE  \E m1, m2 : Replaces(m, H, a, i, n, m1, m2)
<1> DEFINE D == DOMAIN m
           c == List(m, a)[i]
           p == m[c].prev
<1>1. Typed(m) /\ 0 \notin D /\ H \subseteq D /\ n \in D /\ Loose(m, n)
  BY FiniteMemory DEF Sound
<1>2. /\ c \in D /\ c \notin H
      /\ InsertPlace(m, a, p) /\ Behind(m, a, p) = c
      /\ IF p = 0 THEN m[a].child = c /\ Leads(m, a, c) /\ a # c
         ELSE m[a].child # c /\ Leads(m, p, c) /\ p # c
  BY PlaceBefore
<1>3. PICK m1, m2 :
           /\ Inserted(m, m1, a, p, n) /\ m1[c].prev = n /\ Detached(m1, m2, a, c)
           /\ ReplaceItem(m, a, i, n) = Delete(m2, c)
  BY ReplaceIs
<1>4. Inserted(m, m1, a, m[c].prev, n)
  BY <1>3
<1> HIDE DEF p, c
<1>5. Sound(m1, H \ {n})
  BY <1>2, <1>3, InsertSound
<1>6. DOMAIN m1 = D /\ \A x \in D : m1[x].isref = m[x].isref /\ m1[x].of = m[x].of
  BY <1>3 DEF Inserted, Rewired
<1>7. Sound(m2, (H \ {n}) \cup {c})
  <2>1. Unshared(m1, a) /\ Listed(m1, a, c)
    BY <1>1, <1>2, <1>3, <1>6 DEF Unshared, Listed
  <2> QED
    BY <1>3, <1>5, <2>1, DetachSound
<1>8. /\ Rewired(m, m2)
      /\ \A x \in D : m2[x].isref = m[x].isref /\ m2[x].of = m[x].of
  BY <1>3, <1>6 DEF Detached, Rewired
<1>9. p # 0 => p \in D
  BY <1>2 DEF InsertPlace
<1>10. \A x \in D : /\ m1[x].child = IF x = a /\ p = 0 THEN n ELSE m[x].child
                    /\ m1[x].next = IF x = n THEN c ELSE IF x = p THEN n ELSE m[x].next
                    /\ m2[x].child = IF x = a /\ m1[a].child = c THEN m1[c].next ELSE m1[x].child
                    /\ m2[x].next = IF x = c THEN 0 ELSE IF x = n THEN m1[c].next ELSE m1[x].next
  BY <1>2, <1>3, <1>6 DEF Inserted, Detached
<1>11. c # n /\ m1[a].child # c
  BY <1>2, <1>10
<1>12. m2[c].next = 0 /\ m2[c].child = m[c].child
  BY <1>2, <1>10, <1>11
<1>13. ASSUME NEW x \in Below(m, c) \ {c}
       PROVE  m2[x].next = m[x].next /\ m2[x].child = m[x].child
  <2>1. x \in D
    <3>1. OwnsChild(m, c) /\ x \in Deleted(m, m[c].child)
      BY <1>13 DEF Below
    <3>2. m[c].child \in D
      BY <1>1, <1>2, <3>1, Fields DEF OwnsChild
    <3> QED
      BY <1>1, <3>1, <3>2, DeletedIs
  <2>2. x # n
    BY <1>1, <1>2, <1>11, NotBelow
  <2>3. x # p
    BY <1>1, <1>2, <1>9, <2>1, NotBelow
  <2>4. p = 0 => x # a
    BY <1>2, NotBelow
  <2> QED
    BY <1>10, <1>11, <2>1, <2>2, <2>3, <2>4
<1>14. Deleted(m2, c) = Below(m, c)
  BY <1>2, <1>8, <1>12, <1>13, CutBelow
<1> QED
  BY <1>3, <1>4, <1>5, <1>7, <1>8, <1>14 DEF Replaces, c

\* cJSON_ReplaceItemInArray keeps the memory sound: the old item, which was put
\* behind the new one and taken out, is freed with all below it.
LEMMA ReplaceSound ==
  ASSUME NEW m, NEW H, Sound(m, H), NEW a \in DOMAIN m, ~m[a].isref, Unshared(m, a),
         NEW i \in DOMAIN List(m, a), NEW n \in H, a \notin Deleted(m, n),
         \A r \in DOMAIN m : m[r].isref => m[r].of \notin Below(m, List(m, a)[i])
  PROVE  /\ Sound(ReplaceItem(m, a, i, n), H \ {n})
         /\ DOMAIN ReplaceItem(m, a, i, n) \subseteq DOMAIN m
<1> DEFINE c == List(m, a)[i]
<1>1. c = List(m, a)[i] /\ \A r \in DOMAIN m : m[r].isref => m[r].of \notin Below(m, c)
  OBVIOUS
<1>2. PICK m1, m2 : Replaces(m, H, a, i, n, m1, m2)
  BY ReplaceCuts
<1> HIDE DEF c
<1>3. /\ Sound(m2, (H \ {n}) \cup {c}) /\ Rewired(m, m2) /\ Deleted(m2, c) = Below(m, c)
      /\ ReplaceItem(m, a, i, n) = Delete(m2, c)
  BY <1>2 DEF Replaces, c
<1>4. \A r \in DOMAIN m2 : m2[r].isref => m2[r].of \notin Deleted(m2, c)
  BY <1>1, <1>3 DEF Rewired
<1>5. /\ Sound(Delete(m2, c), ((H \ {n}) \cup {c}) \ {c})
      /\ DOMAIN Delete(m2, c) = DOMAIN m2 \ Deleted(m2, c)
  <2>1. c \in (H \ {n}) \cup {c}
    OBVIOUS
  <2> QED
    BY <1>3, <1>4, <2>1, DeleteSound
<1>6. ((H \ {n}) \cup {c}) \ {c} = H \ {n}
  BY <1>1, PlaceBefore
<1>7. DOMAIN m2 = DOMAIN m
  BY <1>3 DEF Rewired
<1> QED
  BY <1>3, <1>5, <1>6, <1>7

\* cJSON_DetachItemFromArray gives the item to the caller, and cJSON_DeleteItemFromArray
\* then frees it with all below it.
LEMMA TakeOutSound ==
  ASSUME NEW m, NEW H, Sound(m, H), NEW a \in DOMAIN m, ~m[a].isref, Unshared(m, a),
         NEW i \in DOMAIN List(m, a), NEW c, c = List(m, a)[i]
  PROVE  /\ Sound(DetachItem(m, a, i), H \cup {c})
         /\ DOMAIN DetachItem(m, a, i) = DOMAIN m
         /\ Deleted(DetachItem(m, a, i), c) = Below(m, c)
         /\ (\A r \in DOMAIN m : m[r].isref => m[r].of \notin Below(m, c)) =>
              /\ Sound(Delete(DetachItem(m, a, i), c), H)
              /\ DOMAIN Delete(DetachItem(m, a, i), c) \subseteq DOMAIN m
<1> DEFINE D == DOMAIN m
           p == m[c].prev
           m2 == DetachItem(m, a, i)
<1>1. Typed(m) /\ 0 \notin D /\ H \subseteq D
  BY FiniteMemory DEF Sound
<1>2. /\ c \in D /\ c \notin H
      /\ InsertPlace(m, a, p) /\ Behind(m, a, p) = c
      /\ IF p = 0 THEN m[a].child = c /\ Leads(m, a, c) /\ a # c
         ELSE m[a].child # c /\ Leads(m, p, c) /\ p # c
  BY PlaceBefore
<1>3. Listed(m, a, c) /\ Detached(m, m2, a, c)
  BY DetachIs
<1> HIDE DEF m2, p
<1>4. Sound(m2, H \cup {c})
  BY <1>3, DetachSound
<1>5. /\ Rewired(m, m2) /\ DOMAIN m2 = D
      /\ \A x \in D : m2[x].isref = m[x].isref /\ m2[x].of = m[x].of
  BY <1>3 DEF Detached, Rewired
<1>6. Deleted(m2, c) = Below(m, c)
  <2>1. \A x \in D : /\ m2[x].child = IF x = a /\ m[a].child = c THEN m[c].next ELSE m[x].child
                     /\ m2[x].next = IF x = c THEN 0 ELSE IF x = p THEN m[c].next ELSE m[x].next
    BY <1>3 DEF Detached, p
  <2>2. m2[c].next = 0 /\ m2[c].child = m[c].child
    BY <1>2, <2>1
  <2>3. p # 0 => p \in D
    BY <1>2 DEF InsertPlace
  <2>4. ASSUME NEW x \in Below(m, c) \ {c}
        PROVE  m2[x].next = m[x].next /\ m2[x].child = m[x].child
    <3>1. x \in D
      <4>1. OwnsChild(m, c) /\ x \in Deleted(m, m[c].child)
        BY <2>4 DEF Below
      <4>2. m[c].child \in D
        BY <1>1, <1>2, <4>1, Fields DEF OwnsChild
      <4> QED
        BY <1>1, <4>1, <4>2, DeletedIs
    <3>2. x # p
      BY <1>1, <1>2, <2>3, <3>1, NotBelow
    <3>3. m[a].child = c => x # a
      BY <1>2, NotBelow
    <3> QED
      BY <2>1, <3>1, <3>2, <3>3
  <2> QED
    BY <1>2, <1>5, <2>2, <2>4, CutBelow
<1>7. ASSUME \A r \in D : m[r].isref => m[r].of \notin Below(m, c)
      PROVE  /\ Sound(Delete(m2, c), H)
             /\ DOMAIN Delete(m2, c) \subseteq D
  <2>1. /\ Sound(Delete(m2, c), (H \cup {c}) \ {c})
        /\ DOMAIN Delete(m2, c) = D \ Deleted(m2, c)
    <3>1. \A r \in DOMAIN m2 : m2[r].isref => m2[r].of \notin Deleted(m2, c)
      BY <1>5, <1>6, <1>7
    <3>2. c \in H \cup {c}
      OBVIOUS
    <3> QED
      BY <1>4, <1>5, <3>1, <3>2, DeleteSound
  <2>2. (H \cup {c}) \ {c} = H
    BY <1>2
  <2> QED
    BY <2>1, <2>2
<1> QED
  BY <1>4, <1>5, <1>6, <1>7 DEF m2

-----------------------------------------------------------------------------
(* Names, and what is new. *)

\* An assignment to string changes a name.
LEMMA StringSet ==
  ASSUME NEW m, NEW H, Sound(m, H), NEW n \in DOMAIN m, NEW t \in Name \cup {NoName},
         NEW m2, m2 = [m EXCEPT ![n].string = t]
  PROVE  Renamed(m, m2) /\ DOMAIN m2 = DOMAIN m
<1> DEFINE D == DOMAIN m
<1>1. m \in [D -> ItemSet(D)]
  BY DEF Sound, Typed
<1>2. DOMAIN m2 = D
  OBVIOUS
<1>3. m2 \in [D -> ItemSet(D)]
  BY <1>1 DEF ItemSet
<1>4. \A x \in D : /\ m2[x].isref = m[x].isref /\ m2[x].of = m[x].of
                   /\ m2[x].next = m[x].next /\ m2[x].prev = m[x].prev
                   /\ m2[x].child = m[x].child
  BY <1>1 DEF ItemSet
<1> QED
  BY <1>2, <1>3, <1>4 DEF Renamed, Rewired

\* Names change neither a list nor what is below an item.
LEMMA SameList ==
  ASSUME NEW m, NEW H, Sound(m, H), NEW m2, Renamed(m, m2), NEW a \in DOMAIN m
  PROVE  /\ List(m2, a) = List(m, a)
         /\ \A c \in DOMAIN m : Below(m2, c) = Below(m, c)
<1> DEFINE D == DOMAIN m
           c == m[a].child
           at == Walk(m, c)
           bt == Walk(m2, c)
<1>1. /\ Typed(m) /\ Typed(m2) /\ DOMAIN m2 = D
      /\ \A x \in D : Deleted(m2, x) = Deleted(m, x)
  BY RenameSound DEF Sound, Renamed, Rewired
<1>2. \A x \in D : /\ m2[x].next = m[x].next /\ m2[x].child = m[x].child
                   /\ m2[x].isref = m[x].isref
  BY DEF Renamed, Rewired
<1>3. c \in D \cup {0}
  BY <1>1, Fields
<1>4. /\ at \in [Nat -> D \cup {0}]
      /\ at[0] = c /\ \A k \in Nat : at[k + 1] = After(m, at[k])
  <2>1. at = Walk(m, c)
    OBVIOUS
  <2> HIDE DEF at, c
  <2> QED
    BY <1>1, <1>3, <2>1, WalkIs
<1>5. /\ bt \in [Nat -> D \cup {0}]
      /\ bt[0] = c /\ \A k \in Nat : bt[k + 1] = After(m2, bt[k])
  <2>1. bt = Walk(m2, c)
    OBVIOUS
  <2> HIDE DEF bt, c
  <2> QED
    BY <1>1, <1>3, <2>1, WalkIs
<1>6. List(m, a) = [k \in {k \in Id : at[k - 1] # 0} |-> at[k - 1]]
  BY DEF List
<1>7. List(m2, a) = [k \in {k \in Id : bt[k - 1] # 0} |-> bt[k - 1]]
  BY <1>2 DEF List
<1> HIDE DEF at, bt
<1>8. \A x \in D \cup {0} : After(m2, x) = After(m, x)
  BY <1>2 DEF After
<1>9. at = bt
  <2> DEFINE G == {k \in Nat : at[k] = bt[k]}
  <2>1. 0 \in G
    BY <1>4, <1>5
  <2>2. ASSUME NEW k \in G PROVE k + 1 \in G
    BY <1>4, <1>5, <1>8
  <2>3. G = Nat
    <3>1. G \subseteq Nat
      OBVIOUS
    <3> HIDE DEF G
    <3> QED
      BY <2>1, <2>2, <3>1, Induction
  <2>4. \A k \in Nat : at[k] = bt[k]
    BY <2>3
  <2> QED
    BY <1>4, <1>5, <2>4
<1>10. List(m2, a) = List(m, a)
  BY <1>6, <1>7, <1>9
<1>11. ASSUME NEW x \in D PROVE Below(m2, x) = Below(m, x)
  <2>1. OwnsChild(m2, x) = OwnsChild(m, x)
    BY <1>2 DEF OwnsChild
  <2>2. OwnsChild(m, x) => m[x].child \in D
    BY <1>1, Fields DEF OwnsChild
  <2> QED
    BY <1>1, <1>2, <2>1, <2>2 DEF Below
<1> QED
  BY <1>10, <1>11

\* cJSON_AddItemToArray frees nothing and makes nothing.
LEMMA AddDomain ==
  ASSUME NEW m, NEW a, NEW n
  PROVE  DOMAIN AddItemToArray(m, a, n) = DOMAIN m
BY DEF AddItemToArray, SuffixObject

\* cJSON_AddItemToObject does what cJSON_AddItemToArray does, to a renamed item.
LEMMA AddObjectSound ==
  ASSUME NEW m, NEW H, Sound(m, H), NEW a \in DOMAIN m, ~m[a].isref, Unshared(m, a),
         NEW n \in H, a \notin Deleted(m, n), NEW s \in Name \cup {NoName}
  PROVE  /\ Sound(AddItemToObject(m, a, s, n), H \ {n})
         /\ DOMAIN AddItemToObject(m, a, s, n) = DOMAIN m
<1> DEFINE m2 == [m EXCEPT ![n].string = s]
<1>1. n \in DOMAIN m
  BY DEF Sound
<1>2. Renamed(m, m2) /\ DOMAIN m2 = DOMAIN m
  BY <1>1, StringSet
<1>3. AddItemToObject(m, a, s, n) = AddItemToArray(m2, a, n)
  BY DEF AddItemToObject
<1> HIDE DEF m2
<1>4. Sound(m2, H) /\ Deleted(m2, n) = Deleted(m, n)
  BY <1>1, <1>2, RenameSound
<1>5. \A x \in DOMAIN m : m2[x].isref = m[x].isref /\ m2[x].of = m[x].of
  BY <1>2 DEF Renamed, Rewired
<1>6. Unshared(m2, a) /\ ~m2[a].isref /\ a \in DOMAIN m2
  BY <1>2, <1>5 DEF Unshared
<1> QED
  BY <1>2, <1>3, <1>4, <1>6, AddSound, AddDomain

\* Of an item with nothing behind and nothing of its own below it only it is freed.
LEMMA LoneSound ==
  ASSUME NEW m, Typed(m), NEW k \in DOMAIN m, m[k].next = 0, ~OwnsChild(m, k)
  PROVE  Deleted(m, k) = {k}
BY HeldBelow DEF Below

-----------------------------------------------------------------------------
(* The steps. *)

\* The inductive invariant.
IInv ==
  /\ Sound(node, held)
  /\ last \in 0 .. MaxItems /\ Live \subseteq 1 .. last

\* There is nothing at first.
LEMMA InitInv == Init => IInv
<1> SUFFICES ASSUME Init PROVE IInv
  OBVIOUS
<1>1. DOMAIN node = {} /\ held = {} /\ last = 0 /\ node \in [{} -> ItemSet({})]
  BY DEF Init
<1>2. Sound(node, held)
  BY <1>1 DEF Sound, Typed, Linked, OneOwner, Shares, Spanned
<1> QED
  BY <1>1, <1>2, ItemsAssumption DEF IInv, Live

\* Where the caller adds and takes away is no reference and not shared by one.
LEMMA ContainerIs ==
  ASSUME IInv, NEW c \in Containers
  PROVE  c \in DOMAIN node /\ ~node[c].isref /\ Unshared(node, c)
<1>1. c \in DOMAIN node /\ ~node[c].isref /\ c \notin Shared
  BY DEF Containers, Live
<1>2. ASSUME NEW r \in DOMAIN node, node[r].isref, node[r].of = c PROVE FALSE
  <2>1. c \in Under(node[r].of)
    BY <1>2 DEF Under
  <2> QED
    BY <1>1, <1>2, <2>1 DEF Shared, Live
<1> QED
  BY <1>1, <1>2 DEF Unshared

\* What the caller deletes is not what a reference was made of, nor is what is below.
LEMMA UntouchedIs ==
  ASSUME IInv, NEW n \in Live, Untouched(n)
  PROVE  \A r \in DOMAIN node : node[r].isref => node[r].of \notin Below(node, n)
<1> SUFFICES ASSUME NEW r \in DOMAIN node, node[r].isref, node[r].of \in Below(node, n)
             PROVE  FALSE
  OBVIOUS
<1>1. node[r].of \in Live
  BY DEF IInv, Sound, Shares, Live
<1>2. node[r].of \in Under(node[r].of)
  BY DEF Under
<1>3. node[r].of \in Shared
  BY <1>1, <1>2 DEF Shared, Live
<1> QED
  BY <1>3 DEF Untouched, Under, Below

\* Of a held item, what is freed is what is below.
LEMMA HeldIs ==
  ASSUME IInv, NEW n \in held
  PROVE  n \in DOMAIN node /\ Deleted(node, n) = Under(n)
<1>1. Typed(node) /\ n \in DOMAIN node /\ node[n].next = 0
  BY DEF IInv, Sound, Loose
<1> QED
  BY <1>1, HeldBelow DEF Under, Below

\* A place that the caller names is one of the list.
LEMMA PlacesIn ==
  ASSUME NEW c, NEW i \in Places(c)
  PROVE  i \in DOMAIN List(node, c)
BY DEF Places, PlacesOf

\* cJSON_CreateNull and the others keep the invariant.
LEMMA CreateItemInv ==
  ASSUME IInv, NEW type \in Types, CreateItem(type) PROVE IInv'
<1> DEFINE k == last + 1
<1>1. k \in Id \ DOMAIN node /\ k \in 1 .. MaxItems /\ last \in Nat
  BY ItemsAssumption DEF IInv, CreateItem, Id, Live
<1>2. node' = [x \in DOMAIN node \cup {k} |-> IF x = k THEN NewItem(type) ELSE node[x]]
  BY DEF CreateItem, NewNode, Live
<1>3. last' = k /\ held' = held \cup {k}
  BY DEF CreateItem
<1>4. Sound(node', held')
  <2>1. Sound(node, held)
    BY DEF IInv
  <2> HIDE DEF k
  <2>2. Sound(node', held \cup {k})
    BY <1>1, <1>2, <2>1, NewItemSound
  <2> QED
    BY <1>3, <2>2
<1>5. Live' \subseteq 1 .. last'
  BY <1>1, <1>2, <1>3 DEF IInv, Live
<1> QED
  BY <1>1, <1>3, <1>4, <1>5 DEF IInv

\* cJSON_AddItemToArray and ...ToObject keep the invariant.
LEMMA AddInv ==
  ASSUME IInv, NEW c \in Containers, NEW n \in held, Add(c, n) PROVE IInv'
<1>1. Sound(node, held) /\ c \in DOMAIN node /\ ~node[c].isref /\ Unshared(node, c)
  BY ContainerIs DEF IInv
<1>2. c \notin Deleted(node, n)
  BY HeldIs DEF Add
<1>3. Sound(node', held') /\ DOMAIN node' = DOMAIN node
  <2>1. CASE node' = AddItemToArray(node, c, n)
    BY <1>1, <1>2, <2>1, AddSound, AddDomain DEF Add
  <2>2. ASSUME NEW s \in Name \cup {NoName}, node' = AddItemToObject(node, c, s, n)
        PROVE  Sound(node', held') /\ DOMAIN node' = DOMAIN node
    BY <1>1, <1>2, <2>2, AddObjectSound DEF Add
  <2> QED
    BY <2>1, <2>2 DEF Add
<1> QED
  BY <1>3 DEF IInv, Add, Live

\* A reference is a new item that can be put in the container: nothing of it is above.
LEMMA ReferenceSound ==
  ASSUME IInv, NEW c \in Containers, NEW n \in Live, c \notin Under(n), last < MaxItems,
         NEW m, m = NewNode(last + 1, CreateReference(node, n))
  PROVE  /\ Sound(m, held \cup {last + 1})
         /\ c \in DOMAIN m /\ ~m[c].isref /\ Unshared(m, c) /\ c \notin Deleted(m, last + 1)
         /\ last + 1 \in Id \ DOMAIN node
         /\ \E new \in ItemSet(DOMAIN node) :
              /\ new.isref /\ new.next = 0
              /\ m = [x \in DOMAIN node \cup {last + 1} |-> IF x = last + 1 THEN new ELSE node[x]]
<1> DEFINE k == last + 1
           H == held \cup {k}
           new == CreateReference(node, n)
<1>1. /\ Sound(node, held) /\ c \in DOMAIN node /\ ~node[c].isref /\ Unshared(node, c)
      /\ n \in DOMAIN node /\ Typed(node)
  BY ContainerIs DEF IInv, Live, Sound
<1>2. k \in Id \ DOMAIN node /\ n < k /\ k # c
  BY <1>1, ItemsAssumption DEF IInv, Id, Live
<1>3. /\ new \in ItemSet(DOMAIN node) /\ new.next = 0 /\ new.prev = 0
      /\ new.isref /\ new.of = n /\ new.child = node[n].child
  <2>1. node[n] \in ItemSet(DOMAIN node) /\ n \in Nat
    BY <1>1, Fields DEF Typed
  <2> QED
    BY <2>1 DEF CreateReference, ItemSet
<1>4. m = [x \in DOMAIN node \cup {k} |-> IF x = k THEN new ELSE node[x]]
  BY DEF NewNode, Live
<1> HIDE DEF new
<1>5. Sound(m, H)
  <2>1. IF new.isref THEN new.of \in DOMAIN node /\ new.of < k
                          /\ node[new.of].child = new.child
                     ELSE new.child = 0
    BY <1>1, <1>2, <1>3
  <2> HIDE DEF k
  <2> QED
    BY <1>1, <1>2, <1>3, <1>4, <2>1, NewSound
<1>6. /\ DOMAIN m = DOMAIN node \cup {k} /\ m[k] = new
      /\ \A x \in DOMAIN node : x # k /\ m[x] = node[x]
  BY <1>2, <1>4
<1>7. n # c
  BY DEF Under
<1>8. c \in DOMAIN m /\ ~m[c].isref /\ Unshared(m, c)
  BY <1>1, <1>3, <1>6, <1>7 DEF Unshared
<1>9. Deleted(m, k) = {k}
  <2>1. Typed(m) /\ k \in DOMAIN m /\ m[k].next = 0 /\ ~OwnsChild(m, k)
    BY <1>3, <1>5, <1>6 DEF Sound, OwnsChild
  <2> QED
    BY <2>1, LoneSound
<1>10. c \notin Deleted(m, k)
  BY <1>2, <1>9
<1> HIDE DEF k, H
<1> QED
  BY <1>2, <1>3, <1>4, <1>5, <1>8, <1>10 DEF k, H

\* cJSON_AddItemReferenceToArray and ...ToObject keep the invariant: the reference is
\* put behind the last.
LEMMA AddReferenceInv ==
  ASSUME IInv, NEW c \in Containers, NEW n \in Live, AddReference(c, n) PROVE IInv'
<1> DEFINE k == last + 1
           m == NewNode(k, CreateReference(node, n))
           H == held \cup {k}
<1>1. CASE UNCHANGED <<node, last>>
  BY <1>1 DEF IInv, AddReference, Live
<1>2. ASSUME last < MaxItems, last' = k,
             \/ node' = AddItemToArray(m, c, k)
             \/ \E s \in Name \cup {NoName} : node' = AddItemToObject(m, c, s, k)
      PROVE  IInv'
  <2>1. m = NewNode(last + 1, CreateReference(node, n)) /\ c \notin Under(n)
    BY DEF AddReference
  <2>2. DOMAIN m = DOMAIN node \cup {k} /\ k \in H
    BY DEF NewNode, Live
  <2> HIDE DEF m
  <2>3. /\ Sound(m, H) /\ k \in Id \ DOMAIN node
        /\ c \in DOMAIN m /\ ~m[c].isref /\ Unshared(m, c) /\ c \notin Deleted(m, k)
    BY <1>2, <2>1, ReferenceSound
  <2>4. H \ {k} = held
    BY <2>3 DEF IInv, Sound
  <2>5. Sound(node', held) /\ DOMAIN node' = DOMAIN m
    <3> HIDE DEF k, H
    <3>1. CASE node' = AddItemToArray(m, c, k)
      BY <2>2, <2>3, <2>4, <3>1, AddSound, AddDomain
    <3>2. ASSUME NEW s \in Name \cup {NoName}, node' = AddItemToObject(m, c, s, k)
          PROVE  Sound(node', held) /\ DOMAIN node' = DOMAIN m
      BY <2>2, <2>3, <2>4, <3>2, AddObjectSound
    <3> QED
      BY <1>2, <3>1, <3>2
  <2>6. held' = held
    BY DEF AddReference
  <2>7. last' \in 0 .. MaxItems /\ Live' \subseteq 1 .. last'
    BY <1>2, <2>2, <2>5, ItemsAssumption DEF IInv, Live
  <2> QED
    BY <2>5, <2>6, <2>7 DEF IInv
<1> QED
  BY <1>1, <1>2 DEF AddReference

\* cJSON_DetachItemFromArray, cJSON_DeleteItemFromArray and ...FromObject keep the
\* invariant.
LEMMA TakeOutInv ==
  ASSUME IInv, NEW c \in Containers, NEW i \in Places(c),
         DetachItemFrom(c, i) \/ DeleteItemFrom(c, i)
  PROVE  IInv'
<1> DEFINE n == List(node, c)[i]
<1>1. /\ Sound(node, held) /\ c \in DOMAIN node /\ ~node[c].isref /\ Unshared(node, c)
      /\ i \in DOMAIN List(node, c)
  BY ContainerIs, PlacesIn DEF IInv
<1>2. /\ Sound(DetachItem(node, c, i), held \cup {n})
      /\ DOMAIN DetachItem(node, c, i) = DOMAIN node
      /\ (\A r \in DOMAIN node : node[r].isref => node[r].of \notin Below(node, n)) =>
           /\ Sound(Delete(DetachItem(node, c, i), n), held)
           /\ DOMAIN Delete(DetachItem(node, c, i), n) \subseteq DOMAIN node
  BY <1>1, TakeOutSound
<1>3. CASE DetachItemFrom(c, i)
  <2>1. node' = DetachItem(node, c, i) /\ held' = held \cup {n} /\ last' = last
    BY <1>3 DEF DetachItemFrom
  <2> QED
    BY <1>2, <2>1 DEF IInv, Live
<1>4. CASE DeleteItemFrom(c, i)
  <2>1. /\ node' = Delete(DetachItem(node, c, i), n) /\ held' = held /\ last' = last
        /\ Untouched(n)
    BY <1>4 DEF DeleteItemFrom
  <2>2. n \in Live
    BY <1>1, PlaceBefore DEF Live
  <2>3. \A r \in DOMAIN node : node[r].isref => node[r].of \notin Below(node, n)
    BY <2>1, <2>2, UntouchedIs
  <2> QED
    BY <1>2, <2>1, <2>3 DEF IInv, Live
<1> QED
  BY <1>3, <1>4

\* cJSON_ReplaceItemInArray and ...InObject keep the invariant.
LEMMA ReplaceInv ==
  ASSUME IInv, NEW c \in Containers, NEW i \in Places(c), NEW n \in held,
         ReplaceItemIn(c, i, n)
  PROVE  IInv'
<1>1. /\ Sound(node, held) /\ c \in DOMAIN node /\ ~node[c].isref /\ Unshared(node, c)
      /\ i \in DOMAIN List(node, c)
  BY ContainerIs, PlacesIn DEF IInv
<1>2. c \notin Deleted(node, n) /\ n \in DOMAIN node
  BY HeldIs DEF ReplaceItemIn
<1>3. \A r \in DOMAIN node : node[r].isref => node[r].of \notin Below(node, List(node, c)[i])
  <2>1. List(node, c)[i] \in Live
    BY <1>1, PlaceBefore DEF Live
  <2> QED
    BY <2>1, UntouchedIs DEF ReplaceItemIn
<1>4. Sound(node', held \ {n}) /\ DOMAIN node' \subseteq DOMAIN node
  <2>1. CASE node' = ReplaceItem(node, c, i, n)
    BY <1>1, <1>2, <1>3, <2>1, ReplaceSound
  <2>2. ASSUME NEW t \in Name \cup {NoName},
               node' = ReplaceItem([node EXCEPT ![n].string = t], c, i, n)
        PROVE  Sound(node', held \ {n}) /\ DOMAIN node' \subseteq DOMAIN node
    <3> DEFINE m == [node EXCEPT ![n].string = t]
    <3>1. Renamed(node, m) /\ DOMAIN m = DOMAIN node /\ node' = ReplaceItem(m, c, i, n)
      BY <1>1, <1>2, <2>2, StringSet
    <3> HIDE DEF m
    <3>2. Sound(m, held) /\ Deleted(m, n) = Deleted(node, n)
      BY <1>1, <1>2, <3>1, RenameSound
    <3>3. \A x \in DOMAIN node : m[x].isref = node[x].isref /\ m[x].of = node[x].of
      BY <3>1 DEF Renamed, Rewired
    <3>4. Unshared(m, c) /\ ~m[c].isref /\ c \in DOMAIN m
      BY <1>1, <3>1, <3>3 DEF Unshared
    <3>5. /\ List(m, c) = List(node, c)
          /\ \A x \in DOMAIN node : Below(m, x) = Below(node, x)
      BY <1>1, <3>1, SameList
    <3>6. List(node, c)[i] \in DOMAIN node
      BY <1>1, PlaceBefore
    <3>7. \A r \in DOMAIN m : m[r].isref => m[r].of \notin Below(m, List(m, c)[i])
      BY <1>3, <3>1, <3>3, <3>5, <3>6
    <3>8. i \in DOMAIN List(m, c) /\ c \notin Deleted(m, n)
      BY <1>1, <1>2, <3>2, <3>5
    <3> QED
      BY <3>1, <3>2, <3>4, <3>7, <3>8, ReplaceSound
  <2> QED
    BY <2>1, <2>2 DEF ReplaceItemIn
<1> QED
  BY <1>4 DEF IInv, ReplaceItemIn, Live

\* cJSON_Delete of a held item keeps the invariant.
LEMMA DeleteRootInv ==
  ASSUME IInv, NEW n \in held, DeleteRoot(n) PROVE IInv'
<1>1. n \in Live /\ Deleted(node, n) = Below(node, n)
  BY HeldIs DEF Live, Under, Below
<1>2. \A r \in DOMAIN node : node[r].isref => node[r].of \notin Deleted(node, n)
  BY <1>1, UntouchedIs DEF DeleteRoot
<1>3. Sound(Delete(node, n), held \ {n}) /\ DOMAIN Delete(node, n) \subseteq DOMAIN node
  BY <1>2, DeleteSound DEF IInv
<1> QED
  BY <1>3 DEF IInv, DeleteRoot, Live

\* cJSON_CreateIntArray keeps the invariant: it makes three items, puts the second in
\* the first and the third behind the second.
LEMMA CreateIntArrayInv ==
  ASSUME IInv, CreateIntArray PROVE IInv'
<1> DEFINE a == last + 1
           one == a + 1
           two == a + 2
           array == NewItem("array")
           leaf == NewItem("leaf")
           m1 == [x \in DOMAIN node \cup {a} |-> IF x = a THEN array ELSE node[x]]
           m2 == [x \in DOMAIN m1 \cup {one} |-> IF x = one THEN leaf ELSE m1[x]]
           m3 == [x \in DOMAIN m2 \cup {two} |-> IF x = two THEN leaf ELSE m2[x]]
           m4 == [m3 EXCEPT ![a].child = one]
           m5 == SuffixObject(m4, one, two)
           H1 == held \cup {a}
           H2 == H1 \cup {one}
           H3 == H2 \cup {two}
<1>1. /\ Sound(node, held) /\ Typed(node) /\ last \in Nat /\ MaxItems \in Nat
      /\ Live \subseteq 1 .. last /\ last + 3 <= MaxItems
      /\ held \subseteq DOMAIN node
  BY ItemsAssumption DEF IInv, CreateIntArray, Sound
<1>2. /\ a \in Id \ DOMAIN node /\ one \in Id \ (DOMAIN node \cup {a})
      /\ two \in Id \ ((DOMAIN node \cup {a}) \cup {one})
  BY <1>1 DEF Id, Live
<1>3. a # one /\ a # two /\ one # two
  BY <1>1
<1>4. \A D : /\ array \in ItemSet(D) /\ leaf \in ItemSet(D)
             /\ array.next = 0 /\ array.prev = 0 /\ ~array.isref /\ array.child = 0
             /\ leaf.next = 0 /\ leaf.prev = 0 /\ ~leaf.isref /\ leaf.child = 0
  BY DEF NewItem, ItemSet
<1>5. node' = m5
  <2>1. m3 = [x \in Live \cup {a, one, two} |->
                IF x = a THEN array ELSE IF x \in Live THEN node[x] ELSE leaf]
    <3> SUFFICES ASSUME NEW x \in Live \cup {a, one, two}
                 PROVE  m3[x] = IF x = a THEN array ELSE IF x \in Live THEN node[x] ELSE leaf
      BY DEF Live
    <3> HIDE DEF array, leaf, a, one, two
    <3> QED
      BY <1>2, <1>3 DEF Live
  <2> QED
    BY <2>1 DEF CreateIntArray
<1>6. last' = last + 3 /\ held' = H1
  BY DEF CreateIntArray
<1> HIDE DEF array, leaf, a, one, two
<1>7. DOMAIN m1 = DOMAIN node \cup {a} /\ m1[a] = array
      /\ \A x \in DOMAIN node : m1[x] = node[x]
  BY <1>2
<1>8. Sound(m1, H1)
  <2>1. m1 = [x \in DOMAIN node \cup {a} |-> IF x = a THEN NewItem("array") ELSE node[x]]
    BY DEF array
  <2>2. Sound(node, held) /\ a \in Id \ DOMAIN node /\ "array" \in Types \cup {"array", "leaf"}
    BY <1>1, <1>2
  <2> HIDE DEF m1
  <2>3. Sound(m1, held \cup {a})
    BY <2>1, <2>2, NewItemSound
  <2> QED
    BY <2>3
<1>9. m2 = [x \in DOMAIN m1 \cup {one} |-> IF x = one THEN leaf ELSE m1[x]]
  OBVIOUS
<1> HIDE DEF m1, H1
<1>10. /\ DOMAIN m2 = (DOMAIN node \cup {a}) \cup {one} /\ m2[one] = leaf /\ m2[a] = array
       /\ \A x \in DOMAIN node : m2[x] = node[x]
  BY <1>2, <1>3, <1>7
<1>11. Sound(m2, H2)
  <2>1. m2 = [x \in DOMAIN m1 \cup {one} |-> IF x = one THEN NewItem("leaf") ELSE m1[x]]
    BY <1>9 DEF leaf
  <2>2. one \in Id \ DOMAIN m1 /\ "leaf" \in Types \cup {"array", "leaf"}
    BY <1>2, <1>7
  <2> HIDE DEF m2
  <2>3. Sound(m2, H1 \cup {one})
    BY <1>8, <2>1, <2>2, NewItemSound
  <2> QED
    BY <2>3
<1>12. m3 = [x \in DOMAIN m2 \cup {two} |-> IF x = two THEN leaf ELSE m2[x]]
  OBVIOUS
<1> HIDE DEF m2, H2
<1>13. /\ DOMAIN m3 = ((DOMAIN node \cup {a}) \cup {one}) \cup {two}
       /\ m3[two] = leaf /\ m3[one] = leaf /\ m3[a] = array
       /\ \A x \in DOMAIN node : m3[x] = node[x]
  BY <1>2, <1>3, <1>10
<1>14. Sound(m3, H3)
  <2>1. m3 = [x \in DOMAIN m2 \cup {two} |-> IF x = two THEN NewItem("leaf") ELSE m2[x]]
    BY <1>12 DEF leaf
  <2>2. two \in Id \ DOMAIN m2 /\ "leaf" \in Types \cup {"array", "leaf"}
    BY <1>2, <1>10
  <2> HIDE DEF m3
  <2>3. Sound(m3, H2 \cup {two})
    BY <1>11, <2>1, <2>2, NewItemSound
  <2> QED
    BY <2>3
<1> HIDE DEF m3, H3
<1>15. /\ a \in DOMAIN m3 /\ ~m3[a].isref /\ Unshared(m3, a) /\ m3[a].child = 0
  <2>1. ASSUME NEW r \in DOMAIN m3, m3[r].isref PROVE m3[r].of # a
    <3>1. r \in DOMAIN node
      BY <1>4, <1>13, <2>1
    <3>2. node[r].of \in DOMAIN node
      BY <1>1, <1>13, <2>1, <3>1 DEF Sound, Shares
    <3> QED
      BY <1>2, <1>13, <3>1, <3>2
  <2> QED
    BY <1>4, <1>13, <2>1 DEF Unshared
<1>16. one \in H3 /\ two \in H3 /\ Deleted(m3, one) = {one}
  <2>1. m3[one].next = 0 /\ ~OwnsChild(m3, one) /\ one \in DOMAIN m3
    BY <1>4, <1>13 DEF OwnsChild
  <2> QED
    BY <1>14, <2>1, LoneSound DEF Sound, H3, H2
<1>17. Sound(m4, H3 \ {one})
  <2>1. m4 = AddItemToArray(m3, a, one)
    BY <1>15 DEF AddItemToArray
  <2> HIDE DEF m4
  <2> QED
    BY <1>3, <1>14, <1>15, <1>16, <2>1, AddSound
<1>18. /\ DOMAIN m4 = DOMAIN m3
       /\ \A x \in DOMAIN m3 : /\ m4[x].child = (IF x = a THEN one ELSE m3[x].child)
                               /\ m4[x].next = m3[x].next /\ m4[x].prev = m3[x].prev
                               /\ m4[x].isref = m3[x].isref /\ m4[x].of = m3[x].of
  <2> DEFINE D == DOMAIN m3
  <2>1. m3 \in [D -> ItemSet(D)] /\ one \in D \cup {0} /\ a \in D
    BY <1>13, <1>14 DEF Sound, Typed
  <2>2. \A x \in DOMAIN m3 : /\ m4[x].child = (IF x = a THEN one ELSE m3[x].child)
                             /\ m4[x].next = m3[x].next /\ m4[x].prev = m3[x].prev
                             /\ m4[x].isref = m3[x].isref /\ m4[x].of = m3[x].of
    BY <2>1 DEF ItemSet
  <2> QED
    BY <2>2
<1> HIDE DEF m4
<1>19. /\ Typed(m4) /\ m4 \in [DOMAIN m4 -> ItemSet(DOMAIN m4)]
       /\ a \in DOMAIN m4 /\ one \in DOMAIN m4 /\ two \in DOMAIN m4
       /\ m4[a].child = one /\ ~m4[a].isref /\ one # 0
       /\ m4[one].next = 0 /\ m4[one].prev = 0 /\ m4[two].next = 0 /\ m4[two].prev = 0
       /\ ~OwnsChild(m4, two)
  <2>1. Typed(m4)
    BY <1>17 DEF Sound
  <2>2. one # 0
    BY <1>13, <1>18, <2>1, Fields
  <2> QED
    BY <1>3, <1>4, <1>13, <1>18, <2>1, <2>2 DEF Typed, OwnsChild
<1>20. InsertPlace(m4, a, one) /\ Behind(m4, a, one) = 0
  BY <1>19, DeletedIs DEF InsertPlace, Behind
<1>21. /\ m5 \in [DOMAIN m4 -> ItemSet(DOMAIN m4)]
       /\ \A y \in DOMAIN m4 : /\ m5[y].next = (IF y = one THEN two ELSE m4[y].next)
                               /\ m5[y].prev = (IF y = two THEN one ELSE m4[y].prev)
                               /\ m5[y].child = m4[y].child
                               /\ m5[y].isref = m4[y].isref /\ m5[y].of = m4[y].of
  <2>1. m5 = SuffixObject(m4, one, two)
    OBVIOUS
  <2> HIDE DEF m5
  <2> QED
    BY <1>19, <2>1, SuffixSet
<1> HIDE DEF m5
<1>22. Inserted(m4, m5, a, one, two)
  <2>1. DOMAIN m5 = DOMAIN m4 /\ 0 \notin DOMAIN m4
    BY <1>19, <1>21, FiniteMemory
  <2> QED
    BY <1>3, <1>19, <1>20, <1>21, <2>1 DEF Inserted, Rewired
<1>23. Sound(m5, (H3 \ {one}) \ {two})
  <2>1. Unshared(m4, a)
    BY <1>15, <1>18 DEF Unshared
  <2>2. Deleted(m4, two) = {two}
    BY <1>19, LoneSound
  <2>3. two \in H3 \ {one}
    BY <1>3, <1>16
  <2> QED
    BY <1>3, <1>17, <1>20, <1>22, <2>1, <2>2, <2>3, InsertSound
<1>24. (H3 \ {one}) \ {two} = held'
  BY <1>1, <1>2, <1>3, <1>6 DEF H3, H2, H1
<1>25. Live' \subseteq 1 .. last' /\ last' \in 0 .. MaxItems
  <2>1. DOMAIN m5 = ((DOMAIN node \cup {a}) \cup {one}) \cup {two}
    BY <1>13, <1>18, <1>21
  <2>2. a \in 1 .. last + 3 /\ one \in 1 .. last + 3 /\ two \in 1 .. last + 3
        /\ 1 .. last \subseteq 1 .. last + 3 /\ last + 3 \in 0 .. MaxItems
    BY <1>1 DEF a, one, two
  <2> QED
    BY <1>1, <1>5, <1>6, <2>1, <2>2 DEF Live
<1> QED
  BY <1>5, <1>23, <1>24, <1>25 DEF IInv

\* Every step keeps the invariant.
LEMMA NextInv == IInv /\ [Next]_vars => IInv'
<1> SUFFICES ASSUME IInv, [Next]_vars PROVE IInv'
  OBVIOUS
<1>1. CASE UNCHANGED vars
  BY <1>1 DEF IInv, vars, Live
<1>2. CASE Next
  BY <1>2, CreateItemInv, CreateIntArrayInv, AddInv, AddReferenceInv, TakeOutInv, ReplaceInv,
     DeleteRootInv DEF Next
<1> QED
  BY <1>1, <1>2

\* The memory is always sound.
LEMMA AlwaysSound == Spec => []IInv
BY InitInv, NextInv, PTL DEF Spec

\* Every link leads to an item that is still there, the lists can be walked both ways,
\* and what the caller holds is in no list, whatever was added, detached, replaced or
\* deleted before.
THEOREM LinksAreMirrored == Spec => []LinksMirror
<1>1. IInv => LinksMirror
  <2> SUFFICES ASSUME IInv PROVE LinksMirror
    OBVIOUS
  <2>1. /\ Typed(node) /\ Linked(node) /\ held \subseteq Live /\ \A h \in held : Loose(node, h)
    BY DEF IInv, Sound, Live
  <2>2. TypeOK
    <3> SUFFICES ASSUME NEW n \in Live
                 PROVE  /\ node[n].string \in Name \cup {NoName}
                        /\ {node[n].child, node[n].next, node[n].prev} \subseteq Live \cup {0}
      BY <2>1 DEF TypeOK, IInv
    <3>1. node[n] \in ItemSet(Live)
      BY <2>1 DEF Typed, Live
    <3> QED
      BY <3>1 DEF ItemSet
  <2> QED
    BY <2>1, <2>2 DEF LinksMirror, Linked, Loose, Live
<1> QED
  BY <1>1, AlwaysSound, PTL

\* Deleting all that the caller holds frees every item and none twice: what can be
\* reached from the held items is all there is, and to every item leads one link, or
\* none and the caller holds it.
THEOREM EverythingIsGivenBack == Spec => []AllGivenBack
<1>1. IInv => AllGivenBack
  <2> SUFFICES ASSUME IInv PROVE AllGivenBack
    OBVIOUS
  <2>1. /\ Typed(node) /\ Linked(node) /\ OneOwner(node) /\ held \subseteq DOMAIN node
        /\ Spanned(node, held) /\ \A h \in held : Loose(node, h)
    BY DEF IInv, Sound
  <2>2. \A n \in held : /\ Deleted(node, n) \subseteq DOMAIN node /\ n \in Deleted(node, n)
                        /\ \A x \in Deleted(node, n) : \A y : Leads(node, x, y) => y \in Deleted(node, n)
    BY <2>1, DeletedIs
  <2>3. UNION {Deleted(node, n) : n \in held} = Live
    <3> DEFINE S == UNION {Deleted(node, n) : n \in held}
    <3>1. S \in SUBSET DOMAIN node /\ held \subseteq S
      BY <2>2
    <3>2. \A x \in S : \A y : Leads(node, x, y) => y \in S
      BY <2>2
    <3> HIDE DEF S
    <3>3. S = DOMAIN node
      BY <2>1, <3>1, <3>2 DEF Spanned
    <3> QED
      BY <3>3 DEF S, Live
  <2>4. ASSUME NEW n \in held, NEW k \in held, n # k
        PROVE  Deleted(node, n) \cap Deleted(node, k) = {}
    \* What is below both would be led to by one item below both, and so on up to n or k.
    <3> DEFINE N == Deleted(node, n)
               K == Deleted(node, k)
               S == {x \in N : x \notin K}
    <3>1. N \subseteq DOMAIN node /\ K \subseteq DOMAIN node
      BY <2>2
    <3>2. n \in S
      <4>1. ASSUME n \in K PROVE FALSE
        <5>1. \E x \in K : Leads(node, x, n)
          BY <2>1, <2>4, <4>1, CameBy
        <5> QED
          BY <2>1, <3>1, <5>1, LooseEnd
      <4> QED
        BY <2>2, <4>1
    <3>3. ASSUME NEW x \in S \cap DOMAIN node, NEW y, Leads(node, x, y) PROVE y \in S
      <4>1. y \in N /\ y \in DOMAIN node
        BY <2>2, <3>1, <3>3
      <4>2. ASSUME y \in K PROVE FALSE
        <5>1. y # k
          BY <2>1, <3>3, LooseEnd
        <5>2. PICK z \in K : Leads(node, z, y)
          BY <2>1, <4>2, <5>1, CameBy
        <5>3. z = x
          BY <2>1, <3>1, <3>3, <5>2, OneLink
        <5> QED
          BY <3>3, <5>2, <5>3
      <4> QED
        BY <4>1, <4>2
    <3>4. N \subseteq S
      <4>1. n \in DOMAIN node
        BY <2>1
      <4> HIDE DEF S
      <4> QED
        BY <2>1, <3>2, <3>3, <4>1, DeletedIs
    <3> QED
      BY <3>4
  <2>5. ASSUME NEW n \in Live, NEW l \in LinksTo(n)
        PROVE  /\ l[1] \in DOMAIN node /\ l[2] \in {"next", "child"} /\ l = <<l[1], l[2]>>
               /\ Leads(node, l[1], n)
               /\ l[2] = "next" => node[n].prev = l[1] /\ l[1] # 0
               /\ l[2] = "child" => node[n].prev = 0
    <3>1. /\ l[1] \in DOMAIN node /\ l[2] \in {"next", "child"} /\ l = <<l[1], l[2]>>
          /\ IF l[2] = "next" THEN node[l[1]].next = n
             ELSE OwnsChild(node, l[1]) /\ node[l[1]].child = n
      BY DEF LinksTo, Live
    <3>2. n # 0 /\ l[1] # 0
      BY <2>1, <3>1, Fields DEF Live
    <3> QED
      BY <2>1, <3>1, <3>2 DEF Leads, OwnsChild, Linked
  <2>6. ASSUME NEW n \in held PROVE LinksTo(n) = {}
    <3>1. n \in DOMAIN node /\ Loose(node, n) /\ n \in Live
      BY <2>1 DEF Live
    <3> QED
      BY <2>1, <2>5, <3>1, LooseEnd
  <2>7. ASSUME NEW n \in Live, NEW l1 \in LinksTo(n), NEW l2 \in LinksTo(n) PROVE l1 = l2
    <3>1. l1[1] = l2[1]
      BY <2>1, <2>5, OneLink
    <3>2. l1[2] = l2[2]
      BY <2>5
    <3> QED
      BY <2>5, <3>1, <3>2
  <2> QED
    BY <2>3, <2>4, <2>6, <2>7 DEF AllGivenBack
<1> QED
  BY <1>1, AlwaysSound, PTL
=============================================================================
