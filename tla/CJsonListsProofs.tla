--------------------------- MODULE CJsonListsProofs ---------------------------
(***************************************************************************)
(* The links of CJsonItems implement the lists of CJsonLists: what a       *)
(* function of cjson.c does to the links is the one operation on one       *)
(* sequence that its name promises, and every other list stays.            *)
(***************************************************************************)
EXTENDS CJsonItemsProofs

-----------------------------------------------------------------------------
(* Lists as sequences. *)

\* s is what a walk by next from c comes by.
Chained(m, c, s) ==
  \E n \in Nat :
    /\ s \in [1 .. n -> DOMAIN m]
    /\ n = 0 <=> c = 0
    /\ n # 0 => s[1] = c /\ m[s[n]].next = 0
    /\ \A i \in 1 .. n - 1 : m[s[i]].next = s[i + 1]

\* The list of an item is what a walk comes by.
LEMMA ListChained ==
  ASSUME NEW m, NEW H, Sound(m, H), NEW a \in DOMAIN m, ~m[a].isref
  PROVE  Chained(m, m[a].child, List(m, a))
<1> DEFINE s == List(m, a)
<1>1. \E n \in Nat :
        /\ s \in [1 .. n -> DOMAIN m]
        /\ n = 0 <=> m[a].child = 0
        /\ n # 0 => s[1] = m[a].child /\ m[s[n]].next = 0
        /\ \A i \in 1 .. n - 1 : m[s[i]].next = s[i + 1]
  BY ListIs
<1> HIDE DEF s
<1>2. Chained(m, m[a].child, s)
  BY <1>1 DEF Chained
<1> QED
  BY <1>2 DEF s

\* A walk comes by one sequence only.
LEMMA OneChain ==
  ASSUME NEW m, 0 \notin DOMAIN m, NEW c, NEW s, NEW t, Chained(m, c, s), Chained(m, c, t)
  PROVE  s = t
<1>1. PICK n \in Nat : /\ s \in [1 .. n -> DOMAIN m]
                       /\ n = 0 <=> c = 0
                       /\ n # 0 => s[1] = c /\ m[s[n]].next = 0
                       /\ \A i \in 1 .. n - 1 : m[s[i]].next = s[i + 1]
  BY DEF Chained
<1>2. PICK k \in Nat : /\ t \in [1 .. k -> DOMAIN m]
                       /\ k = 0 <=> c = 0
                       /\ k # 0 => t[1] = c /\ m[t[k]].next = 0
                       /\ \A i \in 1 .. k - 1 : m[t[i]].next = t[i + 1]
  BY DEF Chained
<1> DEFINE G == {i \in Nat : i + 1 <= n /\ i + 1 <= k => s[i + 1] = t[i + 1]}
<1>3. 0 \in G
  BY <1>1, <1>2
<1>4. ASSUME NEW i \in G PROVE i + 1 \in G
  <2> SUFFICES ASSUME (i + 1) + 1 <= n, (i + 1) + 1 <= k PROVE s[(i + 1) + 1] = t[(i + 1) + 1]
    OBVIOUS
  <2>1. i + 1 \in 1 .. n - 1 /\ i + 1 \in 1 .. k - 1
    OBVIOUS
  <2>2. s[i + 1] = t[i + 1]
    BY <2>1
  <2>3. m[s[i + 1]].next = s[(i + 1) + 1] /\ m[t[i + 1]].next = t[(i + 1) + 1]
    BY <1>1, <1>2, <2>1
  <2> QED
    BY <2>2, <2>3
<1>5. G \subseteq Nat
  OBVIOUS
<1> HIDE DEF G
<1>6. G = Nat
  BY <1>3, <1>4, <1>5, Induction
<1>7. \A i \in 1 .. n : i \in 1 .. k => s[i] = t[i]
  <2> SUFFICES ASSUME NEW i \in 1 .. n, i \in 1 .. k PROVE s[i] = t[i]
    OBVIOUS
  <2>1. i - 1 \in G /\ (i - 1) + 1 = i
    BY <1>6
  <2> QED
    BY <2>1 DEF G
<1>8. n = k
  <2>1. ASSUME n < k PROVE FALSE
    <3>1. n # 0 /\ n \in 1 .. n /\ n \in 1 .. k /\ n \in 1 .. k - 1 /\ n + 1 \in 1 .. k
      BY <1>1, <1>2, <2>1
    <3>2. s[n] = t[n]
      BY <1>7, <3>1
    <3>3. m[t[n]].next = t[n + 1] /\ m[s[n]].next = 0
      BY <1>1, <1>2, <3>1
    <3>4. t[n + 1] \in DOMAIN m
      BY <1>2, <3>1
    <3> QED
      BY <3>2, <3>3, <3>4
  <2>2. ASSUME k < n PROVE FALSE
    <3>1. k # 0 /\ k \in 1 .. k /\ k \in 1 .. n /\ k \in 1 .. n - 1 /\ k + 1 \in 1 .. n
      BY <1>1, <1>2, <2>2
    <3>2. s[k] = t[k]
      BY <1>7, <3>1
    <3>3. m[s[k]].next = s[k + 1] /\ m[t[k]].next = 0
      BY <1>1, <1>2, <3>1
    <3>4. s[k + 1] \in DOMAIN m
      BY <1>1, <3>1
    <3> QED
      BY <3>2, <3>3, <3>4
  <2> QED
    BY <2>1, <2>2
<1>9. \A i \in 1 .. n : s[i] = t[i]
  BY <1>7, <1>8
<1> QED
  BY <1>1, <1>2, <1>8, <1>9

\* An item is in one list, at one place.
LEMMA OnePlace ==
  ASSUME NEW m, NEW H, Sound(m, H),
         NEW a \in DOMAIN m, ~m[a].isref, NEW b \in DOMAIN m, ~m[b].isref,
         NEW i \in DOMAIN List(m, a), NEW j \in DOMAIN List(m, b),
         List(m, a)[i] = List(m, b)[j]
  PROVE  a = b /\ i = j
<1> DEFINE s == List(m, a)
           t == List(m, b)
<1>1. Typed(m) /\ Linked(m) /\ OneOwner(m) /\ 0 \notin DOMAIN m
  BY FiniteMemory DEF Sound
<1>2. Chained(m, m[a].child, s) /\ Chained(m, m[b].child, t)
  BY ListChained
<1>3. i \in DOMAIN s /\ j \in DOMAIN t /\ s[i] = t[j]
  OBVIOUS
<1> HIDE DEF s, t
<1>4. PICK n \in Nat : /\ s \in [1 .. n -> DOMAIN m]
                       /\ n = 0 <=> m[a].child = 0
                       /\ n # 0 => s[1] = m[a].child
                       /\ \A k \in 1 .. n - 1 : m[s[k]].next = s[k + 1]
  BY <1>2 DEF Chained
<1>5. PICK l \in Nat : /\ t \in [1 .. l -> DOMAIN m]
                       /\ l = 0 <=> m[b].child = 0
                       /\ l # 0 => t[1] = m[b].child
                       /\ \A k \in 1 .. l - 1 : m[t[k]].next = t[k + 1]
  BY <1>2 DEF Chained
<1>6. n # 0 => m[a].child # 0 /\ m[s[1]].prev = 0
  BY <1>1, <1>4 DEF Linked
<1>7. l # 0 => m[b].child # 0 /\ m[t[1]].prev = 0
  BY <1>1, <1>5 DEF Linked
<1>8. ASSUME NEW k \in 1 .. n - 1 PROVE m[s[k + 1]].prev = s[k] /\ s[k] # 0
  <2>1. k \in 1 .. n /\ k + 1 \in 1 .. n
    BY <1>4
  <2>2. s[k] \in DOMAIN m /\ s[k + 1] \in DOMAIN m /\ m[s[k]].next = s[k + 1]
    BY <1>4, <2>1
  <2> QED
    BY <1>1, <2>2 DEF Linked
<1>9. ASSUME NEW k \in 1 .. l - 1 PROVE m[t[k + 1]].prev = t[k] /\ t[k] # 0
  <2>1. k \in 1 .. l /\ k + 1 \in 1 .. l
    BY <1>5
  <2>2. t[k] \in DOMAIN m /\ t[k + 1] \in DOMAIN m /\ m[t[k]].next = t[k + 1]
    BY <1>5, <2>1
  <2> QED
    BY <1>1, <2>2 DEF Linked
<1> DEFINE G == {p \in Nat : \A q \in Nat :
                   p + 1 <= n /\ q + 1 <= l /\ s[p + 1] = t[q + 1] => a = b /\ p = q}
<1>10. 0 \in G
  <2> SUFFICES ASSUME NEW q \in Nat, 1 <= n, q + 1 <= l, s[1] = t[q + 1] PROVE a = b /\ q = 0
    OBVIOUS
  <2>1. n # 0 /\ l # 0
    OBVIOUS
  <2>2. q = 0
    <3> SUFFICES ASSUME q # 0 PROVE FALSE
      OBVIOUS
    <3>1. q \in 1 .. l - 1
      BY <1>5
    <3>2. m[t[q + 1]].prev # 0
      BY <1>9, <3>1
    <3> QED
      BY <1>6, <2>1, <3>2
  <2>3. m[a].child = m[b].child /\ m[a].child # 0
    BY <1>4, <1>5, <1>6, <2>1, <2>2
  <2> QED
    BY <1>1, <2>2, <2>3 DEF OneOwner
<1>11. ASSUME NEW p \in G PROVE p + 1 \in G
  <2>0. p + 1 \in Nat
    OBVIOUS
  <2> SUFFICES ASSUME NEW q \in Nat, (p + 1) + 1 <= n, q + 1 <= l, s[(p + 1) + 1] = t[q + 1]
               PROVE  a = b /\ p + 1 = q
    <3> HIDE DEF G
    <3>1. ASSUME \A q \in Nat : (p + 1) + 1 <= n /\ q + 1 <= l /\ s[(p + 1) + 1] = t[q + 1]
                  => a = b /\ p + 1 = q
          PROVE  p + 1 \in G
      BY ONLY <2>0, <3>1 DEF G
    <3> QED
      BY <3>1
  <2>1. p \in Nat /\ p + 1 \in 1 .. n - 1 /\ p + 1 <= n
    OBVIOUS
  <2>2. m[s[(p + 1) + 1]].prev = s[p + 1] /\ s[p + 1] # 0
    BY <1>8, <2>1
  <2>3. q # 0
    BY <1>7, <2>2
  <2>4. q \in 1 .. l - 1 /\ q - 1 \in Nat /\ (q - 1) + 1 = q /\ q <= l
    BY <2>3
  <2>5. m[t[q + 1]].prev = t[q]
    BY <1>9, <2>4
  <2>6. s[p + 1] = t[(q - 1) + 1]
    BY <2>2, <2>4, <2>5
  <2>7. a = b /\ p = q - 1
    BY <2>1, <2>4, <2>6
  <2> QED
    BY <2>1, <2>4, <2>7
<1>12. G \subseteq Nat
  OBVIOUS
<1> HIDE DEF G
<1>13. G = Nat
  BY <1>10, <1>11, <1>12, Induction
<1>14. i \in 1 .. n /\ j \in 1 .. l
  BY <1>3, <1>4, <1>5
<1>15. i - 1 \in G /\ j - 1 \in Nat /\ (i - 1) + 1 = i /\ (j - 1) + 1 = j /\ i <= n /\ j <= l
  BY <1>13, <1>14
<1>16. a = b /\ i - 1 = j - 1
  BY <1>3, <1>15 DEF G
<1> QED
  BY <1>14, <1>16

\* A list does not change when its items are there and go on as they did.
LEMMA KeptChain ==
  ASSUME NEW m, NEW m2, NEW c, NEW s, Chained(m, c, s),
         \A i \in DOMAIN s : s[i] \in DOMAIN m2 /\ m2[s[i]].next = m[s[i]].next
  PROVE  Chained(m2, c, s)
<1>1. PICK n \in Nat : /\ s \in [1 .. n -> DOMAIN m]
                       /\ n = 0 <=> c = 0
                       /\ n # 0 => s[1] = c /\ m[s[n]].next = 0
                       /\ \A i \in 1 .. n - 1 : m[s[i]].next = s[i + 1]
  BY DEF Chained
<1>2. DOMAIN s = 1 .. n /\ s \in [1 .. n -> DOMAIN m2]
  BY <1>1
<1>3. n # 0 => m2[s[n]].next = 0
  <2> SUFFICES ASSUME n # 0 PROVE m2[s[n]].next = 0
    OBVIOUS
  <2>1. n \in 1 .. n
    OBVIOUS
  <2> QED
    BY <1>1, <1>2, <2>1
<1>4. ASSUME NEW i \in 1 .. n - 1 PROVE m2[s[i]].next = s[i + 1]
  <2>1. i \in 1 .. n
    OBVIOUS
  <2> QED
    BY <1>1, <1>2, <2>1
<1> QED
  BY <1>1, <1>2, <1>3, <1>4 DEF Chained

\* The list of an item as a sequence: what it holds, how it goes on, that nothing in it
\* is held and nothing twice.
LEMMA ListFacts ==
  ASSUME NEW m, NEW H, Sound(m, H), NEW a \in DOMAIN m, ~m[a].isref, NEW s, s = List(m, a)
  PROVE  /\ Len(s) \in Nat /\ s \in [1 .. Len(s) -> DOMAIN m]
         /\ Len(s) = 0 <=> m[a].child = 0
         /\ Len(s) # 0 => s[1] = m[a].child /\ m[s[Len(s)]].next = 0
         /\ \A i \in 1 .. Len(s) - 1 : m[s[i]].next = s[i + 1]
         /\ \A i \in 1 .. Len(s) : s[i] \notin H
         /\ \A i, j \in 1 .. Len(s) : s[i] = s[j] => i = j
<1>1. PICK n \in Nat : /\ s \in [1 .. n -> DOMAIN m]
                       /\ n = 0 <=> m[a].child = 0
                       /\ n # 0 => s[1] = m[a].child /\ m[s[n]].next = 0
                       /\ \A i \in 1 .. n - 1 : m[s[i]].next = s[i + 1]
  BY ListChained DEF Chained
<1>2. Len(s) = n /\ DOMAIN s = 1 .. n
  BY <1>1
<1>3. \A i \in 1 .. n : s[i] \notin H
  BY <1>2, PlaceBefore
<1>4. \A i, j \in 1 .. n : s[i] = s[j] => i = j
  BY <1>2, OnePlace
<1> QED
  BY <1>1, <1>2, <1>3, <1>4

-----------------------------------------------------------------------------
(* The lists of a memory. *)

\* The lists of a memory are known by walking.
LEMMA KidsAre ==
  ASSUME NEW m, NEW H, Sound(m, H), NEW K, K = [x \in DOMAIN m |-> K[x]],
         \A x \in DOMAIN m : m[x].isref => K[x] = <<>>,
         \A x \in DOMAIN m : ~m[x].isref => Chained(m, m[x].child, K[x])
  PROVE  Kids(m) = K
<1>1. 0 \notin DOMAIN m
  BY FiniteMemory DEF Sound
<1>2. ASSUME NEW x \in DOMAIN m PROVE Kids(m)[x] = K[x]
  <2>1. CASE m[x].isref
    BY <2>1 DEF Kids
  <2>2. CASE ~m[x].isref
    <3>1. Chained(m, m[x].child, K[x]) /\ Chained(m, m[x].child, List(m, x))
      BY <2>2, ListChained
    <3>2. K[x] = List(m, x)
      BY <1>1, <3>1, OneChain
    <3> QED
      BY <2>2, <3>2 DEF Kids
  <2> QED
    BY <2>1, <2>2
<1>3. Kids(m) = [x \in DOMAIN m |-> Kids(m)[x]]
  BY DEF Kids
<1> QED
  BY <1>2, <1>3

\* s with n put at a place, and with what is at a place taken out.
PutAt(s, i, n) ==
  [k \in 1 .. Len(s) + 1 |-> IF k < i THEN s[k] ELSE IF k = i THEN n ELSE s[k - 1]]
CutAt(s, i) == [k \in 1 .. Len(s) - 1 |-> IF k < i THEN s[k] ELSE s[k + 1]]

\* To put a held item behind another one changes one list.
LEMMA InsertKids ==
  ASSUME NEW m, NEW H, Sound(m, H), NEW a \in DOMAIN m, ~m[a].isref, NEW n \in H,
         NEW i \in 1 .. Len(List(m, a)) + 1,
         NEW p, p = (IF i = 1 THEN 0 ELSE List(m, a)[i - 1]),
         NEW m2, Inserted(m, m2, a, p, n), NEW H2, Sound(m2, H2)
  PROVE  Kids(m2) = [Kids(m) EXCEPT ![a] = PutAt(List(m, a), i, n)]
<1> DEFINE D == DOMAIN m
           s == List(m, a)
           t == PutAt(s, i, n)
           K == [Kids(m) EXCEPT ![a] = t]
<1>1. /\ DOMAIN m2 = D /\ 0 \notin D /\ H \subseteq D
      /\ \A x \in D : /\ m2[x].isref = m[x].isref
                      /\ m2[x].child = IF x = a /\ p = 0 THEN n ELSE m[x].child
                      /\ m2[x].next = IF x = n THEN Behind(m, a, p)
                                      ELSE IF x = p THEN n ELSE m[x].next
  BY FiniteMemory DEF Inserted, Rewired, Sound
<1>2. s = List(m, a)
  OBVIOUS
<1> HIDE DEF s
<1>3. /\ Len(s) \in Nat /\ s \in [1 .. Len(s) -> D] /\ DOMAIN s = 1 .. Len(s)
      /\ Len(s) = 0 <=> m[a].child = 0
      /\ Len(s) # 0 => s[1] = m[a].child /\ m[s[Len(s)]].next = 0
      /\ \A k \in 1 .. Len(s) - 1 : m[s[k]].next = s[k + 1]
      /\ \A k \in 1 .. Len(s) : s[k] \notin H
      /\ \A k, j \in 1 .. Len(s) : s[k] = s[j] => k = j
  <2>1. /\ Len(s) \in Nat /\ s \in [1 .. Len(s) -> D]
        /\ Len(s) = 0 <=> m[a].child = 0
        /\ Len(s) # 0 => s[1] = m[a].child /\ m[s[Len(s)]].next = 0
        /\ \A k \in 1 .. Len(s) - 1 : m[s[k]].next = s[k + 1]
        /\ \A k \in 1 .. Len(s) : s[k] \notin H
        /\ \A k, j \in 1 .. Len(s) : s[k] = s[j] => k = j
    BY <1>2, ListFacts
  <2> QED
    BY <2>1
<1>4. i \in Nat /\ i >= 1 /\ i <= Len(s) + 1 /\ p = (IF i = 1 THEN 0 ELSE s[i - 1])
  BY <1>2, <1>3
<1>5. /\ i # 1 => i - 1 \in 1 .. Len(s) /\ p \in D /\ p # 0 /\ p = s[i - 1]
      /\ i = 1 => p = 0
  BY <1>1, <1>3, <1>4
<1>6. ASSUME NEW x \in D, x # a, ~m[x].isref
      PROVE  Chained(m2, m2[x].child, List(m, x))
  <2>1. Chained(m, m[x].child, List(m, x))
    BY <1>6, ListChained
  <2>2. ASSUME NEW j \in DOMAIN List(m, x)
        PROVE  List(m, x)[j] \in DOMAIN m2 /\ m2[List(m, x)[j]].next = m[List(m, x)[j]].next
    <3>1. List(m, x)[j] \in D /\ List(m, x)[j] \notin H
      BY <1>6, <2>2, PlaceBefore
    <3>2. List(m, x)[j] # p
      <4>1. CASE i = 1
        BY <1>1, <1>5, <3>1, <4>1
      <4>2. CASE i # 1
        <5>1. i - 1 \in DOMAIN List(m, a) /\ p = List(m, a)[i - 1]
          BY <1>2, <1>3, <1>5, <4>2
        <5> QED
          BY <1>6, <2>2, <5>1, OnePlace
      <4> QED
        BY <4>1, <4>2
    <3> QED
      BY <1>1, <3>1, <3>2
  <2>3. m2[x].child = m[x].child
    BY <1>1, <1>6
  <2> QED
    BY <2>1, <2>2, <2>3, KeptChain
<1>7. t = [k \in 1 .. Len(s) + 1 |-> IF k < i THEN s[k] ELSE IF k = i THEN n ELSE s[k - 1]]
  BY DEF PutAt
<1> HIDE DEF t
<1>8. ASSUME NEW k \in 1 .. Len(s) + 1
      PROVE  /\ k < i => k \in 1 .. Len(s) /\ t[k] = s[k]
             /\ k = i => t[k] = n
             /\ k > i => k - 1 \in 1 .. Len(s) /\ t[k] = s[k - 1]
  BY <1>3, <1>4, <1>7
<1>9. \A k \in 1 .. Len(s) : k # i - 1 => m2[s[k]].next = m[s[k]].next
  <2> SUFFICES ASSUME NEW k \in 1 .. Len(s), k # i - 1 PROVE m2[s[k]].next = m[s[k]].next
    OBVIOUS
  <2>1. s[k] \in D /\ s[k] # n
    BY <1>3
  <2>2. s[k] # p
    BY <1>1, <1>3, <1>5, <2>1
  <2> QED
    BY <1>1, <2>1, <2>2
<1>10. n \in D /\ m2[n].next = Behind(m, a, p) /\ n # 0
  BY <1>1
<1>11. IF i = Len(s) + 1 THEN m2[n].next = 0 ELSE m2[n].next = s[i]
  <2>1. CASE i = 1
    BY <1>3, <1>5, <1>10, <2>1 DEF Behind
  <2>2. CASE i # 1
    <3>1. m2[n].next = m[s[i - 1]].next
      BY <1>5, <1>10, <2>2 DEF Behind
    <3>2. CASE i = Len(s) + 1
      <4>1. i - 1 = Len(s) /\ Len(s) # 0
        BY <1>3, <1>4, <2>2, <3>2
      <4> QED
        BY <1>3, <3>1, <3>2, <4>1
    <3>3. CASE i # Len(s) + 1
      <4>1. i - 1 \in 1 .. Len(s) - 1 /\ (i - 1) + 1 = i
        BY <1>3, <1>4, <2>2, <3>3
      <4>2. m[s[i - 1]].next = s[(i - 1) + 1]
        BY <1>3, <4>1
      <4> QED
        BY <3>1, <3>3, <4>1, <4>2
    <3> QED
      BY <3>2, <3>3
  <2> QED
    BY <2>1, <2>2
<1>12. t \in [1 .. Len(s) + 1 -> D]
  <2>1. ASSUME NEW k \in 1 .. Len(s) + 1 PROVE t[k] \in D
    <3>1. CASE k < i
      BY <1>3, <1>8, <3>1
    <3>2. CASE k = i
      BY <1>8, <1>10, <3>2
    <3>3. CASE k > i
      BY <1>3, <1>8, <3>3
    <3> QED
      BY <1>4, <3>1, <3>2, <3>3
  <2> QED
    BY <1>7, <2>1
<1>13. t[1] = m2[a].child /\ m2[a].child # 0
  <2>1. 1 \in 1 .. Len(s) + 1
    BY <1>3
  <2>2. CASE i = 1
    BY <1>1, <1>5, <1>8, <1>10, <2>1, <2>2
  <2>3. CASE i # 1
    <3>1. 1 < i /\ Len(s) # 0
      BY <1>3, <1>4, <2>3
    <3>2. t[1] = s[1] /\ s[1] \in D
      BY <1>3, <1>8, <2>1, <3>1
    <3> QED
      BY <1>1, <1>3, <1>5, <2>3, <3>1, <3>2
  <2> QED
    BY <2>2, <2>3
<1>14. m2[t[Len(s) + 1]].next = 0
  <2>1. Len(s) + 1 \in 1 .. Len(s) + 1
    BY <1>3
  <2>2. CASE i = Len(s) + 1
    BY <1>8, <1>11, <2>1, <2>2
  <2>3. CASE i # Len(s) + 1
    <3>1. Len(s) + 1 > i /\ Len(s) # i - 1 /\ (Len(s) + 1) - 1 = Len(s)
      BY <1>3, <1>4, <2>3
    <3>2. t[Len(s) + 1] = s[Len(s)] /\ Len(s) \in 1 .. Len(s) /\ Len(s) # 0
      BY <1>8, <2>1, <3>1
    <3> QED
      BY <1>3, <1>9, <3>1, <3>2
  <2> QED
    BY <2>2, <2>3
<1>15. ASSUME NEW k \in 1 .. Len(s) PROVE m2[t[k]].next = t[k + 1]
  <2>1. k \in 1 .. Len(s) + 1 /\ k + 1 \in 1 .. Len(s) + 1 /\ (k + 1) - 1 = k
    BY <1>3
  <2>2. CASE k + 1 < i
    <3>1. k < i /\ k # i - 1 /\ k \in 1 .. Len(s) - 1
      BY <1>3, <1>4, <2>2
    <3>2. t[k] = s[k] /\ t[k + 1] = s[k + 1]
      BY <1>8, <2>1, <2>2, <3>1
    <3> QED
      BY <1>3, <1>9, <3>1, <3>2
  <2>3. CASE k + 1 = i
    <3>1. k < i /\ k = i - 1 /\ i # 1
      BY <1>3, <1>4, <2>3
    <3>2. t[k] = s[k] /\ t[k + 1] = n /\ s[k] = p /\ p \in D
      BY <1>5, <1>8, <2>1, <2>3, <3>1
    <3>3. p # n
      BY <1>3, <3>2
    <3> QED
      BY <1>1, <3>2, <3>3
  <2>4. CASE k = i
    <3>1. k + 1 > i /\ i # Len(s) + 1
      BY <1>3, <1>4, <2>4
    <3>2. t[k] = n /\ t[k + 1] = s[k]
      BY <1>8, <2>1, <2>4, <3>1
    <3> QED
      BY <1>11, <2>4, <3>1, <3>2
  <2>5. CASE k > i
    <3>1. k + 1 > i /\ k - 1 # i - 1 /\ k - 1 \in 1 .. Len(s) - 1 /\ k - 1 \in 1 .. Len(s)
          /\ (k - 1) + 1 = k
      BY <1>3, <1>4, <2>5
    <3>2. t[k] = s[k - 1] /\ t[k + 1] = s[k]
      BY <1>8, <2>1, <2>5, <3>1
    <3>3. m[s[k - 1]].next = s[(k - 1) + 1]
      BY <1>3, <3>1
    <3> QED
      BY <1>9, <3>1, <3>2, <3>3
  <2> QED
    BY <1>4, <2>2, <2>3, <2>4, <2>5
<1>16. Chained(m2, m2[a].child, t)
  <2> DEFINE l == Len(s) + 1
  <2>1. l \in Nat /\ l # 0 /\ l - 1 = Len(s)
    BY <1>3
  <2>2. t \in [1 .. l -> DOMAIN m2] /\ m2[t[l]].next = 0
    BY <1>1, <1>12, <1>14
  <2>3. \A k \in 1 .. l - 1 : m2[t[k]].next = t[k + 1]
    BY <1>15, <2>1
  <2> HIDE DEF l
  <2> QED
    BY <1>13, <2>1, <2>2, <2>3 DEF Chained
<1>17. /\ K = [x \in DOMAIN m2 |-> K[x]] /\ K[a] = t
       /\ \A x \in D : x # a => K[x] = (IF m[x].isref THEN <<>> ELSE List(m, x))
  BY <1>1 DEF Kids
<1>18. K = [Kids(m) EXCEPT ![a] = t]
  OBVIOUS
<1> HIDE DEF K
<1>19. \A x \in DOMAIN m2 : m2[x].isref => K[x] = <<>>
  BY <1>1, <1>17
<1>20. ASSUME NEW x \in DOMAIN m2, ~m2[x].isref PROVE Chained(m2, m2[x].child, K[x])
  <2>1. x \in D /\ ~m[x].isref
    BY <1>1, <1>20
  <2>2. CASE x = a
    BY <1>16, <1>17, <2>2
  <2>3. CASE x # a
    BY <1>6, <1>17, <2>1, <2>3
  <2> QED
    BY <2>2, <2>3
<1>21. Kids(m2) = K
  <2>1. Sound(m2, H2) /\ K = [x \in DOMAIN m2 |-> K[x]]
    BY <1>17
  <2> QED
    BY ONLY <2>1, <1>19, <1>20, KidsAre
<1> QED
  BY <1>18, <1>21 DEF s, t

\* To take an item out of its list changes that list only.
LEMMA DetachKids ==
  ASSUME NEW m, NEW H, Sound(m, H), NEW a \in DOMAIN m, ~m[a].isref,
         NEW i \in DOMAIN List(m, a), NEW c, c = List(m, a)[i],
         NEW m2, Detached(m, m2, a, c), NEW H2, Sound(m2, H2)
  PROVE  Kids(m2) = [Kids(m) EXCEPT ![a] = CutAt(List(m, a), i)]
<1> DEFINE D == DOMAIN m
           s == List(m, a)
           t == CutAt(s, i)
           K == [Kids(m) EXCEPT ![a] = t]
           p == m[c].prev
           nx == m[c].next
<1>1. /\ DOMAIN m2 = D /\ 0 \notin D /\ Linked(m)
      /\ \A x \in D : /\ m2[x].isref = m[x].isref
                      /\ m2[x].child = IF x = a /\ m[a].child = c THEN nx ELSE m[x].child
                      /\ m2[x].next = IF x = c THEN 0 ELSE IF x = p THEN nx ELSE m[x].next
  BY FiniteMemory DEF Detached, Rewired, Sound
<1>2. s = List(m, a) /\ c = s[i] /\ i \in DOMAIN s
  OBVIOUS
<1> HIDE DEF s
<1>3. /\ Len(s) \in Nat /\ s \in [1 .. Len(s) -> D]
      /\ Len(s) = 0 <=> m[a].child = 0
      /\ Len(s) # 0 => s[1] = m[a].child /\ m[s[Len(s)]].next = 0
      /\ \A k \in 1 .. Len(s) - 1 : m[s[k]].next = s[k + 1]
      /\ \A k \in 1 .. Len(s) : s[k] \notin H
      /\ \A k, j \in 1 .. Len(s) : s[k] = s[j] => k = j
  BY <1>2, ListFacts
<1>4. /\ i \in Nat /\ i >= 1 /\ i <= Len(s) /\ i \in 1 .. Len(s) /\ c \in D
      /\ Len(s) # 0 /\ Len(s) \in Nat
  BY <1>2, <1>3
<1>5. nx = (IF i = Len(s) THEN 0 ELSE s[i + 1])
  <2>1. CASE i = Len(s)
    BY <1>2, <1>3, <1>4, <2>1
  <2>2. CASE i # Len(s)
    <3>1. i \in 1 .. Len(s) - 1
      BY ONLY <1>4, <2>2
    <3> QED
      BY <1>2, <1>3, <2>2, <3>1
  <2> QED
    BY <2>1, <2>2
<1>6. p = (IF i = 1 THEN 0 ELSE s[i - 1])
  <2>1. CASE i = 1
    <3>1. c = m[a].child /\ m[a].child # 0
      BY <1>2, <1>3, <1>4, <2>1
    <3> QED
      BY <1>1, <2>1, <3>1 DEF Linked
  <2>2. CASE i # 1
    <3>1. i - 1 \in 1 .. Len(s) - 1 /\ i - 1 \in 1 .. Len(s) /\ (i - 1) + 1 = i
      BY <1>3, <1>4, <2>2
    <3>2. m[s[i - 1]].next = c /\ s[i - 1] \in D /\ c # 0
      BY <1>1, <1>2, <1>3, <1>4, <3>1
    <3>3. m[c].prev = s[i - 1]
      BY <1>1, <3>2 DEF Linked
    <3> QED
      BY <2>2, <3>3
  <2> QED
    BY <2>1, <2>2
<1> HIDE DEF p, nx
<1>7. /\ i # 1 => i - 1 \in 1 .. Len(s) /\ p \in D /\ p # 0 /\ p = s[i - 1] /\ p # c
      /\ i = 1 => p = 0
  <2>1. CASE i = 1
    BY <1>6, <2>1
  <2>2. CASE i # 1
    <3>1. i - 1 \in 1 .. Len(s) /\ i - 1 # i
      BY <1>3, <1>4, <2>2
    <3>2. p = s[i - 1] /\ p \in D
      BY <1>3, <1>6, <2>2, <3>1
    <3>3. p # c
      BY <1>2, <1>3, <1>4, <3>1, <3>2
    <3> QED
      BY <1>1, <2>2, <3>1, <3>2, <3>3
  <2> QED
    BY <2>1, <2>2
<1>8. ASSUME NEW x \in D, x # a, ~m[x].isref
      PROVE  Chained(m2, m2[x].child, List(m, x))
  <2>1. Chained(m, m[x].child, List(m, x))
    BY <1>8, ListChained
  <2>2. ASSUME NEW j \in DOMAIN List(m, x)
        PROVE  List(m, x)[j] \in DOMAIN m2 /\ m2[List(m, x)[j]].next = m[List(m, x)[j]].next
    <3>1. List(m, x)[j] \in D
      BY <1>8, <2>2, PlaceBefore
    <3>2. List(m, x)[j] # p
      <4>1. CASE i = 1
        BY <1>1, <1>7, <3>1, <4>1
      <4>2. CASE i # 1
        <5>1. i - 1 \in DOMAIN List(m, a) /\ p = List(m, a)[i - 1]
          BY <1>2, <1>3, <1>7, <4>2
        <5> QED
          BY <1>8, <2>2, <5>1, OnePlace
      <4> QED
        BY <4>1, <4>2
    <3>3. List(m, x)[j] # c
      BY <1>8, <2>2, OnePlace
    <3> QED
      BY <1>1, <3>1, <3>2, <3>3
  <2>3. m2[x].child = m[x].child
    BY <1>1, <1>8
  <2> QED
    BY <2>1, <2>2, <2>3, KeptChain
<1>9. t = [k \in 1 .. Len(s) - 1 |-> IF k < i THEN s[k] ELSE s[k + 1]]
  BY DEF CutAt
<1> HIDE DEF t
<1>10. ASSUME NEW k \in 1 .. Len(s) - 1
       PROVE  /\ k \in 1 .. Len(s) /\ k + 1 \in 1 .. Len(s)
              /\ k < i => t[k] = s[k]
              /\ k >= i => t[k] = s[k + 1]
  BY <1>3, <1>4, <1>9
<1>11. \A k \in 1 .. Len(s) : k # i /\ k # i - 1 => m2[s[k]].next = m[s[k]].next
  <2> SUFFICES ASSUME NEW k \in 1 .. Len(s), k # i, k # i - 1
               PROVE  m2[s[k]].next = m[s[k]].next
    OBVIOUS
  <2>1. s[k] \in D /\ s[k] # c
    BY <1>2, <1>3, <1>4
  <2>2. s[k] # p
    BY <1>1, <1>3, <1>7, <2>1
  <2> QED
    BY <1>1, <2>1, <2>2
<1>12. i # 1 => m2[p].next = nx
  BY <1>1, <1>7
<1>13. m2[a].child = (IF i = 1 THEN nx ELSE s[1])
  <2>1. m[a].child = c <=> i = 1
    <3>1. m[a].child = s[1] /\ 1 \in 1 .. Len(s)
      BY <1>3, <1>4
    <3> QED
      BY <1>2, <1>3, <1>4, <3>1
  <2> QED
    BY <1>1, <1>3, <1>4, <2>1
<1>14. t \in [1 .. Len(s) - 1 -> D]
  <2>1. ASSUME NEW k \in 1 .. Len(s) - 1 PROVE t[k] \in D
    <3>1. CASE k < i
      BY <1>3, <1>10, <3>1
    <3>2. CASE k >= i
      BY <1>3, <1>10, <3>2
    <3> QED
      BY <1>4, <3>1, <3>2
  <2> QED
    BY <1>9, <2>1
<1>15. Len(s) - 1 = 0 <=> m2[a].child = 0
  <2>1. CASE i = 1
    <3>1. i # Len(s) => i + 1 \in 1 .. Len(s)
      BY ONLY <1>4
    <3>2. nx = 0 <=> i = Len(s)
      BY <1>1, <1>3, <1>5, <3>1
    <3> QED
      BY <1>3, <1>4, <1>13, <2>1, <3>2
  <2>2. CASE i # 1
    <3>1. Len(s) # 1 /\ 1 \in 1 .. Len(s)
      BY <1>3, <1>4, <2>2
    <3>2. s[1] # 0
      BY <1>1, <1>3, <3>1
    <3> QED
      BY <1>3, <1>13, <2>2, <3>1, <3>2
  <2> QED
    BY <2>1, <2>2
<1>16. ASSUME Len(s) - 1 # 0 PROVE t[1] = m2[a].child
  <2>1. 1 \in 1 .. Len(s) - 1
    BY <1>3, <1>4, <1>16
  <2>2. CASE i = 1
    <3>1. i # Len(s) /\ t[1] = s[2]
      BY <1>3, <1>10, <1>16, <2>1, <2>2
    <3> QED
      BY <1>5, <1>13, <2>2, <3>1
  <2>3. CASE i # 1
    <3>1. t[1] = s[1]
      BY <1>4, <1>10, <2>1, <2>3
    <3> QED
      BY <1>13, <2>3, <3>1
  <2> QED
    BY <2>2, <2>3
<1>17. ASSUME Len(s) - 1 # 0 PROVE m2[t[Len(s) - 1]].next = 0
  <2>1. Len(s) - 1 \in 1 .. Len(s) - 1 /\ (Len(s) - 1) + 1 = Len(s)
    BY <1>3, <1>4, <1>17
  <2>2. CASE i = Len(s)
    <3>1. t[Len(s) - 1] = s[i - 1] /\ i # 1
      BY <1>3, <1>4, <1>10, <1>17, <2>1, <2>2
    <3> QED
      BY <1>5, <1>7, <1>12, <2>2, <3>1
  <2>3. CASE i # Len(s)
    <3>1. Len(s) - 1 >= i /\ Len(s) # i - 1 /\ Len(s) \in 1 .. Len(s)
      BY ONLY <1>4, <2>3
    <3>2. t[Len(s) - 1] = s[Len(s)]
      BY <1>10, <2>1, <3>1
    <3> QED
      BY <1>3, <1>4, <1>11, <2>3, <3>1, <3>2
  <2> QED
    BY <2>2, <2>3
<1>18. ASSUME NEW k \in 1 .. (Len(s) - 1) - 1 PROVE m2[t[k]].next = t[k + 1]
  <2>1. k \in 1 .. Len(s) - 1 /\ k + 1 \in 1 .. Len(s) - 1 /\ k \in 1 .. Len(s)
        /\ k + 1 \in 1 .. Len(s)
    BY <1>3
  <2>2. CASE k + 1 < i
    <3>1. k < i /\ k # i - 1 /\ k # i
      BY <1>3, <1>4, <2>2
    <3>2. t[k] = s[k] /\ t[k + 1] = s[k + 1]
      BY <1>10, <2>1, <2>2, <3>1
    <3> QED
      BY <1>3, <1>11, <2>1, <3>1, <3>2
  <2>3. CASE k + 1 = i
    <3>1. k < i /\ k = i - 1 /\ i # 1 /\ i # Len(s) /\ k + 1 >= i
      BY ONLY <1>4, <2>1, <2>3
    <3>2. t[k] = s[k] /\ t[k + 1] = s[i + 1]
      BY <1>10, <2>1, <2>3, <3>1
    <3>3. t[k] = p
      BY <1>7, <3>1, <3>2
    <3> QED
      BY <1>5, <1>12, <3>1, <3>2, <3>3
  <2>4. CASE k >= i
    <3>1. k + 1 >= i /\ k + 1 # i /\ k + 1 # i - 1
      BY <1>3, <1>4, <2>4
    <3>2. t[k] = s[k + 1] /\ t[k + 1] = s[(k + 1) + 1]
      BY <1>10, <2>1, <2>4, <3>1
    <3>3. m2[s[k + 1]].next = m[s[k + 1]].next
      BY <1>11, <2>1, <3>1
    <3>4. m[s[k + 1]].next = s[(k + 1) + 1]
      BY <1>3, <2>1
    <3> QED
      BY <3>2, <3>3, <3>4
  <2> QED
    BY <1>4, <2>2, <2>3, <2>4
<1>19. Chained(m2, m2[a].child, t)
  <2> DEFINE l == Len(s) - 1
  <2>1. l \in Nat
    BY <1>3, <1>4
  <2>2. t \in [1 .. l -> DOMAIN m2]
    BY <1>1, <1>14
  <2>3. l = 0 <=> m2[a].child = 0
    BY <1>15
  <2>4. l # 0 => t[1] = m2[a].child /\ m2[t[l]].next = 0
    BY <1>16, <1>17
  <2>5. \A k \in 1 .. l - 1 : m2[t[k]].next = t[k + 1]
    BY <1>18
  <2> HIDE DEF l
  <2> QED
    BY <2>1, <2>2, <2>3, <2>4, <2>5 DEF Chained
<1>20. /\ K = [x \in DOMAIN m2 |-> K[x]] /\ K[a] = t
       /\ \A x \in D : x # a => K[x] = (IF m[x].isref THEN <<>> ELSE List(m, x))
  BY <1>1 DEF Kids
<1>21. K = [Kids(m) EXCEPT ![a] = t]
  OBVIOUS
<1> HIDE DEF K
<1>22. \A x \in DOMAIN m2 : m2[x].isref => K[x] = <<>>
  BY <1>1, <1>20
<1>23. ASSUME NEW x \in DOMAIN m2, ~m2[x].isref PROVE Chained(m2, m2[x].child, K[x])
  <2>1. x \in D /\ ~m[x].isref
    BY <1>1, <1>23
  <2>2. CASE x = a
    BY <1>19, <1>20, <2>2
  <2>3. CASE x # a
    BY <1>8, <1>20, <2>1, <2>3
  <2> QED
    BY <2>2, <2>3
<1>24. Kids(m2) = K
  <2>1. Sound(m2, H2) /\ K = [x \in DOMAIN m2 |-> K[x]]
    BY <1>20
  <2> QED
    BY ONLY <2>1, <1>22, <1>23, KidsAre
<1> QED
  BY <1>21, <1>24 DEF s, t

\* cJSON_Delete of a held item leaves the other lists as they are.
LEMMA DeleteKids ==
  ASSUME NEW m, NEW H, Sound(m, H), NEW c \in H,
         NEW m2, m2 = Delete(m, c), NEW H2, Sound(m2, H2)
  PROVE  Kids(m2) = [x \in DOMAIN m \ Deleted(m, c) |-> Kids(m)[x]]
<1> DEFINE D == DOMAIN m
           C == Deleted(m, c)
           K == [x \in D \ C |-> Kids(m)[x]]
<1>1. /\ Typed(m) /\ Linked(m) /\ OneOwner(m) /\ Loose(m, c) /\ c \in D
      /\ C \subseteq D /\ 0 \notin D
  BY FiniteMemory, DeletedIs DEF Sound
<1>2. DOMAIN m2 = D \ C /\ \A x \in D \ C : m2[x] = m[x]
  BY DEF Delete
<1>3. ASSUME NEW y \in C, NEW x \in D, Leads(m, x, y) PROVE x \in C
  <2>1. y # c
    BY <1>1, <1>3, LooseEnd
  <2>2. PICK z \in C : Leads(m, z, y)
    BY <1>1, <2>1, CameBy
  <2> QED
    BY <1>1, <1>3, <2>2, OneLink
<1> HIDE DEF C
<1>4. ASSUME NEW x \in D \ C, ~m[x].isref
      PROVE  Chained(m2, m2[x].child, List(m, x))
  <2> DEFINE s == List(m, x)
  <2>1. PICK n \in Nat : /\ s \in [1 .. n -> D]
                         /\ n # 0 => s[1] = m[x].child
                         /\ \A i \in 1 .. n - 1 : m[s[i]].next = s[i + 1]
    BY <1>4, ListChained DEF Chained
  <2>2. Chained(m, m[x].child, s)
    BY <1>4, ListChained
  <2> HIDE DEF s
  <2> DEFINE G == {k \in Nat : k + 1 <= n => s[k + 1] \notin C}
  <2>3. 0 \in G
    <3> SUFFICES ASSUME 1 <= n PROVE s[1] \notin C
      OBVIOUS
    <3>1. s[1] = m[x].child /\ s[1] \in D
      BY <2>1
    <3>2. Leads(m, x, s[1])
      BY <1>1, <1>4, <3>1 DEF Leads
    <3> QED
      BY <1>3, <1>4, <3>2
  <2>4. ASSUME NEW k \in G PROVE k + 1 \in G
    <3> SUFFICES ASSUME (k + 1) + 1 <= n PROVE s[(k + 1) + 1] \notin C
      OBVIOUS
    <3>1. k + 1 \in 1 .. n - 1 /\ k + 1 \in 1 .. n /\ (k + 1) + 1 \in 1 .. n /\ k + 1 <= n
      BY <2>1
    <3>2. s[k + 1] \in D \ C /\ s[(k + 1) + 1] \in D
      BY <2>1, <3>1
    <3>3. Leads(m, s[k + 1], s[(k + 1) + 1])
      BY <1>1, <2>1, <3>1, <3>2 DEF Leads
    <3> QED
      BY <1>3, <3>2, <3>3
  <2>5. G \subseteq Nat
    OBVIOUS
  <2> HIDE DEF G
  <2>6. G = Nat
    BY <2>3, <2>4, <2>5, Induction
  <2>7. ASSUME NEW i \in DOMAIN s
        PROVE  s[i] \in DOMAIN m2 /\ m2[s[i]].next = m[s[i]].next
    <3>1. i \in 1 .. n /\ i - 1 \in G /\ (i - 1) + 1 = i /\ i <= n
      BY <2>1, <2>6
    <3>2. s[i] \in D \ C
      BY <2>1, <3>1 DEF G
    <3> QED
      BY <1>2, <3>2
  <2>8. m2[x].child = m[x].child
    BY <1>2
  <2>9. Chained(m2, m2[x].child, s)
    BY <2>2, <2>7, <2>8, KeptChain
  <2> QED
    BY <2>9 DEF s
<1>5. /\ K = [x \in DOMAIN m2 |-> K[x]]
      /\ \A x \in D \ C : K[x] = (IF m[x].isref THEN <<>> ELSE List(m, x))
  BY <1>2 DEF Kids
<1>6. K = [x \in D \ C |-> Kids(m)[x]]
  OBVIOUS
<1> HIDE DEF K
<1>7. \A x \in DOMAIN m2 : m2[x].isref => K[x] = <<>>
  BY <1>2, <1>5
<1>8. \A x \in DOMAIN m2 : ~m2[x].isref => Chained(m2, m2[x].child, K[x])
  BY <1>2, <1>4, <1>5
<1>9. Kids(m2) = K
  <2>1. Sound(m2, H2) /\ K = [x \in DOMAIN m2 |-> K[x]]
    BY <1>5
  <2> QED
    BY ONLY <2>1, <1>7, <1>8, KidsAre
<1> QED
  BY <1>6, <1>9 DEF C

\* What is put behind the last is appended.
LEMMA AppendIs ==
  ASSUME NEW D, NEW n \in Nat, NEW s \in [1 .. n -> D], NEW x
  PROVE  PutAt(s, Len(s) + 1, x) = Append(s, x)
<1> DEFINE E == D \cup {x}
<1>1. Len(s) = n /\ s \in Seq(E) /\ x \in E
  OBVIOUS
<1> HIDE DEF E
<1>2. /\ Append(s, x) \in Seq(E) /\ Len(Append(s, x)) = n + 1
      /\ \A k \in 1 .. n : Append(s, x)[k] = s[k]
      /\ Append(s, x)[n + 1] = x
  BY <1>1
<1>3. Append(s, x) = [k \in 1 .. n + 1 |-> Append(s, x)[k]]
  <2>1. \A y \in Seq(E) : y \in [1 .. Len(y) -> E]
    OBVIOUS
  <2>2. Append(s, x) \in [1 .. n + 1 -> E]
    BY <1>2, <2>1
  <2> QED
    BY <2>2
<1>4. PutAt(s, n + 1, x) = [k \in 1 .. n + 1 |-> IF k < n + 1 THEN s[k]
                              ELSE IF k = n + 1 THEN x ELSE s[k - 1]]
  BY <1>1 DEF PutAt
<1>5. ASSUME NEW k \in 1 .. n + 1
      PROVE  Append(s, x)[k] = (IF k < n + 1 THEN s[k] ELSE IF k = n + 1 THEN x ELSE s[k - 1])
  <2>1. CASE k < n + 1
    BY <1>2, <2>1
  <2>2. CASE k = n + 1
    BY <1>2, <2>2
  <2> QED
    BY <2>1, <2>2
<1> QED
  BY <1>1, <1>3, <1>4, <1>5

\* What is cut out, place by place.
LEMMA RemoveAtIs ==
  ASSUME NEW D, NEW n \in Nat, NEW s \in [1 .. n -> D], NEW i \in 1 .. n
  PROVE  RemoveAt(s, i) = CutAt(s, i)
<1>1. Len(s) = n /\ s \in Seq(D)
  OBVIOUS
<1>2. /\ SubSeq(s, 1, i - 1) \in Seq(D) /\ Len(SubSeq(s, 1, i - 1)) = i - 1
      /\ \A k \in 1 .. i - 1 : SubSeq(s, 1, i - 1)[k] = s[k]
  BY <1>1
<1>3. /\ SubSeq(s, i + 1, n) \in Seq(D) /\ Len(SubSeq(s, i + 1, n)) = n - i
      /\ \A k \in 1 .. n - i : SubSeq(s, i + 1, n)[k] = s[i + k]
  BY <1>1
<1> QED
  BY <1>1, <1>2, <1>3 DEF RemoveAt, CutAt

\* Put in before and cut out after is to replace.
LEMMA ReplaceAtIs ==
  ASSUME NEW D, NEW n \in Nat, NEW s \in [1 .. n -> D], NEW i \in 1 .. n, NEW x
  PROVE  CutAt(PutAt(s, i, x), i + 1) = ReplaceAt(s, i, x)
<1> DEFINE t == PutAt(s, i, x)
<1>1. Len(s) = n
  OBVIOUS
<1>2. t = [k \in 1 .. n + 1 |-> IF k < i THEN s[k] ELSE IF k = i THEN x ELSE s[k - 1]]
  BY <1>1 DEF PutAt
<1> HIDE DEF t
<1>3. Len(t) = n + 1
  BY <1>2
<1>4. CutAt(t, i + 1) = [k \in 1 .. n |-> IF k < i + 1 THEN t[k] ELSE t[k + 1]]
  BY <1>3 DEF CutAt
<1>5. ReplaceAt(s, i, x) = [k \in 1 .. n |-> IF k = i THEN x ELSE s[k]]
  BY <1>1 DEF ReplaceAt
<1>6. ASSUME NEW k \in 1 .. n
      PROVE  (IF k < i + 1 THEN t[k] ELSE t[k + 1]) = (IF k = i THEN x ELSE s[k])
  <2>1. k \in 1 .. n + 1 /\ k + 1 \in 1 .. n + 1 /\ (k + 1) - 1 = k
    OBVIOUS
  <2>2. CASE k < i
    BY <1>2, <2>1, <2>2
  <2>3. CASE k = i
    BY <1>2, <2>1, <2>3
  <2>4. CASE k > i
    BY <1>2, <2>1, <2>4
  <2> QED
    BY <2>2, <2>3, <2>4
<1> QED
  BY <1>4, <1>5, <1>6 DEF t

\* Names are not in the lists.
LEMMA RenameKids ==
  ASSUME NEW m, NEW H, Sound(m, H), NEW m2, Renamed(m, m2)
  PROVE  Kids(m2) = Kids(m)
<1>1. /\ DOMAIN m2 = DOMAIN m /\ \A x \in DOMAIN m : m2[x].isref = m[x].isref
      /\ \A x \in DOMAIN m : List(m2, x) = List(m, x)
  BY SameList DEF Renamed, Rewired
<1> QED
  BY <1>1 DEF Kids

\* m2 has the items of m and a new one with no list.
Grown(m, k, m2) ==
  /\ k \notin DOMAIN m /\ DOMAIN m2 = DOMAIN m \cup {k}
  /\ \A x \in DOMAIN m : m2[x] = m[x]
  /\ ~m2[k].isref => m2[k].child = 0

OneMoreList(m, k, m2) ==
  /\ DOMAIN Kids(m2) = DOMAIN m \cup {k} /\ Kids(m2)[k] = <<>>
  /\ \A x \in DOMAIN m : Kids(m2)[x] = Kids(m)[x]

\* A new item has no list.
LEMMA NewKids ==
  ASSUME NEW m, NEW H, Sound(m, H), NEW m2, NEW H2, Sound(m2, H2), NEW k, Grown(m, k, m2)
  PROVE  OneMoreList(m, k, m2)
<1>0. /\ k \notin DOMAIN m /\ DOMAIN m2 = DOMAIN m \cup {k}
      /\ \A x \in DOMAIN m : m2[x] = m[x]
      /\ ~m2[k].isref => m2[k].child = 0
  BY DEF Grown
<1> DEFINE D == DOMAIN m
           K == [x \in D \cup {k} |-> IF x = k THEN <<>> ELSE Kids(m)[x]]
<1>1. /\ DOMAIN m2 = D \cup {k} /\ \A x \in D : x # k /\ m2[x] = m[x]
      /\ 0 \notin D
  BY <1>0, FiniteMemory DEF Sound
<1>2. ASSUME NEW x \in D, ~m[x].isref PROVE Chained(m2, m2[x].child, List(m, x))
  <2>1. Chained(m, m[x].child, List(m, x))
    BY <1>2, ListChained
  <2>2. ASSUME NEW j \in DOMAIN List(m, x)
        PROVE  List(m, x)[j] \in DOMAIN m2 /\ m2[List(m, x)[j]].next = m[List(m, x)[j]].next
    <3>1. List(m, x)[j] \in D
      BY <1>2, PlaceBefore
    <3> QED
      BY <1>1, <3>1
  <2> QED
    BY <1>1, <2>1, <2>2, KeptChain
<1>3. /\ K = [x \in DOMAIN m2 |-> K[x]] /\ K[k] = <<>>
      /\ \A x \in D : K[x] = (IF m[x].isref THEN <<>> ELSE List(m, x))
  BY <1>1 DEF Kids
<1>4. DOMAIN K = D \cup {k} /\ \A x \in D : K[x] = Kids(m)[x]
  BY <1>1
<1> HIDE DEF K
<1>5. \A x \in DOMAIN m2 : m2[x].isref => K[x] = <<>>
  BY <1>1, <1>3
<1>6. Chained(m2, 0, <<>>)
  <2>1. <<>> \in [1 .. 0 -> DOMAIN m2]
    OBVIOUS
  <2> QED
    BY <2>1 DEF Chained
<1>7. ASSUME NEW x \in DOMAIN m2, ~m2[x].isref PROVE Chained(m2, m2[x].child, K[x])
  <2>1. CASE x = k
    BY <1>0, <1>3, <1>6, <1>7, <2>1
  <2>2. CASE x # k
    BY <1>1, <1>2, <1>3, <1>7, <2>2
  <2> QED
    BY <2>1, <2>2
<1>8. Kids(m2) = K
  <2>1. Sound(m2, H2) /\ K = [x \in DOMAIN m2 |-> K[x]]
    BY <1>3
  <2> QED
    BY ONLY <2>1, <1>5, <1>7, KidsAre
<1> QED
  BY <1>3, <1>4, <1>8 DEF OneMoreList

\* What is below an item is the least set with it that has the list of all it has.
LEMMA BelowIs ==
  ASSUME NEW m, NEW H, Sound(m, H), NEW n \in DOMAIN m,
         NEW R, R \subseteq DOMAIN m, n \in R,
         \A x \in R : \A j \in DOMAIN Kids(m)[x] : Kids(m)[x][j] \in R,
         \A S : n \in S /\ (\A x \in S \cap DOMAIN m : \A j \in DOMAIN Kids(m)[x] : Kids(m)[x][j] \in S)
                  => R \subseteq S
  PROVE  R = Below(m, n)
<1> DEFINE D == DOMAIN m
           B == Below(m, n)
           k == m[n].child
<1>1. Typed(m) /\ 0 \notin D /\ n \in B /\ B \subseteq D
  BY FiniteMemory, BelowIn DEF Sound
<1>2. \A x \in D : /\ m[x].isref => DOMAIN Kids(m)[x] = {}
                   /\ ~m[x].isref => Kids(m)[x] = List(m, x)
  BY DEF Kids
<1>3. ASSUME NEW x \in D, ~m[x].isref, NEW j \in DOMAIN List(m, x)
      PROVE  List(m, x)[j] \in Deleted(m, m[x].child) /\ m[x].child \in D
  <2>1. PICK l \in Nat : /\ List(m, x) \in [1 .. l -> D]
                         /\ l = 0 <=> m[x].child = 0
                         /\ \A i \in 1 .. l : List(m, x)[i] \in Deleted(m, m[x].child)
    BY <1>3, ListIs
  <2>2. j \in 1 .. l
    BY <2>1
  <2> QED
    BY <1>1, <2>1, <2>2, Fields
<1>4. ASSUME NEW x \in B, NEW j \in DOMAIN Kids(m)[x] PROVE Kids(m)[x][j] \in B
  <2>1. x \in D /\ ~m[x].isref /\ Kids(m)[x] = List(m, x) /\ j \in DOMAIN List(m, x)
    BY <1>1, <1>2
  <2>2. List(m, x)[j] \in Deleted(m, m[x].child) /\ m[x].child \in D /\ OwnsChild(m, x)
    BY <1>1, <1>3, <2>1 DEF OwnsChild
  <2>3. CASE x = n
    BY <2>1, <2>2, <2>3 DEF Below
  <2>4. CASE x # n
    <3>1. OwnsChild(m, n) /\ x \in Deleted(m, k)
      BY <2>4 DEF Below
    <3>2. k \in D
      BY <1>1, <3>1, Fields DEF OwnsChild
    <3>3. Leads(m, x, m[x].child)
      BY <2>2 DEF Leads, OwnsChild
    <3> HIDE DEF k
    <3>4. /\ m[x].child \in Deleted(m, k)
          /\ \A z \in Deleted(m, k) : \A y : Leads(m, z, y) => y \in Deleted(m, k)
      BY <1>1, <3>1, <3>2, <3>3, DeletedIs
    <3>5. Deleted(m, m[x].child) \subseteq Deleted(m, k)
      BY <1>1, <2>2, <3>4, DeletedIs
    <3> QED
      BY <2>1, <2>2, <3>1, <3>5 DEF Below, k
  <2> QED
    BY <2>3, <2>4
<1>5. R \subseteq B
  <2> HIDE DEF B
  <2> QED
    BY <1>1, <1>4
<1>6. B \subseteq R
  <2>1. CASE ~OwnsChild(m, n)
    BY <2>1 DEF Below
  <2>2. CASE OwnsChild(m, n)
    <3> DEFINE S == {y \in R : \E x \in R : ~m[x].isref /\ \E j \in DOMAIN List(m, x) : y = List(m, x)[j]}
    <3>1. ASSUME NEW x \in R, OwnsChild(m, x) PROVE m[x].child \in S
      <4>1. x \in D /\ ~m[x].isref /\ m[x].child # 0
        BY <3>1 DEF OwnsChild
      <4>2. Len(List(m, x)) # 0 /\ List(m, x)[1] = m[x].child /\ 1 \in DOMAIN List(m, x)
        <5> DEFINE s == List(m, x)
        <5>1. s = List(m, x)
          OBVIOUS
        <5> HIDE DEF s
        <5>2. /\ Len(s) \in Nat /\ s \in [1 .. Len(s) -> D] /\ Len(s) # 0
              /\ s[1] = m[x].child
          BY <4>1, <5>1, ListFacts
        <5> QED
          BY <5>1, <5>2
      <4>3. m[x].child \in R
        BY <1>2, <4>1, <4>2
      <4> QED
        BY <4>1, <4>2, <4>3
    <3>2. ASSUME NEW y \in S, NEW z, z # 0, m[y].next = z PROVE z \in S
      <4>1. PICK x \in R : ~m[x].isref /\ \E j \in DOMAIN List(m, x) : y = List(m, x)[j]
        OBVIOUS
      <4>2. PICK j \in DOMAIN List(m, x) : y = List(m, x)[j]
        BY <4>1
      <4> DEFINE s == List(m, x)
      <4>3. s = List(m, x) /\ x \in D
        OBVIOUS
      <4> HIDE DEF s
      <4>4. /\ Len(s) \in Nat /\ s \in [1 .. Len(s) -> D]
            /\ Len(s) # 0 => m[s[Len(s)]].next = 0
            /\ \A i \in 1 .. Len(s) - 1 : m[s[i]].next = s[i + 1]
        BY <4>1, <4>3, ListFacts
      <4>5. j \in 1 .. Len(s) /\ j # Len(s)
        BY <3>2, <4>2, <4>3, <4>4
      <4>6. j \in 1 .. Len(s) - 1 /\ j + 1 \in DOMAIN s
        BY <4>4, <4>5
      <4>7. z = s[j + 1]
        BY <3>2, <4>2, <4>3, <4>4, <4>6
      <4>8. z \in R
        BY <1>2, <4>1, <4>3, <4>6, <4>7
      <4> QED
        BY <4>1, <4>3, <4>6, <4>7, <4>8
    <3>3. k \in S /\ k \in D
      BY <2>2, <3>1
    <3>4. \A x \in S \cap D : \A y : Leads(m, x, y) => y \in S
      BY <3>1, <3>2 DEF Leads, OwnsChild
    <3>5. S \subseteq R
      OBVIOUS
    <3> HIDE DEF S, k
    <3>6. Deleted(m, k) \subseteq S
      BY <1>1, <3>3, <3>4, DeletedIs
    <3> QED
      BY <2>2, <3>5, <3>6 DEF Below, k
  <2> QED
    BY <2>1, <2>2
<1> QED
  BY <1>5, <1>6

-----------------------------------------------------------------------------
(* What CJsonLists says of the memory. *)

\* The items of some, and those in the lists of these.
InLists(K, S) == S \cup UNION {Lists!ItemsIn(K[x]) : x \in S}

\* All of an item is the least set with it that has the list of all it has.
LEMMA WholeIs ==
  ASSUME IInv, NEW n \in Live
  PROVE  Lists!Whole(n) = Below(node, n)
<1> DEFINE D == DOMAIN node
           K == Kids(node)
           on == [x \in D |-> Lists!ItemsIn(K[x])]
           step == [T \in SUBSET D |-> InLists(K, T)]
           below == CHOOSE below : below =
                      [k \in Nat |-> IF k = 0 THEN {n} ELSE
                         LET S == below[k - 1] IN S \cup UNION {Lists!ItemsIn(K[m]) : m \in S}]
<1>1. Sound(node, held) /\ n \in D /\ DOMAIN K = D /\ IsFiniteSet(D)
  BY FiniteMemory DEF IInv, Sound, Live, Kids
<1>2. ASSUME NEW x \in D, NEW j \in DOMAIN K[x] PROVE K[x][j] \in D
  <2>1. ~node[x].isref /\ K[x] = List(node, x)
    BY <1>2 DEF Kids
  <2> QED
    BY <1>1, <1>2, <2>1, PlaceBefore
<1>3. Lists!Whole(n) = below[Lists!Cardinality(DOMAIN K)]
  BY DEF Lists!Whole
<1>4. Lists!Cardinality(DOMAIN K) = Cardinality(D)
  BY <1>1 DEF Lists!Cardinality, Cardinality
<1> HIDE DEF K
<1>5. on \in [D -> SUBSET D]
  BY <1>2 DEF Lists!ItemsIn
<1>6. step \in [SUBSET D -> SUBSET D]
  BY <1>2 DEF Lists!ItemsIn, InLists
<1>7. PICK f \in [Nat -> SUBSET D] :
             f = [k \in Nat |-> IF k = 0 THEN {n} ELSE step[f[k - 1]]]
  <2> DEFINE first == {n}
             all == SUBSET D
  <2>1. first \in all /\ step \in [all -> all]
    BY <1>1, <1>6
  <2> HIDE DEF step, first, all
  <2>2. \E f \in [Nat -> all] : f = [k \in Nat |-> IF k = 0 THEN first ELSE step[f[k - 1]]]
    BY <2>1, Iterated
  <2> QED
    BY <2>2 DEF first, all
<1>8. \A T \in SUBSET D : step[T] = InLists(K, T)
  OBVIOUS
<1> HIDE DEF step
<1>9. f = [k \in Nat |-> IF k = 0 THEN {n} ELSE
             LET S == f[k - 1] IN S \cup UNION {Lists!ItemsIn(K[m]) : m \in S}]
  <2>1. ASSUME NEW k \in Nat, k # 0
        PROVE  step[f[k - 1]] = f[k - 1] \cup UNION {Lists!ItemsIn(K[m]) : m \in f[k - 1]}
    BY <1>8, <2>1 DEF InLists
  <2> QED
    BY <1>7, <2>1
<1>10. below = [k \in Nat |-> IF k = 0 THEN {n} ELSE
                  LET S == below[k - 1] IN S \cup UNION {Lists!ItemsIn(K[m]) : m \in S}]
  BY <1>9
<1> HIDE DEF below
<1>11. \A k \in Nat : below[k] \in SUBSET D
  <2> DEFINE G == {k \in Nat : below[k] \in SUBSET D}
  <2>1. 0 \in G
    BY <1>1, <1>10
  <2>2. ASSUME NEW k \in G PROVE k + 1 \in G
    <3>1. k + 1 \in Nat /\ k + 1 # 0 /\ (k + 1) - 1 = k
      OBVIOUS
    <3>2. below[k + 1] = InLists(K, below[k])
      BY <1>10, <3>1 DEF InLists
    <3>3. InLists(K, below[k]) = step[below[k]]
      BY <1>8
    <3> QED
      BY <1>6, <3>1, <3>2, <3>3
  <2> HIDE DEF G
  <2>3. G \subseteq Nat
    BY DEF G
  <2>4. G = Nat
    BY <2>1, <2>2, <2>3, Induction
  <2> QED
    BY <2>4 DEF G
<1>12. below[0] = {n} /\ \A k \in Nat : \A y :
          y \in below[k + 1] <=> y \in below[k] \/ \E x \in below[k] : y \in on[x]
  <2>1. below[0] = {n}
    BY <1>10
  <2>2. ASSUME NEW k \in Nat
        PROVE  below[k + 1] = below[k] \cup UNION {Lists!ItemsIn(K[x]) : x \in below[k]}
    <3>1. k + 1 \in Nat /\ k + 1 # 0 /\ (k + 1) - 1 = k
      OBVIOUS
    <3> QED
      BY <1>10, <3>1
  <2>3. ASSUME NEW k \in Nat, NEW x \in below[k] PROVE on[x] = Lists!ItemsIn(K[x])
    BY <1>11
  <2> SUFFICES ASSUME NEW k \in Nat, NEW y
               PROVE  y \in below[k + 1] <=> y \in below[k] \/ \E x \in below[k] : y \in on[x]
    BY <2>1
  <2>4. y \in below[k + 1] <=> y \in below[k] \/ \E x \in below[k] : y \in Lists!ItemsIn(K[x])
    BY <2>2
  <2> QED
    BY <2>3, <2>4
<1>13. below \in [Nat -> SUBSET D]
  BY <1>10, <1>11
<1> DEFINE R == below[Cardinality(D)]
<1> HIDE DEF on
<1>14. /\ R \subseteq D /\ n \in R
       /\ \A x \in R : on[x] \subseteq R
       /\ \A S : n \in S /\ (\A x \in S \cap D : on[x] \subseteq S) => R \subseteq S
  <2>1. R = below[Cardinality(D)]
    OBVIOUS
  <2> HIDE DEF R, D
  <2> QED
    BY <1>1, <1>5, <1>12, <1>13, <2>1, Saturated
<1>15. \A x \in D : on[x] = {K[x][j] : j \in DOMAIN K[x]}
  BY DEF on, Lists!ItemsIn
<1> HIDE DEF R
<1>16. \A x \in R : \A j \in DOMAIN K[x] : K[x][j] \in R
  BY <1>14, <1>15
<1>17. ASSUME NEW S, n \in S, \A x \in S \cap D : \A j \in DOMAIN K[x] : K[x][j] \in S
       PROVE  R \subseteq S
  BY <1>14, <1>15, <1>17
<1>18. R = Below(node, n)
  BY <1>1, <1>14, <1>16, <1>17, BelowIs DEF K
<1> QED
  BY <1>1, <1>3, <1>4, <1>18 DEF R

-----------------------------------------------------------------------------
(* What the functions of cjson.c do to the lists. *)

\* cJSON_AddItemToArray: the item is the last of the list.
LEMMA AddKids ==
  ASSUME NEW m, NEW H, Sound(m, H), NEW a \in DOMAIN m, ~m[a].isref, Unshared(m, a),
         NEW n \in H, a \notin Deleted(m, n)
  PROVE  Kids(AddItemToArray(m, a, n)) = [Kids(m) EXCEPT ![a] = Append(Kids(m)[a], n)]
<1> DEFINE s == List(m, a)
           i == Len(s) + 1
           p == IF m[a].child = 0 THEN 0 ELSE Last(s)
           m2 == AddItemToArray(m, a, n)
<1>1. Inserted(m, m2, a, p, n) /\ Sound(m2, H \ {n})
  BY AddIs, AddSound
<1>2. s = List(m, a) /\ Kids(m)[a] = s
  BY DEF Kids
<1> HIDE DEF s, m2
<1>3. /\ Len(s) \in Nat /\ s \in [1 .. Len(s) -> DOMAIN m]
      /\ Len(s) = 0 <=> m[a].child = 0
  BY <1>2, ListFacts
<1>4. i \in 1 .. Len(s) + 1 /\ p = (IF i = 1 THEN 0 ELSE s[i - 1])
  BY <1>3 DEF Last
<1> HIDE DEF i, p
<1>5. Kids(m2) = [Kids(m) EXCEPT ![a] = PutAt(s, i, n)]
  BY <1>1, <1>2, <1>4, InsertKids
<1>6. PutAt(s, i, n) = Append(s, n)
  BY <1>3, AppendIs DEF i
<1> QED
  BY <1>2, <1>5, <1>6 DEF m2

\* cJSON_AddItemToObject does the same.
LEMMA AddObjectKids ==
  ASSUME NEW m, NEW H, Sound(m, H), NEW a \in DOMAIN m, ~m[a].isref, Unshared(m, a),
         NEW n \in H, a \notin Deleted(m, n), NEW s \in Name \cup {NoName}
  PROVE  Kids(AddItemToObject(m, a, s, n)) = [Kids(m) EXCEPT ![a] = Append(Kids(m)[a], n)]
<1> DEFINE m2 == [m EXCEPT ![n].string = s]
<1>1. n \in DOMAIN m
  BY DEF Sound
<1>2. Renamed(m, m2) /\ DOMAIN m2 = DOMAIN m
  BY <1>1, StringSet
<1>3. AddItemToObject(m, a, s, n) = AddItemToArray(m2, a, n)
  BY DEF AddItemToObject
<1> HIDE DEF m2
<1>4. Sound(m2, H) /\ Deleted(m2, n) = Deleted(m, n)
  BY <1>1, <1>2, RenameSound
<1>5. \A x \in DOMAIN m : m2[x].isref = m[x].isref /\ m2[x].of = m[x].of
  BY <1>2 DEF Renamed, Rewired
<1>6. Unshared(m2, a) /\ ~m2[a].isref /\ a \in DOMAIN m2 /\ a \notin Deleted(m2, n)
  BY <1>2, <1>4, <1>5 DEF Unshared
<1>7. Kids(AddItemToArray(m2, a, n)) = [Kids(m2) EXCEPT ![a] = Append(Kids(m2)[a], n)]
  BY <1>4, <1>6, AddKids
<1>8. Kids(m2) = Kids(m)
  BY <1>2, RenameKids
<1> QED
  BY <1>3, <1>7, <1>8

\* An item is not below what is in its list.
LEMMA NotBelowKid ==
  ASSUME NEW m, NEW H, Sound(m, H), NEW a \in DOMAIN m, ~m[a].isref,
         NEW i \in DOMAIN List(m, a), NEW c, c = List(m, a)[i]
  PROVE  a \notin Below(m, c)
<1> DEFINE k == m[a].child
<1>1. Typed(m) /\ 0 \notin DOMAIN m
  BY FiniteMemory DEF Sound
<1>2. c \in Deleted(m, k) /\ k # 0
  <2>1. PICK l \in Nat : /\ List(m, a) \in [1 .. l -> DOMAIN m]
                         /\ l = 0 <=> m[a].child = 0
                         /\ \A j \in 1 .. l : List(m, a)[j] \in Deleted(m, m[a].child)
    BY ListIs
  <2>2. i \in 1 .. l
    BY <2>1
  <2> QED
    BY <2>1, <2>2
<1>3. k \in DOMAIN m /\ Leads(m, a, k)
  BY <1>1, <1>2, Fields DEF Leads
<1> HIDE DEF k
<1>4. /\ a \notin Deleted(m, k) /\ Deleted(m, k) \subseteq DOMAIN m
      /\ \A x \in Deleted(m, k) : \A y : Leads(m, x, y) => y \in Deleted(m, k)
  BY <1>1, <1>3, NoWayBack, DeletedIs
<1>5. CASE OwnsChild(m, c)
  <2> DEFINE e == m[c].child
  <2>1. c \in DOMAIN m /\ e \in DOMAIN m /\ Leads(m, c, e)
    BY <1>1, <1>2, <1>4, <1>5, Fields DEF OwnsChild, Leads
  <2>2. e \in Deleted(m, k)
    BY <1>2, <1>4, <2>1
  <2> HIDE DEF e
  <2>3. Deleted(m, e) \subseteq Deleted(m, k)
    BY <1>1, <1>4, <2>1, <2>2, DeletedIs
  <2>4. Below(m, c) = {c} \cup Deleted(m, e)
    BY <1>5 DEF Below, e
  <2> QED
    BY <1>2, <1>4, <2>3, <2>4
<1>6. CASE ~OwnsChild(m, c)
  BY <1>2, <1>4, <1>6 DEF Below
<1> QED
  BY <1>5, <1>6

\* cJSON_DetachItemFromArray takes the item out of the list.
LEMMA TakeOutKids ==
  ASSUME NEW m, NEW H, Sound(m, H), NEW a \in DOMAIN m, ~m[a].isref, Unshared(m, a),
         NEW i \in DOMAIN List(m, a)
  PROVE  Kids(DetachItem(m, a, i)) = [Kids(m) EXCEPT ![a] = RemoveAt(Kids(m)[a], i)]
<1> DEFINE s == List(m, a)
           c == s[i]
           m2 == DetachItem(m, a, i)
<1>1. s = List(m, a) /\ Kids(m)[a] = s /\ i \in DOMAIN s
  BY DEF Kids
<1>2. Detached(m, m2, a, c) /\ Sound(m2, H \cup {c})
  BY DetachIs, TakeOutSound
<1>3. c = List(m, a)[i]
  OBVIOUS
<1> HIDE DEF s, m2, c
<1>4. Kids(m2) = [Kids(m) EXCEPT ![a] = CutAt(s, i)]
  BY <1>1, <1>2, <1>3, DetachKids
<1>5. Len(s) \in Nat /\ s \in [1 .. Len(s) -> DOMAIN m]
  BY <1>1, ListFacts
<1>6. RemoveAt(s, i) = CutAt(s, i)
  BY <1>1, <1>5, RemoveAtIs
<1> QED
  BY <1>1, <1>4, <1>6 DEF m2

\* cJSON_DeleteItemFromArray takes it out and frees it with all below it.
LEMMA DeleteAtKids ==
  ASSUME NEW m, NEW H, Sound(m, H), NEW a \in DOMAIN m, ~m[a].isref, Unshared(m, a),
         NEW i \in DOMAIN List(m, a),
         \A r \in DOMAIN m : m[r].isref => m[r].of \notin Below(m, List(m, a)[i])
  PROVE  Kids(Delete(DetachItem(m, a, i), List(m, a)[i])) =
           [x \in DOMAIN m \ Below(m, List(m, a)[i]) |->
              IF x = a THEN RemoveAt(Kids(m)[a], i) ELSE Kids(m)[x]]
<1> DEFINE c == List(m, a)[i]
           m2 == DetachItem(m, a, i)
           m3 == Delete(m2, c)
<1>1. /\ Sound(m2, H \cup {c}) /\ DOMAIN m2 = DOMAIN m
      /\ Deleted(m2, c) = Below(m, c) /\ Sound(m3, H)
  BY TakeOutSound
<1>2. Kids(m2) = [Kids(m) EXCEPT ![a] = RemoveAt(Kids(m)[a], i)]
  BY TakeOutKids
<1>3. c \in H \cup {c} /\ m3 = Delete(m2, c)
  OBVIOUS
<1> HIDE DEF m2, m3
<1>4. Kids(m3) = [x \in DOMAIN m2 \ Deleted(m2, c) |-> Kids(m2)[x]]
  BY <1>1, <1>3, DeleteKids
<1>5. \A x \in DOMAIN m : Kids(m2)[x] = IF x = a THEN RemoveAt(Kids(m)[a], i) ELSE Kids(m)[x]
  BY <1>2 DEF Kids
<1> QED
  BY <1>1, <1>4, <1>5 DEF m2, m3

\* cJSON_ReplaceItemInArray puts the new item where the old one was, which it frees with
\* all below it.
LEMMA ReplaceKids ==
  ASSUME NEW m, NEW H, Sound(m, H), NEW a \in DOMAIN m, ~m[a].isref, Unshared(m, a),
         NEW i \in DOMAIN List(m, a), NEW n \in H, a \notin Deleted(m, n),
         \A r \in DOMAIN m : m[r].isref => m[r].of \notin Below(m, List(m, a)[i])
  PROVE  Kids(ReplaceItem(m, a, i, n)) =
           [x \in DOMAIN m \ Below(m, List(m, a)[i]) |->
              IF x = a THEN ReplaceAt(Kids(m)[a], i, n) ELSE Kids(m)[x]]
<1> DEFINE s == List(m, a)
           c == s[i]
           p == m[c].prev
<1>1. PICK m1, m2 : Replaces(m, H, a, i, n, m1, m2)
  BY ReplaceCuts
<1>2. /\ Inserted(m, m1, a, p, n) /\ m1[c].prev = n /\ Detached(m1, m2, a, c)
      /\ ReplaceItem(m, a, i, n) = Delete(m2, c)
      /\ Sound(m1, H \ {n}) /\ Sound(m2, (H \ {n}) \cup {c})
      /\ Rewired(m, m2) /\ Deleted(m2, c) = Below(m, c)
  BY <1>1 DEF Replaces
<1>3. s = List(m, a) /\ Kids(m)[a] = s /\ c = s[i] /\ i \in DOMAIN s
  BY DEF Kids
<1>4. Sound(ReplaceItem(m, a, i, n), H \ {n})
  BY ReplaceSound
<1> HIDE DEF s, c
<1>5. /\ Len(s) \in Nat /\ s \in [1 .. Len(s) -> DOMAIN m]
      /\ Len(s) # 0 => s[1] = m[a].child
      /\ \A k \in 1 .. Len(s) - 1 : m[s[k]].next = s[k + 1]
  BY <1>3, ListFacts
<1>6. Linked(m) /\ 0 \notin DOMAIN m
  BY FiniteMemory DEF Sound
<1>7. i \in 1 .. Len(s) + 1 /\ i \in 1 .. Len(s) /\ p = (IF i = 1 THEN 0 ELSE s[i - 1])
  <2>1. i \in 1 .. Len(s) /\ Len(s) # 0
    BY <1>3, <1>5
  <2>2. CASE i = 1
    <3>1. c = m[a].child /\ m[a].child # 0
      BY <1>3, <1>5, <1>6, <2>1, <2>2
    <3> QED
      BY <1>6, <2>1, <2>2, <3>1 DEF Linked
  <2>3. CASE i # 1
    <3>1. i - 1 \in 1 .. Len(s) - 1 /\ i - 1 \in 1 .. Len(s) /\ (i - 1) + 1 = i
      BY <1>5, <2>1, <2>3
    <3>2. m[s[i - 1]].next = c /\ s[i - 1] \in DOMAIN m /\ c \in DOMAIN m
      BY <1>3, <1>5, <2>1, <3>1
    <3>3. m[c].prev = s[i - 1]
      BY <1>6, <3>2 DEF Linked
    <3> QED
      BY <2>1, <2>3, <3>3
  <2> QED
    BY <2>2, <2>3
<1> HIDE DEF p
<1> DEFINE t == PutAt(s, i, n)
<1>8. Kids(m1) = [Kids(m) EXCEPT ![a] = t]
  BY <1>2, <1>3, <1>7, InsertKids
<1>9. /\ DOMAIN m1 = DOMAIN m /\ DOMAIN m2 = DOMAIN m
      /\ \A x \in DOMAIN m : m1[x].isref = m[x].isref
  BY <1>2 DEF Inserted, Rewired
<1>10. List(m1, a) = t
  <2>1. Kids(m1)[a] = List(m1, a)
    BY <1>9 DEF Kids
  <2>2. Kids(m1)[a] = t
    BY <1>8 DEF Kids
  <2> QED
    BY <2>1, <2>2
<1>11. i + 1 \in DOMAIN t /\ t[i + 1] = c
  BY <1>3, <1>5, <1>7 DEF PutAt
<1> HIDE DEF t
<1>12. Kids(m2) = [Kids(m1) EXCEPT ![a] = CutAt(t, i + 1)]
  <2>1. /\ Sound(m1, H \ {n}) /\ a \in DOMAIN m1 /\ ~m1[a].isref
        /\ i + 1 \in DOMAIN List(m1, a) /\ c = List(m1, a)[i + 1]
        /\ Detached(m1, m2, a, c) /\ Sound(m2, (H \ {n}) \cup {c})
    BY <1>2, <1>9, <1>10, <1>11
  <2>2. Kids(m2) = [Kids(m1) EXCEPT ![a] = CutAt(List(m1, a), i + 1)]
    BY ONLY <2>1, DetachKids
  <2> QED
    BY <1>10, <2>2
<1>13. CutAt(t, i + 1) = ReplaceAt(s, i, n)
  BY <1>5, <1>7, ReplaceAtIs DEF t
<1> DEFINE m3 == ReplaceItem(m, a, i, n)
<1>14. m3 = Delete(m2, c) /\ Sound(m3, H \ {n}) /\ c \in (H \ {n}) \cup {c}
  BY <1>2, <1>4
<1> HIDE DEF m3
<1>15. Kids(m3) = [x \in DOMAIN m2 \ Deleted(m2, c) |-> Kids(m2)[x]]
  BY <1>2, <1>14, DeleteKids
<1>16. \A x \in DOMAIN m : Kids(m2)[x] = IF x = a THEN ReplaceAt(s, i, n) ELSE Kids(m)[x]
  BY <1>8, <1>12, <1>13 DEF Kids
<1>17. Kids(m3) = [x \in DOMAIN m \ Below(m, c) |->
                     IF x = a THEN ReplaceAt(s, i, n) ELSE Kids(m)[x]]
  BY <1>2, <1>9, <1>15, <1>16
<1> QED
  BY <1>3, <1>17 DEF m3

-----------------------------------------------------------------------------
(* The steps. *)

\* What the caller holds is in no list, and what has a list is an item.
LEMMA FreeIs ==
  ASSUME IInv
  PROVE  /\ Lists!Items = Live /\ held \subseteq Lists!Free /\ Lists!New = Id \ Live
         /\ \A c \in Live : ~node[c].isref => Kids(node)[c] = List(node, c)
<1>1. Lists!Items = Live /\ \A c \in Live : ~node[c].isref => Kids(node)[c] = List(node, c)
  BY DEF Lists!Items, Kids, Live
<1>2. Sound(node, held) /\ held \subseteq Live
  BY DEF IInv, Sound, Live
<1>3. ASSUME NEW n \in held, NEW c \in Live, n \in Lists!ItemsIn(Kids(node)[c])
      PROVE  FALSE
  <2>1. PICK j \in DOMAIN Kids(node)[c] : n = Kids(node)[c][j]
    BY <1>3 DEF Lists!ItemsIn
  <2>2. ~node[c].isref
    BY <2>1 DEF Kids, Live
  <2>3. j \in DOMAIN List(node, c) /\ n = List(node, c)[j]
    BY <1>1, <2>1, <2>2
  <2> QED
    BY <1>2, <2>2, <2>3, PlaceBefore DEF Live
<1>4. held \subseteq Lists!Free
  BY <1>1, <1>2, <1>3 DEF Lists!Free, Lists!Placed
<1> QED
  BY <1>1, <1>4 DEF Lists!New

\* The caller makes an item: a new one with no list.
LEMMA CreateItemLists ==
  ASSUME IInv, NEW type \in Types, CreateItem(type) PROVE Lists!LNext
<1> DEFINE k == last + 1
           new == NewItem(type)
<1>1. k \in Id \ DOMAIN node /\ k \in Lists!New /\ Lists!Items = DOMAIN node
  BY FreeIs, ItemsAssumption DEF IInv, CreateItem, Id, Live
<1>2. node' = [x \in DOMAIN node \cup {k} |-> IF x = k THEN new ELSE node[x]]
  BY DEF CreateItem, NewNode, Live
<1>3. Sound(node, held) /\ Sound(node', held') /\ new.child = 0
  BY CreateItemInv DEF IInv, NewItem
<1> HIDE DEF k, new
<1>4. Kids(node') = [x \in DOMAIN node \cup {k} |-> IF x = k THEN <<>> ELSE Kids(node)[x]]
  <2>1. /\ Sound(node, held) /\ Sound(node', held') /\ k \notin DOMAIN node
    BY <1>1, <1>3
  <2>2. /\ DOMAIN node' = DOMAIN node \cup {k} /\ \A x \in DOMAIN node : node'[x] = node[x]
        /\ node'[k].child = 0
    BY <1>1, <1>2, <1>3
  <2>3. /\ DOMAIN Kids(node') = DOMAIN node \cup {k} /\ Kids(node')[k] = <<>>
        /\ \A x \in DOMAIN node : Kids(node')[x] = Kids(node)[x]
    <3>1. Grown(node, k, node')
      BY ONLY <2>1, <2>2 DEF Grown
    <3>2. OneMoreList(node, k, node')
      BY ONLY <2>1, <3>1, NewKids
    <3> QED
      BY ONLY <3>2 DEF OneMoreList
  <2>4. Kids(node') = [x \in DOMAIN Kids(node') |-> Kids(node')[x]]
    BY DEF Kids
  <2> QED
    BY <2>1, <2>3, <2>4
<1>5. /\ Lists!ItemsIn(<<k>>) = {k} /\ Lists!Last(<<k>>) = k /\ Lists!Front(<<k>>) = <<>>
  BY DEF Lists!ItemsIn, Lists!Last, Lists!Front
<1>6. Lists!Create(<<k>>)
  BY <1>1, <1>4, <1>5 DEF Lists!Create
<1> QED
  BY <1>1, <1>6 DEF Lists!LNext

\* An array of two new items.
LEMMA CreateIntArrayLists ==
  ASSUME IInv, CreateIntArray PROVE Lists!LNext
<1> DEFINE a == last + 1
           one == last + 2
           two == last + 3
           D == DOMAIN node
<1>1. /\ a \in Id \ D /\ one \in Id \ D /\ two \in Id \ D
      /\ a # one /\ a # two /\ one # two /\ Lists!Items = D
      /\ {a, one, two} \subseteq Lists!New /\ one = a + 1 /\ two = a + 2
  BY FreeIs, ItemsAssumption DEF IInv, CreateIntArray, Id, Live
<1> DEFINE fresh == [x \in Live \cup {a, a + 1, a + 2} |->
                       IF x = a THEN NewItem("array")
                       ELSE IF x \in Live THEN node[x] ELSE NewItem("leaf")]
<1>2. node' = SuffixObject([fresh EXCEPT ![a].child = a + 1], a + 1, a + 2)
  BY DEF CreateIntArray
<1> HIDE DEF a, one, two
<1>3. /\ fresh = [x \in D \cup {a, one, two} |-> fresh[x]]
      /\ \A x \in D : fresh[x] = node[x]
      /\ fresh[a] = NewItem("array") /\ fresh[one] = NewItem("leaf") /\ fresh[two] = NewItem("leaf")
  BY <1>1 DEF Live
<1> HIDE DEF fresh
<1>4. /\ DOMAIN node' = D \cup {a, one, two}
      /\ \A x \in D : node'[x] = node[x]
      /\ node'[a] = [NewItem("array") EXCEPT !.child = one]
      /\ node'[one] = [NewItem("leaf") EXCEPT !.next = two]
      /\ node'[two] = [NewItem("leaf") EXCEPT !.prev = one]
  BY <1>1, <1>2, <1>3 DEF SuffixObject
<1>5. /\ ~node'[a].isref /\ node'[a].child = one
      /\ ~node'[one].isref /\ node'[one].child = 0 /\ node'[one].next = two
      /\ ~node'[two].isref /\ node'[two].child = 0 /\ node'[two].next = 0
  BY <1>4 DEF NewItem
<1>6. Sound(node, held) /\ Sound(node', held') /\ 0 \notin Id
  BY CreateIntArrayInv DEF IInv, Id
<1> DEFINE K == [x \in D \cup {a, one, two} |->
                   IF x \in D THEN Kids(node)[x] ELSE IF x = a THEN <<one, two>> ELSE <<>>]
<1>7. /\ K = [x \in DOMAIN node' |-> K[x]] /\ K[a] = <<one, two>>
      /\ K[one] = <<>> /\ K[two] = <<>> /\ \A x \in D : K[x] = Kids(node)[x]
  BY <1>1, <1>4
<1>8. \A x \in D : Kids(node)[x] = (IF node[x].isref THEN <<>> ELSE List(node, x))
  BY DEF Kids
<1>9. K = [x \in D \cup {a, one, two} |->
             IF x \in D THEN Kids(node)[x] ELSE IF x = a THEN <<one, two>> ELSE <<>>]
  OBVIOUS
<1> HIDE DEF K
<1>10. Chained(node', one, <<one, two>>)
  <2> DEFINE s == <<one, two>>
  <2>1. s \in [1 .. 2 -> DOMAIN node'] /\ s[1] = one /\ s[2] = two
    BY <1>4
  <2> HIDE DEF s
  <2>2. \A i \in 1 .. 2 - 1 : node'[s[i]].next = s[i + 1]
    BY <1>5, <2>1
  <2>3. one # 0 /\ node'[s[2]].next = 0
    BY <1>1, <1>5, <1>6, <2>1
  <2>4. Chained(node', one, s)
    BY <2>1, <2>2, <2>3 DEF Chained
  <2> QED
    BY <2>4 DEF s
<1>11. Chained(node', 0, <<>>)
  <2>1. <<>> \in [1 .. 0 -> DOMAIN node']
    OBVIOUS
  <2> QED
    BY <2>1 DEF Chained
<1>12. ASSUME NEW x \in D, ~node[x].isref PROVE Chained(node', node'[x].child, List(node, x))
  <2>1. Chained(node, node[x].child, List(node, x))
    BY <1>6, <1>12, ListChained
  <2>2. ASSUME NEW j \in DOMAIN List(node, x)
        PROVE  /\ List(node, x)[j] \in DOMAIN node'
               /\ node'[List(node, x)[j]].next = node[List(node, x)[j]].next
    <3>1. List(node, x)[j] \in D
      BY <1>6, <1>12, PlaceBefore
    <3> QED
      BY <1>4, <3>1
  <2>3. node'[x].child = node[x].child
    BY <1>4
  <2> HIDE DEF D
  <2> QED
    BY <2>1, <2>2, <2>3, KeptChain
<1>13. \A x \in DOMAIN node' : node'[x].isref => K[x] = <<>>
  BY <1>4, <1>5, <1>7, <1>8
<1>14. ASSUME NEW x \in DOMAIN node', ~node'[x].isref PROVE Chained(node', node'[x].child, K[x])
  <2>1. CASE x \in D
    <3>1. K[x] = List(node, x) /\ ~node[x].isref
      BY <1>4, <1>7, <1>8, <1>14, <2>1
    <3> QED
      BY <1>12, <2>1, <3>1
  <2>2. CASE x = a
    BY <1>5, <1>7, <1>10, <2>2
  <2>3. CASE x = one \/ x = two
    BY <1>5, <1>7, <1>11, <2>3
  <2> QED
    BY <1>4, <1>14, <2>1, <2>2, <2>3
<1>15. Kids(node') = K
  <2>1. Sound(node', held') /\ K = [x \in DOMAIN node' |-> K[x]]
    BY <1>6, <1>7
  <2> QED
    BY ONLY <2>1, <1>13, <1>14, KidsAre
<1> DEFINE new == <<one, two, a>>
<1>16. /\ Lists!ItemsIn(new) = {a, one, two} /\ Lists!Last(new) = a
       /\ Lists!Front(new) = <<one, two>>
  <2>1. new \in Seq({a, one, two}) /\ Len(new) = 3 /\ DOMAIN new = {1, 2, 3}
        /\ new[1] = one /\ new[2] = two /\ new[3] = a
    OBVIOUS
  <2> HIDE DEF new
  <2>2. Lists!ItemsIn(new) = {a, one, two}
    BY <2>1 DEF Lists!ItemsIn
  <2>3. Lists!Last(new) = a
    BY <2>1 DEF Lists!Last
  <2>4. SubSeq(new, 1, 2) = <<one, two>>
    <3> DEFINE y == SubSeq(new, 1, 2)
    <3>1. y \in Seq({a, one, two}) /\ Len(y) = 2 /\ y[1] = one /\ y[2] = two
      BY <2>1
    <3> HIDE DEF y
    <3>2. y = <<one, two>>
      BY <3>1
    <3> QED
      BY <3>2 DEF y
  <2>5. Lists!Front(new) = <<one, two>>
    BY <2>1, <2>4 DEF Lists!Front
  <2> QED
    BY <2>2, <2>3, <2>5
<1>17. Lists!Create(new)
  <2> HIDE DEF new
  <2>1. Kids(node') = [x \in Lists!ItemsIn(new) \cup Lists!Items |->
                         IF x \in Lists!Items THEN Kids(node)[x]
                         ELSE IF x = Lists!Last(new) THEN Lists!Front(new) ELSE <<>>]
    BY <1>1, <1>9, <1>15, <1>16
  <2> QED
    BY <2>1 DEF Lists!Create
<1>18. Lists!Cardinality({one, two, a}) = 3
  <2>1. Cardinality({one, two, a}) = 3
    <3>1. IsFiniteSet({}) /\ Cardinality({}) = 0
      BY FS_EmptySet
    <3>2. IsFiniteSet({one}) /\ Cardinality({one}) = 1
      BY FS_Singleton
    <3>3. two \notin {one} /\ {one, two} = {one} \cup {two}
      BY <1>1
    <3>4. IsFiniteSet({one, two}) /\ Cardinality({one, two}) = 2
      BY <3>2, <3>3, FS_AddElement
    <3>5. a \notin {one, two} /\ {one, two, a} = {one, two} \cup {a}
      BY <1>1
    <3> QED
      BY <3>4, <3>5, FS_AddElement
  <2> QED
    BY <2>1 DEF Lists!Cardinality, Cardinality
<1> QED
  BY <1>1, <1>17, <1>18 DEF Lists!LNext

\* cJSON_AddItemToArray and ...ToObject.
LEMMA AddLists ==
  ASSUME IInv, NEW c \in Containers, NEW n \in held, Add(c, n) PROVE Lists!LNext
<1>1. /\ Sound(node, held) /\ c \in DOMAIN node /\ ~node[c].isref /\ Unshared(node, c)
      /\ c \in Lists!Items /\ n \in Lists!Free /\ n \in Live
  BY ContainerIs, HeldIs, FreeIs DEF IInv, Live
<1>2. c \notin Deleted(node, n) /\ c \notin Lists!Whole(n)
  BY <1>1, HeldIs, WholeIs DEF Add, Under, Below
<1>3. Kids(node') = [Kids(node) EXCEPT ![c] = Append(Kids(node)[c], n)]
  BY <1>1, <1>2, AddKids, AddObjectKids DEF Add
<1>4. Lists!Add(c, n)
  BY <1>2, <1>3 DEF Lists!Add
<1> QED
  BY <1>1, <1>4 DEF Lists!LNext

\* cJSON_AddItemReferenceToArray and ...ToObject: the new item has no list of its own.
LEMMA AddReferenceLists ==
  ASSUME IInv, NEW c \in Containers, NEW n \in Live, AddReference(c, n)
  PROVE  Lists!LNext \/ Kids(node') = Kids(node)
<1> DEFINE k == last + 1
           m == NewNode(k, CreateReference(node, n))
           H == held \cup {k}
<1>1. CASE UNCHANGED <<node, last>>
  BY <1>1
<1>2. ASSUME last < MaxItems,
             \/ node' = AddItemToArray(m, c, k)
             \/ \E s \in Name \cup {NoName} : node' = AddItemToObject(m, c, s, k)
      PROVE  Lists!LNext
  <2>1. m = NewNode(last + 1, CreateReference(node, n)) /\ c \notin Under(n)
    BY DEF AddReference
  <2> HIDE DEF m
  <2>2. /\ Sound(m, H) /\ k \in Id \ DOMAIN node
        /\ c \in DOMAIN m /\ ~m[c].isref /\ Unshared(m, c) /\ c \notin Deleted(m, k)
        /\ \E new \in ItemSet(DOMAIN node) :
             /\ new.isref /\ new.next = 0
             /\ m = [x \in DOMAIN node \cup {k} |-> IF x = k THEN new ELSE node[x]]
    <3>1. /\ Sound(m, held \cup {last + 1})
          /\ c \in DOMAIN m /\ ~m[c].isref /\ Unshared(m, c) /\ c \notin Deleted(m, last + 1)
          /\ last + 1 \in Id \ DOMAIN node
      BY <1>2, <2>1, ReferenceSound
    <3>2. \E new \in ItemSet(DOMAIN node) :
            /\ new.isref /\ new.next = 0
            /\ m = [x \in DOMAIN node \cup {last + 1} |->
                      IF x = last + 1 THEN new ELSE node[x]]
      BY <1>2, <2>1, ReferenceSound
    <3> QED
      BY ONLY <3>1, <3>2
  <2>3. /\ Sound(node, held) /\ c \in DOMAIN node /\ k \in Lists!New /\ Lists!Items = DOMAIN node
        /\ k \in H
    BY <2>2, ContainerIs, FreeIs DEF IInv, Live
  <2> HIDE DEF k, H
  <2>4. Kids(m) = [x \in DOMAIN node \cup {k} |-> IF x = k THEN <<>> ELSE Kids(node)[x]]
    <3>1. /\ DOMAIN m = DOMAIN node \cup {k} /\ \A x \in DOMAIN node : m[x] = node[x]
          /\ m[k].isref /\ k \notin DOMAIN node
      BY <2>2
    <3>2. Sound(node, held) /\ Sound(m, H)
      BY <2>2, <2>3
    <3>3. /\ DOMAIN Kids(m) = DOMAIN node \cup {k} /\ Kids(m)[k] = <<>>
          /\ \A x \in DOMAIN node : Kids(m)[x] = Kids(node)[x]
      <4>1. Grown(node, k, m)
        BY ONLY <3>1 DEF Grown
      <4>2. OneMoreList(node, k, m)
        BY ONLY <3>2, <4>1, NewKids
      <4> QED
        BY ONLY <4>2 DEF OneMoreList
    <3>4. Kids(m) = [x \in DOMAIN Kids(m) |-> Kids(m)[x]]
      BY DEF Kids
    <3> QED
      BY <3>1, <3>3, <3>4
  <2>5. Kids(node') = [Kids(m) EXCEPT ![c] = Append(Kids(m)[c], k)]
    <3>3. /\ Sound(m, H) /\ c \in DOMAIN m /\ ~m[c].isref /\ Unshared(m, c)
          /\ k \in H /\ c \notin Deleted(m, k)
      BY <2>2, <2>3
    <3>1. CASE node' = AddItemToArray(m, c, k)
      BY ONLY <3>1, <3>3, AddKids
    <3>2. ASSUME NEW s \in Name \cup {NoName}, node' = AddItemToObject(m, c, s, k)
          PROVE  Kids(node') = [Kids(m) EXCEPT ![c] = Append(Kids(m)[c], k)]
      BY ONLY <3>2, <3>3, AddObjectKids
    <3> QED
      BY <1>2, <3>1, <3>2
  <2>6. c # k
    BY <2>2, <2>3
  <2>7. Kids(node') = [x \in DOMAIN node \cup {k} |-> IF x = k THEN <<>>
                         ELSE IF x = c THEN Append(Kids(node)[c], k) ELSE Kids(node)[x]]
    BY <2>3, <2>4, <2>5, <2>6
  <2>8. Lists!AddNew(c, k)
    BY <2>3, <2>7 DEF Lists!AddNew
  <2> QED
    BY <2>3, <2>8 DEF Lists!LNext
<1> QED
  BY <1>1, <1>2 DEF AddReference

\* cJSON_DetachItemFromArray, cJSON_DeleteItemFromArray and ...FromObject.
LEMMA TakeOutLists ==
  ASSUME IInv, NEW c \in Containers, NEW i \in Places(c),
         DetachItemFrom(c, i) \/ DeleteItemFrom(c, i)
  PROVE  Lists!LNext
<1> DEFINE n == List(node, c)[i]
<1>1. /\ Sound(node, held) /\ c \in DOMAIN node /\ ~node[c].isref /\ Unshared(node, c)
      /\ i \in DOMAIN List(node, c) /\ c \in Lists!Items /\ Lists!Items = DOMAIN node
      /\ Kids(node)[c] = List(node, c) /\ i \in DOMAIN Kids(node)[c]
  BY ContainerIs, PlacesIn, FreeIs DEF IInv, Live
<1>2. n \in Live
  BY <1>1, PlaceBefore DEF Live
<1>3. CASE DetachItemFrom(c, i)
  <2>1. Kids(node') = [Kids(node) EXCEPT ![c] = RemoveAt(Kids(node)[c], i)]
    BY <1>1, <1>3, TakeOutKids DEF DetachItemFrom
  <2>2. Lists!Detach(c, i)
    BY <2>1 DEF Lists!Detach, Lists!RemoveAt, RemoveAt
  <2> QED
    BY <1>1, <2>2 DEF Lists!LNext
<1>4. CASE DeleteItemFrom(c, i)
  <2>1. node' = Delete(DetachItem(node, c, i), n) /\ Untouched(n)
    BY <1>4 DEF DeleteItemFrom
  <2>2. \A r \in DOMAIN node : node[r].isref => node[r].of \notin Below(node, n)
    BY <1>2, <2>1, UntouchedIs
  <2>3. Kids(node') = [x \in DOMAIN node \ Below(node, n) |->
                         IF x = c THEN RemoveAt(Kids(node)[c], i) ELSE Kids(node)[x]]
    <3>1. \A r \in DOMAIN node : node[r].isref => node[r].of \notin Below(node, List(node, c)[i])
      BY <2>2
    <3>2. Kids(Delete(DetachItem(node, c, i), List(node, c)[i])) =
            [x \in DOMAIN node \ Below(node, List(node, c)[i]) |->
               IF x = c THEN RemoveAt(Kids(node)[c], i) ELSE Kids(node)[x]]
      BY <1>1, <3>1, DeleteAtKids
    <3> QED
      BY <2>1, <3>2
  <2>4. Lists!Whole(Kids(node)[c][i]) = Below(node, n)
    BY <1>1, <1>2, WholeIs
  <2> HIDE DEF n
  <2>5. Kids(node') = [Lists!Without(Below(node, n)) EXCEPT ![c] = RemoveAt(Kids(node)[c], i)]
    BY <1>1, <2>3 DEF Lists!Without
  <2>6. Lists!DeleteAt(c, i)
    BY <2>4, <2>5 DEF Lists!DeleteAt, Lists!RemoveAt, RemoveAt
  <2> QED
    BY <1>1, <2>6 DEF Lists!LNext
<1> QED
  BY <1>3, <1>4

\* cJSON_ReplaceItemInArray and ...InObject.
LEMMA ReplaceLists ==
  ASSUME IInv, NEW c \in Containers, NEW i \in Places(c), NEW n \in held,
         ReplaceItemIn(c, i, n)
  PROVE  Lists!LNext
<1> DEFINE b == List(node, c)[i]
<1>1. /\ Sound(node, held) /\ c \in DOMAIN node /\ ~node[c].isref /\ Unshared(node, c)
      /\ i \in DOMAIN List(node, c) /\ c \in Lists!Items /\ Lists!Items = DOMAIN node
      /\ Kids(node)[c] = List(node, c) /\ i \in DOMAIN Kids(node)[c]
      /\ n \in Lists!Free /\ n \in Live
  BY ContainerIs, PlacesIn, HeldIs, FreeIs DEF IInv, Live
<1>2. c \notin Deleted(node, n) /\ c \notin Lists!Whole(n) /\ n \in DOMAIN node
  BY <1>1, HeldIs, WholeIs DEF ReplaceItemIn, Under, Below
<1>3. b \in Live
  BY <1>1, PlaceBefore DEF Live
<1>4. \A r \in DOMAIN node : node[r].isref => node[r].of \notin Below(node, b)
  BY <1>3, UntouchedIs DEF ReplaceItemIn
<1>5. Kids(node') = [x \in DOMAIN node \ Below(node, b) |->
                       IF x = c THEN ReplaceAt(Kids(node)[c], i, n) ELSE Kids(node)[x]]
  <2>1. CASE node' = ReplaceItem(node, c, i, n)
    <3>1. \A r \in DOMAIN node : node[r].isref => node[r].of \notin Below(node, List(node, c)[i])
      BY <1>4
    <3>2. Kids(ReplaceItem(node, c, i, n)) =
            [x \in DOMAIN node \ Below(node, List(node, c)[i]) |->
               IF x = c THEN ReplaceAt(Kids(node)[c], i, n) ELSE Kids(node)[x]]
      BY <1>1, <1>2, <3>1, ReplaceKids
    <3> QED
      BY <2>1, <3>2
  <2>2. ASSUME NEW t \in Name \cup {NoName},
               node' = ReplaceItem([node EXCEPT ![n].string = t], c, i, n)
        PROVE  Kids(node') = [x \in DOMAIN node \ Below(node, b) |->
                 IF x = c THEN ReplaceAt(Kids(node)[c], i, n) ELSE Kids(node)[x]]
    <3> DEFINE m == [node EXCEPT ![n].string = t]
    <3>1. Renamed(node, m) /\ DOMAIN m = DOMAIN node /\ node' = ReplaceItem(m, c, i, n)
      BY <1>1, <1>2, <2>2, StringSet
    <3> HIDE DEF m
    <3>2. Sound(m, held) /\ Deleted(m, n) = Deleted(node, n) /\ Kids(m) = Kids(node)
      BY <1>1, <1>2, <3>1, RenameSound, RenameKids
    <3>3. \A x \in DOMAIN node : m[x].isref = node[x].isref /\ m[x].of = node[x].of
      BY <3>1 DEF Renamed, Rewired
    <3>4. Unshared(m, c) /\ ~m[c].isref /\ c \in DOMAIN m
      BY <1>1, <3>1, <3>3 DEF Unshared
    <3>5. /\ List(m, c) = List(node, c)
          /\ \A x \in DOMAIN node : Below(m, x) = Below(node, x)
      BY <1>1, <3>1, SameList
    <3>6. Below(m, List(m, c)[i]) = Below(node, b)
      BY <1>3, <3>5 DEF Live
    <3>7. \A r \in DOMAIN m : m[r].isref => m[r].of \notin Below(m, List(m, c)[i])
      BY <1>4, <3>1, <3>3, <3>6
    <3>8. i \in DOMAIN List(m, c) /\ c \notin Deleted(m, n)
      BY <1>1, <1>2, <3>2, <3>5
    <3>9. Kids(node') = [x \in DOMAIN m \ Below(m, List(m, c)[i]) |->
                           IF x = c THEN ReplaceAt(Kids(m)[c], i, n) ELSE Kids(m)[x]]
      BY <3>1, <3>2, <3>4, <3>7, <3>8, ReplaceKids
    <3> HIDE DEF b
    <3> QED
      BY <3>1, <3>2, <3>6, <3>9
  <2> QED
    BY <2>1, <2>2 DEF ReplaceItemIn
<1>6. Lists!Whole(Kids(node)[c][i]) = Below(node, b)
  BY <1>1, <1>3, WholeIs
<1>7. c \notin Below(node, b)
  BY <1>1, NotBelowKid
<1> HIDE DEF b
<1>8. Kids(node') = [Lists!Without(Below(node, b)) EXCEPT ![c] = ReplaceAt(Kids(node)[c], i, n)]
  BY <1>1, <1>5, <1>7 DEF Lists!Without
<1>9. Lists!Replace(c, i, n)
  BY <1>2, <1>6, <1>8 DEF Lists!Replace, Lists!ReplaceAt, ReplaceAt
<1> QED
  BY <1>1, <1>9 DEF Lists!LNext

\* cJSON_Delete of what the caller holds.
LEMMA DeleteRootLists ==
  ASSUME IInv, NEW n \in held, DeleteRoot(n) PROVE Lists!LNext
<1>1. /\ Sound(node, held) /\ Sound(node', held') /\ node' = Delete(node, n)
      /\ n \in Lists!Free /\ n \in Live /\ Lists!Items = DOMAIN node
      /\ Lists!Whole(n) = Deleted(node, n)
  BY DeleteRootInv, HeldIs, FreeIs, WholeIs DEF IInv, DeleteRoot, Live, Under, Below
<1>2. Kids(node') = [x \in DOMAIN node \ Deleted(node, n) |-> Kids(node)[x]]
  BY <1>1, DeleteKids
<1>3. Lists!Delete(n)
  BY <1>1, <1>2 DEF Lists!Delete, Lists!Without
<1> QED
  BY <1>1, <1>3 DEF Lists!LNext

\* Every step is one of a list, or does nothing to the lists.
LEMMA StepIsList ==
  ASSUME IInv, [Next]_vars PROVE [Lists!LNext]_(Kids(node))
<1>1. CASE UNCHANGED vars
  BY <1>1 DEF vars
<1>2. CASE Next
  BY <1>2, CreateItemLists, CreateIntArrayLists, AddLists, AddReferenceLists, TakeOutLists,
     ReplaceLists, DeleteRootLists DEF Next
<1> QED
  BY <1>1, <1>2

\* There are no lists at first.
LEMMA InitIsList == Init => Lists!LInit
<1> SUFFICES ASSUME Init PROVE Lists!LInit
  OBVIOUS
<1>1. DOMAIN node = {}
  BY DEF Init
<1>2. Kids(node) = <<>>
  BY <1>1 DEF Kids
<1> QED
  BY <1>2 DEF Lists!LInit

\* Whatever is created, added, detached, replaced and deleted (cjson.c,
\* cJSON_AddItemToArray, create_reference, cJSON_DetachItemFromArray,
\* cJSON_ReplaceItemInArray, cJSON_Delete), the links always are the lists that
\* CJsonLists promises.
THEOREM LinksImplementLists == Spec => ImplementsLists
<1>1. IInv /\ [Next]_vars => [Lists!LNext]_(Kids(node))
  BY StepIsList
<1> QED
  BY <1>1, InitIsList, AlwaysSound, PTL DEF Spec, ImplementsLists, Lists!LSpec
=============================================================================
