------------------------------ MODULE CJsonItems ------------------------------
(***************************************************************************)
(* The items of cJSON (cjson.c) in memory and what a caller does with      *)
(* them.  Items are linked by next, prev and child; 0 is no item.  A       *)
(* reference is a copy of an item that shares its child and its string.    *)
(*                                                                         *)
(* The caller keeps the rules of the header: it adds and replaces only     *)
(* with items that are in its own hands, and it leaves alone what it has   *)
(* made a reference of, and the list of a reference, while that exists.    *)
(***************************************************************************)
EXTENDS Integers, Sequences, FiniteSets, SequencesExt

CONSTANTS Name,         \* the names of an object's items
          Types,        \* the types of items the caller makes
          MaxItems      \* bound: items ever allocated

ASSUME ItemsAssumption == MaxItems \in Nat

Id == 1 .. MaxItems
Lower == [n \in Name |-> IF n = "A" THEN "a" ELSE n]
NoName == "none"

VARIABLES
  node,      \* the items there are
  last,      \* the item that was allocated last
  held       \* the items in the hands of the caller

vars == <<node, last, held>>

Live == DOMAIN node

\* cJSON_New_Item, cJSON_CreateNull and the others.  "of" is not in the code: it
\* says what a reference was made of.
NewItem(type) ==
  [type |-> type, isref |-> FALSE, of |-> 0, child |-> 0, next |-> 0, prev |-> 0,
   string |-> NoName]

Init == node = <<>> /\ last = 0 /\ held = {}

-----------------------------------------------------------------------------
(* The functions of cjson.c on a memory m. *)

\* Where a walk from c is after k items, 0 behind the last: the loop of
\* cJSON_GetArrayItem.
After(m, x) == IF x = 0 THEN 0 ELSE m[x].next
Walk(m, c) == LET at[k \in Nat] == IF k = 0 THEN c ELSE After(m, at[k - 1]) IN at

\* The items it comes by in an array.
List(m, array) ==
  LET at == Walk(m, m[array].child)
  IN  [k \in {k \in Id : at[k - 1] # 0} |-> at[k - 1]]

\* cJSON_strcasecmp; nothing is like no name.
SameName(s1, s2) == s1 # NoName /\ Lower[s1] = Lower[s2]

\* The place of an object's item of a name: cJSON_GetObjectItem.
PlacesOf(m, object, string) ==
  LET like == {i \in DOMAIN List(m, object) : SameName(m[List(m, object)[i]].string, string)}
  IN  {i \in like : \A k \in like : i <= k}

\* suffix_object
SuffixObject(m, prev, item) == [m EXCEPT ![prev].next = item, ![item].prev = prev]

\* Mutant: the new item comes first.
AddItemToArrayFirst(m, array, item) ==
  IF m[array].child = 0 THEN [m EXCEPT ![array].child = item]
  ELSE SuffixObject([m EXCEPT ![array].child = item], item, m[array].child)

\* cJSON_AddItemToArray
AddItemToArray(m, array, item) ==
  IF m[array].child = 0 THEN [m EXCEPT ![array].child = item]
  ELSE SuffixObject(m, Last(List(m, array)), item)

\* cJSON_AddItemToObject; strdup may have failed, and string is then no name.
AddItemToObject(m, object, string, item) ==
  AddItemToArray([m EXCEPT ![item].string = string], object, item)

\* Mutant: the reference keeps its place in the list of the original.
CreateReferenceInPlace(m, item) == [m[item] EXCEPT !.string = NoName, !.isref = TRUE, !.of = item]

\* create_reference
CreateReference(m, item) ==
  [m[item] EXCEPT !.string = NoName, !.isref = TRUE, !.of = item, !.next = 0, !.prev = 0]

\* cJSON_DetachItemFromArray
DetachItem(m, array, i) ==
  LET c == List(m, array)[i]
      before == IF m[c].prev # 0 THEN [m EXCEPT ![m[c].prev].next = m[c].next] ELSE m
      both == IF m[c].next # 0 THEN [before EXCEPT ![m[c].next].prev = m[c].prev] ELSE before
  IN  [both EXCEPT ![array].child = IF c = m[array].child THEN m[c].next ELSE @,
                   ![c].prev = 0, ![c].next = 0]

\* Mutant: what is below a reference is deleted with it.
OwnsChildAlways(m, c) == m[c].child # 0
OwnsChild(m, c) == ~m[c].isref /\ m[c].child # 0

\* Where cJSON_Delete goes from an item.
Onward(m, x) == ({m[x].next} \cup (IF OwnsChild(m, x) THEN {m[x].child} ELSE {})) \ {0}

\* cJSON_Delete: the items it frees, all it comes by; also those behind c in its
\* list.
Deleted(m, c) ==
  LET seen[k \in Nat] ==
        IF k = 0 THEN {c}
        ELSE LET S == seen[k - 1] IN S \cup UNION {Onward(m, x) : x \in S}
  IN  seen[Cardinality(DOMAIN m)]
Delete(m, c) == [n \in DOMAIN m \ Deleted(m, c) |-> m[n]]

\* cJSON_ReplaceItemInArray
ReplaceItem(m, array, i, new) ==
  LET c == List(m, array)[i]
      placed == [m EXCEPT ![new].next = m[c].next, ![new].prev = m[c].prev]
      after == IF m[c].next # 0 THEN [placed EXCEPT ![m[c].next].prev = new] ELSE placed
      before == IF c = m[array].child THEN [after EXCEPT ![array].child = new]
                ELSE [after EXCEPT ![m[c].prev].next = new]
  IN  Delete([before EXCEPT ![c].next = 0, ![c].prev = 0], c)

-----------------------------------------------------------------------------
(* The caller. *)

\* An item with all below it.
Under(n) == {n} \cup (IF OwnsChild(node, n) THEN Deleted(node, node[n].child) ELSE {})

\* What a reference shares: the item it was made of and all below.
Shared == UNION {Under(node[r].of) : r \in {x \in Live : node[x].isref /\ node[x].of \in Live}}

\* Where the caller adds and takes away.
IsArray(c) == node[c].type = "array"
IsObject(c) == node[c].type = "object"
Containers == {c \in Live : (IsArray(c) \/ IsObject(c)) /\ ~node[c].isref} \ Shared
Untouched(n) == Under(n) \cap Shared = {}
NewNode(n, record) == [x \in Live \cup {n} |-> IF x = n THEN record ELSE node[x]]

CreateItem(type) ==
  /\ last < MaxItems
  /\ last' = last + 1 /\ node' = NewNode(last', NewItem(type)) /\ held' = held \cup {last'}

\* cJSON_CreateIntArray of two numbers (and the arrays of floats and strings).
CreateIntArray ==
  /\ last + 3 <= MaxItems
  /\ LET a == last + 1
         fresh == [x \in Live \cup {a, a + 1, a + 2} |->
                     IF x = a THEN NewItem("array")
                     ELSE IF x \in Live THEN node[x] ELSE NewItem("leaf")]
     IN  node' = SuffixObject([fresh EXCEPT ![a].child = a + 1], a + 1, a + 2)
  /\ last' = last + 3 /\ held' = held \cup {last + 1}

Add(c, n) ==
  /\ c \notin Under(n)
  /\ \/ /\ IsArray(c)
        /\ node' = AddItemToArray(node, c, n)
     \/ /\ IsObject(c)
        /\ \E s \in Name \cup {NoName} : node' = AddItemToObject(node, c, s, n)
  /\ held' = held \ {n}
  /\ UNCHANGED last

\* cJSON_AddItemReferenceToArray and ...ToObject; without memory they do nothing.
AddReference(c, n) ==
  /\ c \notin Under(n)
  /\ \/ /\ last < MaxItems
        /\ LET m == NewNode(last + 1, CreateReference(node, n)) IN
             \/ IsArray(c) /\ node' = AddItemToArray(m, c, last + 1)
             \/ IsObject(c)
                  /\ \E s \in Name \cup {NoName} : node' = AddItemToObject(m, c, s, last + 1)
        /\ last' = last + 1
     \/ UNCHANGED <<node, last>>
  /\ UNCHANGED held

\* The places a caller names in a container: a number, or an item's name.
Places(c) ==
  IF IsArray(c) THEN DOMAIN List(node, c) ELSE UNION {PlacesOf(node, c, s) : s \in Name}

\* cJSON_DetachItemFromArray and ...FromObject
DetachItemFrom(c, i) ==
  /\ node' = DetachItem(node, c, i)
  /\ held' = held \cup {List(node, c)[i]}
  /\ UNCHANGED last

\* cJSON_DeleteItemFromArray and ...FromObject
DeleteItemFrom(c, i) ==
  /\ Untouched(List(node, c)[i])
  /\ LET n == List(node, c)[i] IN node' = Delete(DetachItem(node, c, i), n)
  /\ UNCHANGED <<held, last>>

\* cJSON_ReplaceItemInArray and ...InObject; the copy of the name may fail.
ReplaceItemIn(c, i, n) ==
  /\ c \notin Under(n) /\ Untouched(List(node, c)[i])
  /\ \/ IsArray(c) /\ node' = ReplaceItem(node, c, i, n)
     \/ IsObject(c)
          /\ \E s \in Name :
               /\ i \in PlacesOf(node, c, s)
               /\ \E t \in {s, NoName} :
                    node' = ReplaceItem([node EXCEPT ![n].string = t], c, i, n)
  /\ held' = held \ {n}
  /\ UNCHANGED last

DeleteRoot(n) ==
  /\ Untouched(n)
  /\ node' = Delete(node, n) /\ held' = held \ {n}
  /\ UNCHANGED last

Next ==
  \/ \E t \in Types : CreateItem(t)
  \/ CreateIntArray
  \/ \E c \in Containers :
       \/ \E n \in held : Add(c, n)
       \/ \E n \in Live : AddReference(c, n)
       \/ \E i \in Places(c) :
            DetachItemFrom(c, i) \/ DeleteItemFrom(c, i) \/ \E n \in held : ReplaceItemIn(c, i, n)
  \/ \E n \in held : DeleteRoot(n)

Spec == Init /\ [][Next]_vars

-----------------------------------------------------------------------------
(* Properties. *)

TypeOK ==
  /\ Live \subseteq 1 .. last /\ last \in 0 .. MaxItems
  /\ held \subseteq Live
  /\ \A n \in Live :
       /\ node[n].string \in Name \cup {NoName}
       /\ {node[n].child, node[n].next, node[n].prev} \subseteq Live \cup {0}

\* Every link leads to an item that is still there, the lists can be walked both
\* ways, and nothing is in the caller's hands and in a list: whatever was added,
\* detached, replaced or deleted before.
LinksMirror ==
  /\ TypeOK
  /\ \A n \in Live :
       /\ node[n].next # 0 => node[node[n].next].prev = n
       /\ node[n].prev # 0 => node[node[n].prev].next = n
       /\ (node[n].child # 0 /\ ~node[n].isref) => node[node[n].child].prev = 0
       /\ n \in held => node[n].next = 0 /\ node[n].prev = 0

\* The links cJSON_Delete follows to an item, each with the item it starts from.
LinksTo(n) ==
  {l \in Live \X {"next", "child"} :
     IF l[2] = "next" THEN node[l[1]].next = n
     ELSE OwnsChild(node, l[1]) /\ node[l[1]].child = n}

\* Everything can be given back at any time: deleting all the caller holds frees
\* every item and none twice, for to each leads one link, or none and the caller
\* holds it.
AllGivenBack ==
  /\ UNION {Deleted(node, n) : n \in held} = Live
  /\ \A n, k \in held : n # k => Deleted(node, n) \cap Deleted(node, k) = {}
  /\ \A n \in held : LinksTo(n) = {}
  /\ \A n \in Live : \A l1, l2 \in LinksTo(n) : l1 = l2

\* The items of a memory with their lists are what CJsonLists promises.
Kids(m) == [n \in DOMAIN m |-> IF m[n].isref THEN <<>> ELSE List(m, n)]
Lists == INSTANCE CJsonLists WITH kids <- Kids(node)
ImplementsLists == Lists!LSpec
=============================================================================
