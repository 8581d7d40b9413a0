----------------------------- MODULE MdnsRecords -----------------------------
(***************************************************************************)
(* The resource records of the mDNS responder and the lists they are kept  *)
(* in (mdns.c).                                                            *)
(*                                                                         *)
(* A record is known by its address: two records with the same contents    *)
(* are two records.  Here a record is <<s, t>>, the one of type t that was *)
(* made for service s or for the host; what it says is given by NameOf,    *)
(* TypeOf and TargetOf.  A list of records is a sequence of them.          *)
(***************************************************************************)
EXTENDS Integers, Sequences, FiniteSets

CONSTANTS Service,    \* the services that may be registered
          SvcType,    \* SvcType[s]: the name of the type of service s
          HasTxt,     \* the services registered with TXT strings
          Host,       \* the name of the host
          DnsSd       \* the name of the list of all types of services

ASSUME RecordsAssumption ==
  /\ Host \notin Service /\ DnsSd \notin Service
  /\ HasTxt \subseteq Service
  /\ SvcType \in [Service -> STRING]

\* The records of a service: txt_e, srv_e, ptr_e and bptr_e of
\* mdnsd_register_svc; and those of the host.
RecordsOf(s) ==
  (IF s \in HasTxt THEN << <<s, "TXT">> >> ELSE <<>>)
    \o << <<s, "SRV">>, <<s, "PTR">>, <<s, "BPTR">> >>
HostRecords == << <<Host, "A">>, <<Host, "NSEC">> >>
Record == ((Service \cup {Host}) \X {"TXT", "SRV", "PTR", "BPTR", "A", "AAAA", "NSEC"})

TypeOf(e) == IF e[2] = "BPTR" THEN "PTR" ELSE e[2]

\* A service's own name is that of its instance; its PTR is filed under its
\* type, and its type under DnsSd.
NameOf(e) ==
  CASE e[2] = "PTR" -> SvcType[e[1]]
    [] e[2] = "BPTR" -> DnsSd
    [] OTHER -> e[1]
Names == Service \cup {Host, DnsSd} \cup {SvcType[s] : s \in Service}

\* Where a PTR or an SRV points: MDNS_RR_GET_PTR_NAME, data.SRV.target.
TargetOf(e) ==
  CASE e[2] = "PTR" -> e[1]
    [] e[2] = "BPTR" -> SvcType[e[1]]
    [] OTHER -> Host

Members(list) == {list[i] : i \in DOMAIN list}

\* What a walk over a list picks: its members that are in S, in their order.
Kept(list, S) ==
  LET at == {k \in DOMAIN list : list[k] \in S}
      Rank(k) == Cardinality({x \in at : x <= k})
  IN  [m \in 1 .. Cardinality(at) |-> list[CHOOSE k \in at : Rank(k) = m]]

\* rr_list_append: a record is in a list once.
RrListAppend(list, e) == IF e \in Members(list) THEN list ELSE Append(list, e)

\* Mutant: the node is unlinked in a copy of the head.
RrListRemoveNothing(list, e) == list

\* rr_list_remove: the node with the record.
RrListRemove(list, e) == Kept(list, Members(list) \ {e})

\* rr_group_add; group gives the records filed under each name.
RrGroupAdd(group, e) == [group EXCEPT ![NameOf(e)] = RrListAppend(@, e)]

EmptyGroup == [n \in Names |-> <<>>]

\* rr_entry_match: does what a packet says, known, match record e?
Matches(known, e) ==
  /\ known.type = TypeOf(e)
  /\ known.name = NameOf(e)
  /\ TypeOf(e) = "PTR" => known.target = TargetOf(e)

DefaultTtl == 120
=============================================================================
