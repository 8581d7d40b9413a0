------------------------------- MODULE MCMdnsd -------------------------------
(***************************************************************************)
(* Two services of the same type, one of them with TXT strings, and the    *)
(* packets of another host on the link.                                    *)
(***************************************************************************)
EXTENDS Mdnsd

MCSvcType == [s \in Service |-> "t"]

Ask(qn, ans) == [query |-> TRUE, qn |-> qn, ans |-> ans]
Qn(name, type) == [name |-> name, type |-> type, unicast |-> FALSE]
PtrKnown(s, ttl) == [name |-> "t", type |-> "PTR", target |-> s, ttl |-> ttl]

MCPackets ==
  { NoPacket,
    Ask(<<Qn("t", "PTR")>>, <<>>),
    Ask(<<Qn("t", "PTR"), Qn("t", "ANY")>>, <<PtrKnown("s1", 60)>>),
    Ask(<<Qn("s1", "ANY"), Qn("h", "NSEC"), [Qn("h", "A") EXCEPT !.unicast = TRUE]>>, <<>>),
    Ask(<<Qn(DnsSd, "PTR"), Qn("t", "PTR")>>, <<PtrKnown("s1", 59), PtrKnown("s2", 120)>>) }
=============================================================================
