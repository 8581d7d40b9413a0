------------------------------ MODULE MCMdnsWire ------------------------------
(***************************************************************************)
(* The records of a host with one service, as mdnsd_set_hostname and       *)
(* mdnsd_register_svc make them, and those of a service of another host    *)
(* whose TXT string is as long as create_label allows.                     *)
(***************************************************************************)
EXTENDS MdnsWire

MCWidth == [w \in {"h", "g", "s", "r", "_http", "_tcp", "local", "k=v", "long", "limit",
                   "garbled"} |->
              CASE w = "limit" -> 63 [] w = "long" -> 62 [] w \in {"_http", "local"} -> 5
                [] w = "_tcp" -> 4 [] w = "k=v" -> 3 [] OTHER -> 1]

Host == CreateNlabel(<<"h", ".", "local">>)
Other == CreateNlabel(<<"g", ".", "local">>)
Type == CreateNlabel(<<"_http", ".", "_tcp", ".", "local">>)
Instance(w) == JoinNlabel(CreateNlabel(<<w>>), Type)

Srv(w, host) == Rr(Instance(w), "SRV", 1, [port |-> 80, target |-> host])
MCRecords ==
  { Rr(Host, "A", 1, 1), Rr(Host, "NSEC", 1, "A"), Srv("s", Host),
    RrAddTxt(RrAddTxt(Rr(Instance("s"), "TXT", 1, <<>>), "k=v"), "long"),
    RrCreatePtr(Type, Srv("s", Host)),
    RrCreatePtr(CreateNlabel(<<"s", ".", "_tcp", ".", "local">>), RrCreatePtr(Type, Srv("s", Host))),
    Rr(Other, "AAAA", 1, 6), RrAddTxt(Rr(Instance("r"), "TXT", 1, <<>>), "limit") }

Question(name, type, unicast) ==
  [name |-> name, type |-> type, unicast_query |-> unicast, rr_class |-> 1 + 32768 * unicast]
MCQuestions ==
  {Question(Type, "PTR", 0), Question(Host, "A", 1), Question(Instance("s"), "ANY", 0)}
=============================================================================
