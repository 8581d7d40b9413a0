------------------------------- MODULE MdnsWire -------------------------------
(***************************************************************************)
(* A packet is put together record by record, as main_loop, announce_srv   *)
(* and another host do it, is encoded, and is read by a responder on the   *)
(* link (the sender is one: IP_MULTICAST_LOOP is on).                      *)
(***************************************************************************)
EXTENDS MdnsPacket

CONSTANTS Records,      \* the records a host may send
          Questions,    \* the questions a host may ask
          MaxRecords    \* bound: records or questions in a section

VARIABLES
  qn, ans, add,  \* the sections of the packet
  wire,          \* what was written of it
  got,           \* what was read
  stage          \* "building", "sent" or "read"

vars == <<qn, ans, add, wire, got, stage>>

NothingRead == [ok |-> FALSE, flags |-> 0, qn |-> <<>>, ans |-> <<>>]
Response == 32768 + 1024    \* MDNS_FLAG_RESP | MDNS_FLAG_AA

Init ==
  /\ qn = <<>> /\ ans = <<>> /\ add = <<>>
  /\ wire = NothingWritten /\ got = NothingRead /\ stage = "building"

\* A question of another host; the records in its packet are what it knows.
AddQuestion(q) ==
  /\ stage = "building" /\ Len(qn) < MaxRecords /\ ans = <<>> /\ add = <<>>
  /\ qn' = Append(qn, q)
  /\ UNCHANGED <<ans, add, wire, got, stage>>

\* rr_list_append to one of the sections.
AddAnswer(r) ==
  /\ stage = "building" /\ Len(ans) < MaxRecords /\ ~Contains(ans, r) /\ add = <<>>
  /\ ans' = Append(ans, r)
  /\ UNCHANGED <<qn, add, wire, got, stage>>

AddAdditional(r) ==
  /\ stage = "building" /\ Len(add) < MaxRecords /\ ~Contains(add, r) /\ qn = <<>>
  /\ add' = Append(add, r)
  /\ UNCHANGED <<qn, ans, wire, got, stage>>

\* The question of another host, which does not compress names.
WriteQuestion(out, q) ==
  LET name == FoldLeft(LAMBDA o, w : Write(o, "label", w, Width[w] + 1), out, q.name)
  IN  Write(Write(Write(name, "root", 0, 1), "num", q.type, 2),
            "num", q.rr_class, 2)

\* mdns_encode_pkt, which writes no questions; or what another host writes.
Send ==
  /\ stage = "building"
  /\ wire' = IF qn = <<>>
               THEN EncodePkt([flags |-> Response, ans |-> ans, add |-> add])
               ELSE WriteRrs(FoldLeft(WriteQuestion,
                                      WriteHeader(0, <<Len(qn), Len(ans), 0, 0>>), qn), ans)
  /\ stage' = "sent"
  /\ UNCHANGED <<qn, ans, add, got>>

\* mdns_parse_pkt, of a packet that came out of send_packet.
Receive ==
  /\ stage = "sent" /\ wire.ok
  /\ got' = ParsePkt(wire)
  /\ stage' = "read"
  /\ UNCHANGED <<qn, ans, add, wire>>

Next ==
  \/ \E q \in Questions : AddQuestion(q)
  \/ \E r \in Records : AddAnswer(r) \/ AddAdditional(r)
  \/ Send
  \/ Receive

Spec == Init /\ [][Next]_vars

-----------------------------------------------------------------------------
(* Properties. *)

\* A pointer reaches no further than PointerRange, so names are read as they
\* were written only in packets up to that size.
Reachable == wire.off <= PointerRange

\* What a reader of the answers makes of a record: it knows nothing of the data
\* of an SRV or an NSEC, and leaves the flag in the class.
AsRead(r) ==
  [r EXCEPT !.rr_class = @ + 32768 * r.cache_flush,
            !.data = IF r.type \in {"SRV", "NSEC"} THEN <<>> ELSE @]

\* The strings of TXT records that dup_label refuses although create_label makes
\* them: 63 bytes.
Refused(r) == r.type = "TXT" /\ \E i \in DOMAIN r.data : Width[r.data[i]] = 63

\* What mdns_encode_pkt writes, mdns_parse_pkt reads: the same questions and
\* answers, however their names were compressed, or nothing at all because of a
\* TXT string of 63 bytes among the answers.
RoundTrip ==
  (stage = "read" /\ Reachable) =>
    /\ got.ok <=> \A i \in DOMAIN ans : ~Refused(ans[i])
    /\ got.ok => got.qn = qn /\ got.ans = [i \in DOMAIN ans |-> AsRead(ans[i])]

\* Every pointer, also in the additional section that mdns_parse_pkt does not
\* read, leads to an earlier label: a reader that takes what it finds there for
\* a label, as uncompress_nlabel does, comes to an end.
PointersLand ==
    \A i \in DOMAIN wire.items :
      LET p == wire.items[i] IN
        p.kind = "ptr" => /\ p.val < p.at
                          /\ HasItem(wire, p.val)
                          /\ ItemAt(wire, p.val).kind = "label"

\* Whoever skips the data of a record by its length comes to the next record,
\* through all sections and to the end of the packet.
RECURSIVE Skip(_, _)
Skip(off, n) ==
  IF n = 0 THEN off
  ELSE LET p == off + LabelLen(wire, off)
       IN  IF HasItem(wire, p + 8) THEN Skip(p + 10 + Read(wire, p + 8), n - 1) ELSE 0
LengthsLead == qn = <<>> => Skip(12, Len(ans) + Len(add)) = wire.off

\* What is sent fits the buffer, and whoever walks through it comes to its end.
CanBeWalked ==
  /\ (stage # "building" /\ wire.ok) => wire.off < PacketSize
  /\ (stage = "read" /\ Reachable) => PointersLand /\ LengthsLead
=============================================================================
