-------------------------------- MODULE Mdnsd --------------------------------
(***************************************************************************)
(* The mDNS responder (mdnsd.c) as the workshop builds it: the responder   *)
(* thread takes its packet from a global buffer instead of a socket, and   *)
(* ends the process when the buffer is empty (main_loop).                  *)
(*                                                                         *)
(* The thread answers queries and announces services; other threads        *)
(* register services and stop the responder.  What they share is guarded   *)
(* by data_lock, which is held for one list at a time: every action below  *)
(* is one critical section, or a step on the thread's own packets.         *)
(***************************************************************************)
EXTENDS MdnsRecords

CONSTANTS Packets,     \* the packets somebody may send
          MaxPackets   \* bound: packets put into the buffer

ASSUME PacketsAssumption ==
  /\ MaxPackets \in Nat
  /\ Packets \subseteq
       [query : BOOLEAN,
        qn : Seq([name : STRING, type : STRING, unicast : BOOLEAN]),
        ans : Seq([name : STRING, type : STRING, target : STRING, ttl : Nat])]

VARIABLES
  buffered,   \* global_data_size > 0
  fed,        \* packets put into the buffer so far
  exited,     \* the process has ended
  group,      \* mdnsd.group: the records, by name
  announce,   \* mdnsd.announce
  services,   \* mdnsd.services
  hostname,   \* mdnsd.hostname is set
  stop_flag,  \* mdnsd.stop_flag
  stopper,    \* mdnsd_stop: not called, waiting, or done
  pc,         \* where the responder thread is
  pkt,        \* the packet it is answering
  i, j,       \* its places in lists
  reply,      \* mdns_reply
  zeroed,     \* records whose ttl was set to 0
  sent        \* the packet that was sent last

loopVars == <<pkt, i, j, reply>>
dataVars == <<group, announce, services, hostname>>
vars == <<buffered, fed, exited, dataVars, stop_flag, stopper, pc, loopVars,
          zeroed, sent>>

NoPacket == [query |-> FALSE, qn |-> <<>>, ans |-> <<>>]
NoReply == [ans |-> <<>>, add |-> <<>>, num_ans |-> 0, num_add |-> 0]
NothingSent == [kind |-> "none", reply |-> NoReply]

Init ==
  /\ buffered \in BOOLEAN
  /\ fed = IF buffered THEN 1 ELSE 0
  /\ exited = FALSE
  /\ group = EmptyGroup /\ announce = <<>> /\ services = <<>> /\ hostname = FALSE
  /\ stop_flag = 0 /\ stopper = "none"
  /\ pc = "loop" /\ pkt = NoPacket /\ i = 1 /\ j = 1 /\ reply = NoReply
  /\ zeroed = {} /\ sent = NothingSent

-----------------------------------------------------------------------------
(* The threads that use the responder. *)

Running == ~exited

\* The buffer is filled again.
Feed ==
  /\ Running /\ ~buffered /\ fed < MaxPackets
  /\ buffered' = TRUE /\ fed' = fed + 1
  /\ UNCHANGED <<exited, dataVars, stop_flag, stopper, pc, loopVars, zeroed, sent>>

\* mdnsd_set_hostname, which is called once.
SetHostname ==
  /\ Running /\ stopper = "none" /\ ~hostname
  /\ hostname' = TRUE
  /\ group' = RrGroupAdd(RrGroupAdd(group, HostRecords[1]), HostRecords[2])
  /\ UNCHANGED <<buffered, fed, exited, announce, services, stop_flag, stopper,
                 pc, loopVars, zeroed, sent>>

\* mdnsd_add_rr: a record more, here an address of the host.
AddRr ==
  /\ Running /\ stopper = "none" /\ <<Host, "AAAA">> \notin Members(group[Host])
  /\ group' = RrGroupAdd(group, <<Host, "AAAA">>)
  /\ UNCHANGED <<buffered, fed, exited, announce, services, hostname, stop_flag,
                 stopper, pc, loopVars, zeroed, sent>>

\* The group with the records of a service.
Filed(g, s) ==
  LET txt == IF s \in HasTxt THEN RrGroupAdd(g, <<s, "TXT">>) ELSE g
  IN  RrGroupAdd(RrGroupAdd(RrGroupAdd(txt, <<s, "SRV">>), <<s, "PTR">>), <<s, "BPTR">>)

\* mdnsd_register_svc without a hostname of its own: it asserts that there is
\* one, and files all records in one critical section.
RegisterSvc(s) ==
  /\ Running /\ stopper = "none" /\ hostname
  /\ <<s, "PTR">> \notin Members(services)
  /\ group' = Filed(group, s)
  /\ announce' = RrListAppend(announce, <<s, "PTR">>)
  /\ services' = RrListAppend(services, <<s, "PTR">>)
  /\ UNCHANGED <<buffered, fed, exited, hostname, stop_flag, stopper, pc, loopVars,
                 zeroed, sent>>

\* Mutant: mdnsd_stop does not wait for the thread.
FlagSeenAny == stop_flag # 0
FlagSeen == stop_flag = 2

\* mdnsd_stop: set the flag, wait until it is 2, then give everything back.
\* Nobody registers a service at the same time or later.
StopCall ==
  /\ Running /\ stopper = "none"
  /\ stop_flag' = 1 /\ stopper' = "waiting"
  /\ UNCHANGED <<buffered, fed, exited, dataVars, pc, loopVars, zeroed, sent>>

StopReturn ==
  /\ Running /\ stopper = "waiting" /\ FlagSeen
  /\ stopper' = "done"
  /\ group' = EmptyGroup /\ announce' = <<>> /\ services' = <<>> /\ hostname' = FALSE
  /\ UNCHANGED <<buffered, fed, exited, stop_flag, pc, loopVars, zeroed, sent>>

-----------------------------------------------------------------------------
(* The responder thread. *)

responderIdle == <<buffered, fed, exited, dataVars, stop_flag, stopper, zeroed>>
GoTo(place) == pc' = place /\ i' = 1 /\ j' = 1

\* Mutant: an entry of every type answers every question.
SelectsAll(e, name, type) == NameOf(e) = name

\* Which records of a name answer a question of a type.
Selects(e, name, type) ==
  /\ NameOf(e) = name
  /\ \/ type = TypeOf(e)
     \/ type = "ANY" /\ TypeOf(e) # "NSEC"

Selected(name, type) ==
  IF name \in Names THEN {e \in Members(group[name]) : Selects(e, name, type)} ELSE {}

\* Mutant: a record is put into a list as often as it is asked for.
PopulateAnswersAgain(list, name, type) ==
  IF name \in Names THEN list \o Kept(group[name], Selected(name, type)) ELSE list

\* populate_answers: the list with the records of group that it lacks.
PopulateAnswers(list, name, type) ==
  IF name \in Names
    THEN list \o Kept(group[name], Selected(name, type) \ Members(list))
    ELSE list

WithAnswers(r, list) ==
  [r EXCEPT !.ans = list, !.num_ans = @ + Len(list) - Len(r.ans)]
WithAdditional(r, list) ==
  [r EXCEPT !.add = list, !.num_add = @ + Len(list) - Len(r.add)]

Dropped(r, list) ==
  [r EXCEPT !.ans = list, !.num_ans = @ - (Len(r.ans) - Len(list))]

\* The top of main_loop.  An empty buffer ends the process; a packet that
\* cannot be parsed, or is no standard query, is not answered.
Loop ==
  /\ Running /\ pc = "loop"
  /\ \/ /\ stop_flag # 0
        /\ GoTo("goodbye")
        /\ reply' = NoReply
        /\ UNCHANGED <<buffered, exited, pkt>>
     \/ /\ stop_flag = 0 /\ ~buffered
        /\ exited' = TRUE
        /\ UNCHANGED <<buffered, pc, loopVars>>
     \/ /\ stop_flag = 0 /\ buffered
        /\ buffered' = FALSE
        /\ \E p \in Packets :
             /\ pkt' = IF p.query THEN p ELSE NoPacket
             /\ GoTo(IF p.query THEN "question" ELSE "announce")
             /\ reply' = IF p.query THEN NoReply ELSE reply
        /\ UNCHANGED exited
  /\ UNCHANGED <<fed, dataVars, stop_flag, stopper, zeroed, sent>>

\* process_mdns_pkt, one question.
Question ==
  /\ Running /\ pc = "question" /\ i <= Len(pkt.qn)
  /\ LET q == pkt.qn[i] IN
       reply' = IF q.unicast THEN reply
                ELSE WithAnswers(reply, PopulateAnswers(reply.ans, q.name, q.type))
  /\ i' = i + 1
  /\ UNCHANGED <<responderIdle, pc, j, pkt, sent>>

\* The first answer of the packet that matches e, if it is young enough.
Known(e) ==
  LET matching == {k \in DOMAIN pkt.ans : Matches(pkt.ans[k], e)}
      ttl == IF e \in zeroed THEN 0 ELSE DefaultTtl
  IN  /\ matching # {}
      /\ LET k == CHOOSE x \in matching : \A y \in matching : x <= y
         IN  pkt.ans[k].ttl >= ttl \div 2

\* process_mdns_pkt, when all questions are answered: drop what is known.
DropKnown ==
  /\ Running /\ pc = "question" /\ i > Len(pkt.qn)
  /\ reply' = Dropped(reply, Kept(reply.ans, {e \in Members(reply.ans) : ~Known(e)}))
  /\ GoTo("related_ans")
  /\ UNCHANGED <<responderIdle, pkt, sent>>

\* The lists add_related_rr asks for because of one record.
Related(e) ==
  CASE TypeOf(e) = "PTR" -> << <<TargetOf(e), "ANY">> >>
    [] TypeOf(e) = "SRV" -> << <<TargetOf(e), "ANY">>, <<NameOf(e), "TXT">> >>
    [] TypeOf(e) \in {"A", "AAAA"} -> << <<NameOf(e), "NSEC">> >>
    [] OTHER -> <<>>

\* Mutant: what is related to an added record is not looked for.
NextPlaceShort == "send"

NextPlace == IF pc = "related_ans" THEN "related_add" ELSE "send"

\* add_related_rr, first for the answers, then for what it has added itself:
\* the second list grows while it is walked.
AddRelatedRr ==
  /\ Running /\ pc \in {"related_ans", "related_add"}
  /\ LET list == IF pc = "related_ans" THEN reply.ans ELSE reply.add IN
       IF i > Len(list)
         THEN GoTo(NextPlace) /\ UNCHANGED reply
         ELSE LET asked == Related(list[i]) IN
              /\ reply' = IF asked = <<>> THEN reply
                          ELSE WithAdditional(reply,
                                 PopulateAnswers(reply.add, asked[j][1], asked[j][2]))
              /\ IF j < Len(asked) THEN j' = j + 1 /\ UNCHANGED i
                                   ELSE j' = 1 /\ i' = i + 1
              /\ UNCHANGED pc
  /\ UNCHANGED <<responderIdle, pkt, sent>>

Packet(kind, r) == [kind |-> kind, reply |-> r]

\* mdns_encode_pkt and send_packet, if there is an answer; the packet that was
\* answered is destroyed.
Send ==
  /\ Running /\ pc = "send"
  /\ sent' = IF reply.num_ans > 0 THEN Packet("reply", reply) ELSE sent
  /\ pkt' = NoPacket
  /\ GoTo("announce")
  /\ UNCHANGED <<responderIdle, reply>>

\* The announce loop: take the head of the list, and start announce_srv with
\* the first of its two questions.
Announce ==
  /\ Running /\ pc = "announce"
  /\ IF announce = <<>>
       THEN GoTo("loop") /\ UNCHANGED <<announce, reply>>
       ELSE /\ announce' = RrListRemove(announce, announce[1])
            /\ reply' = WithAnswers(NoReply,
                          PopulateAnswers(<<>>, NameOf(announce[1]), "PTR"))
            /\ GoTo("announce_sd")
  /\ UNCHANGED <<buffered, fed, exited, group, services, hostname, stop_flag,
                 stopper, zeroed, pkt, sent>>

\* announce_srv, the second question.
AnnounceSd ==
  /\ Running /\ pc = "announce_sd"
  /\ reply' = WithAnswers(reply, PopulateAnswers(reply.ans, DnsSd, "PTR"))
  /\ GoTo("related_ans")
  /\ UNCHANGED <<responderIdle, pkt, sent>>

\* Mutant: the records are not marked as gone.
ExpiredNone == zeroed
\* The end of main_loop: every service is sent once more, with a ttl of 0.
Expired == zeroed \cup Members(services)
Goodbye ==
  /\ Running /\ pc = "goodbye"
  /\ zeroed' = Expired
  /\ sent' = IF services = <<>> THEN sent
             ELSE Packet("goodbye", WithAnswers(NoReply, services))
  /\ pc' = "ended"
  /\ UNCHANGED <<buffered, fed, exited, dataVars, stop_flag, stopper, loopVars>>

Ended ==
  /\ Running /\ pc = "ended" /\ stop_flag # 2
  /\ stop_flag' = 2
  /\ UNCHANGED <<buffered, fed, exited, dataVars, stopper, pc, loopVars, zeroed, sent>>

Responder ==
  Loop \/ Question \/ DropKnown \/ AddRelatedRr \/ Send \/ Announce \/ AnnounceSd
    \/ Goodbye \/ Ended

Next ==
  \/ Feed \/ SetHostname \/ AddRr \/ StopCall \/ StopReturn \/ Responder
  \/ \E s \in Service : RegisterSvc(s)

Spec == Init /\ [][Next]_vars

\* The responder thread and a thread in mdnsd_stop are scheduled.
FairSpec == Spec /\ WF_vars(Responder) /\ WF_vars(StopReturn)

-----------------------------------------------------------------------------
(* Properties. *)

\* The counters in the header of a packet, by which its receiver parses it, are
\* the lengths of its sections, however answers were added by populate_answers
\* and dropped again by process_mdns_pkt; and no section repeats a record.
Unique(list) == Cardinality(Members(list)) = Len(list)
CountersMatch ==
  LET r == sent.reply IN
    /\ r.num_ans = Len(r.ans) /\ Unique(r.ans)
    /\ r.num_add = Len(r.add) /\ Unique(r.add)

TypeOK ==
  /\ buffered \in BOOLEAN /\ fed \in 0 .. MaxPackets + 1 /\ exited \in BOOLEAN
  /\ group \in [Names -> Seq(Record)]
  /\ announce \in Seq(Record) /\ services \in Seq(Record) /\ hostname \in BOOLEAN
  /\ stop_flag \in 0 .. 2 /\ stopper \in {"none", "waiting", "done"}
  /\ pc \in {"loop", "question", "related_ans", "related_add", "send", "announce",
             "announce_sd", "goodbye", "ended"}
  /\ i \in Nat \ {0} /\ j \in {1, 2}
  /\ reply.ans \in Seq(Record) /\ reply.add \in Seq(Record)
  /\ reply.num_ans \in Nat /\ reply.num_add \in Nat
  /\ zeroed \subseteq Record
  /\ CountersMatch

\* A reply answers what was asked: when process_mdns_pkt is done, each answer
\* belongs to a question that was not for unicast, and the asker does not know
\* it already for at least half of its lifetime, whatever was registered since
\* the question was looked at.
AnswersTheQuestion ==
  (pc = "send" /\ pkt.query) =>
    \A e \in Members(reply.ans) :
      LET known == {a \in Members(pkt.ans) : Matches(a, e)} IN
        /\ \E q \in Members(pkt.qn) :
             ~q.unicast /\ q.name = NameOf(e) /\ q.type \in {TypeOf(e), "ANY"}
        /\ known = {} \/ \E a \in known : a.ttl < DefaultTtl \div 2

\* Whoever learns of a service can use it at once: a packet with the PTR of a
\* service carries its SRV, its TXT, the address of the host and the NSEC that
\* says there is no other, although services are registered while
\* add_related_rr walks its lists.
UsableAtOnce ==
  sent.kind = "reply" =>
    \A s \in Service :
      <<s, "PTR">> \in Members(sent.reply.ans) =>
        (Members(RecordsOf(s)) \ {<<s, "PTR">>, <<s, "BPTR">>}) \cup Members(HostRecords)
          \subseteq Members(sent.reply.add)

\* When the responder has ended, the last packet took back every service that
\* was registered: none was registered behind its back.
GoodbyeToAll ==
  (stopper = "waiting" /\ stop_flag = 2 /\ services # <<>>) =>
    /\ sent.kind = "goodbye"
    /\ Members(sent.reply.ans) = Members(services)
    /\ Members(services) \subseteq zeroed

\* mdnsd_stop gives the records and the lock back only when the responder
\* thread uses them no more: the flag is 2 only at the end of main_loop.
FreedWhenIdle == stopper = "done" => pc = "ended"

\* mdnsd_stop returns, unless the process ends before: the thread comes back to
\* the flag after every packet, and the list of announcements runs empty.
StopReturns == stopper = "waiting" ~> (stopper = "done" \/ exited)
=============================================================================
