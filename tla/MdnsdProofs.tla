----------------------------- MODULE MdnsdProofs -----------------------------
(***************************************************************************)
(* The responder, for every set of services and packets: stopping it is    *)
(* safe, its packets are well formed and say what was asked for, and what  *)
(* they say of a service is enough to use it.                              *)
(***************************************************************************)
EXTENDS Mdnsd, FiniteSetTheorems, SequenceTheorems, TLAPS

\* The flag is passed from mdnsd_stop to the thread and back: 2 is written only
\* by the thread, when it has come to its end, and nobody writes it after that.
FlagPassed ==
  /\ stop_flag \in {0, 1, 2}
  /\ stopper = "none" => stop_flag = 0
  /\ pc \in {"goodbye", "ended"} => stop_flag # 0
  /\ stop_flag = 2 => pc = "ended"
  /\ stopper = "done" => stop_flag = 2

\* The flag is passed in every step of every thread.
LEMMA FlagPassedStep == FlagPassed /\ [Next]_vars => FlagPassed'
<1> SUFFICES ASSUME FlagPassed, [Next]_vars PROVE FlagPassed'
  OBVIOUS
<1> USE DEF FlagPassed
<1>1. CASE Feed
  BY <1>1 DEF Feed
<1>2. CASE SetHostname
  BY <1>2 DEF SetHostname
<1>3. CASE AddRr
  BY <1>3 DEF AddRr
<1>4. CASE StopCall
  BY <1>4 DEF StopCall
<1>5. CASE StopReturn
  BY <1>5 DEF StopReturn, FlagSeen
<1>6. CASE Responder
  <2>1. CASE Loop
    BY <2>1 DEF Loop, GoTo
  <2>2. CASE Question
    BY <2>2 DEF Question, responderIdle
  <2>3. CASE DropKnown
    BY <2>3 DEF DropKnown, responderIdle, GoTo
  <2>4. CASE AddRelatedRr
    BY <2>4 DEF AddRelatedRr, responderIdle, GoTo, NextPlace
  <2>5. CASE Send
    BY <2>5 DEF Send, responderIdle, GoTo
  <2>6. CASE Announce
    BY <2>6 DEF Announce, GoTo
  <2>7. CASE AnnounceSd
    BY <2>7 DEF AnnounceSd, responderIdle, GoTo
  <2>8. CASE Goodbye
    BY <2>8 DEF Goodbye
  <2>9. CASE Ended
    BY <2>9 DEF Ended
  <2> QED
    BY <1>6, <2>1, <2>2, <2>3, <2>4, <2>5, <2>6, <2>7, <2>8, <2>9 DEF Responder
<1>7. ASSUME NEW s \in Service, RegisterSvc(s) PROVE FlagPassed'
  BY <1>7 DEF RegisterSvc
<1>8. CASE UNCHANGED vars
  BY <1>8 DEF vars
<1> QED
  BY <1>1, <1>2, <1>3, <1>4, <1>5, <1>6, <1>7, <1>8 DEF Next

\* mdnsd_stop gives the records, the lists and the lock back only when the
\* responder thread has come to the end of main_loop, where it uses them no
\* more.
THEOREM FreedSafely == Spec => []FreedWhenIdle
<1>1. Init => FlagPassed
  BY DEF Init, FlagPassed
<1>2. FlagPassed => FreedWhenIdle
  BY DEF FlagPassed, FreedWhenIdle
<1> QED
  BY <1>1, <1>2, FlagPassedStep, PTL DEF Spec

(***************************************************************************)
(* The thread takes leave of the services it finds when it has seen the    *)
(* flag.  That these are all there will ever be is what FlagPassed is for: *)
(* a thread that has come to its end has seen the flag, whoever set the    *)
(* flag is in mdnsd_stop, and services are registered only before that.    *)
(***************************************************************************)
LeaveTaken ==
  pc = "ended" /\ services # <<>> =>
    /\ sent.kind = "goodbye"
    /\ sent.reply.ans = services
    /\ Members(services) \subseteq zeroed

\* Services are taken leave of at the end, and none comes after that.
LEMMA LeaveTakenStep ==
  FlagPassed /\ LeaveTaken /\ [Next]_vars => LeaveTaken'
<1> SUFFICES ASSUME FlagPassed, LeaveTaken, [Next]_vars PROVE LeaveTaken'
  OBVIOUS
<1> USE DEF LeaveTaken, dataVars
<1>1. ASSUME Feed \/ StopCall \/ SetHostname \/ AddRr PROVE LeaveTaken'
  BY <1>1 DEF Feed, StopCall, SetHostname, AddRr
<1>2. CASE StopReturn
  BY <1>2 DEF StopReturn
<1>3. ASSUME NEW s \in Service, RegisterSvc(s) PROVE LeaveTaken'
  BY <1>3 DEF RegisterSvc, FlagPassed
<1>4. CASE Goodbye
  <2>1. services # <<>> => sent' = Packet("goodbye", WithAnswers(NoReply, services))
    BY <1>4 DEF Goodbye
  <2>2. Packet("goodbye", WithAnswers(NoReply, services)).kind = "goodbye"
    BY DEF Packet
  <2>3. Packet("goodbye", WithAnswers(NoReply, services)).reply.ans = services
    BY DEF Packet, WithAnswers, NoReply
  <2>4. services' = services /\ Members(services) \subseteq zeroed'
    BY <1>4 DEF Goodbye, Expired
  <2> QED
    BY <2>1, <2>2, <2>3, <2>4 DEF Members
<1>5. ASSUME Loop \/ Question \/ DropKnown \/ AddRelatedRr \/ Send
      PROVE  pc' # "ended"
  BY <1>5 DEF Loop, Question, DropKnown, AddRelatedRr, Send, GoTo, NextPlace
<1>6. ASSUME Announce \/ AnnounceSd PROVE pc' # "ended"
  BY <1>6 DEF Announce, AnnounceSd, GoTo
<1>7. CASE Ended \/ UNCHANGED vars
  BY <1>7 DEF Ended, vars
<1> QED
  BY <1>1, <1>2, <1>3, <1>4, <1>5, <1>6, <1>7 DEF Next, Responder

\* When mdnsd_stop may go on, the last packet took back every service that was
\* registered, with a ttl of 0: no other thread registered one behind the back of
\* main_loop, which reads the list of services without knowing of more to come.
THEOREM EveryServiceTakesLeave == Spec => []GoodbyeToAll
<1>1. Init => FlagPassed /\ LeaveTaken
  BY DEF Init, FlagPassed, LeaveTaken
<1>2. FlagPassed /\ LeaveTaken => GoodbyeToAll
  BY DEF FlagPassed, LeaveTaken, GoodbyeToAll
<1> QED
  BY <1>1, <1>2, FlagPassedStep, LeaveTakenStep, PTL DEF Spec

-----------------------------------------------------------------------------
(* Lists. *)

\* A set of natural numbers has a least element: the intervals up to its numbers are
\* finite sets, which have a smallest one among them.
LEMMA LeastElement ==
  ASSUME NEW T, T \subseteq Nat, T # {}
  PROVE  \E x \in T : \A y \in T : x <= y
<1> DEFINE U == {0 .. n : n \in T}
           R == StrictSubsetOrdering(Nat)
<1>1. PICK u \in U : \A v \in U : <<v, u>> \notin R
  <2>1. IsWellFoundedOn(R, FiniteSubsetsOf(Nat))
    BY FS_StrictSubsetOrderingWellFounded
  <2>2. U \subseteq FiniteSubsetsOf(Nat)
    <3> SUFFICES ASSUME NEW n \in Nat PROVE 0 .. n \in FiniteSubsetsOf(Nat)
      OBVIOUS
    <3> QED
      BY FS_Interval DEF FiniteSubsetsOf
  <2>3. U # {}
    OBVIOUS
  <2> HIDE DEF U, R
  <2> QED
    BY <2>1, <2>2, <2>3, WFMin
<1>2. PICK x \in T : u = 0 .. x
  OBVIOUS
<1>3. ASSUME NEW y \in T, y < x PROVE FALSE
  <2>1. 0 .. y \in U /\ 0 .. y \subseteq 0 .. x /\ 0 .. y # 0 .. x
    BY <1>3
  <2>2. <<0 .. y, 0 .. x>> \in R
    BY <2>1 DEF StrictSubsetOrdering
  <2> QED
    BY <1>1, <1>2, <2>1, <2>2
<1> QED
  BY <1>3

\* The ranks of the members of a finite set of numbers are 1, 2 and so on, each once.
LEMMA RanksAreAll ==
  ASSUME NEW at, at \subseteq Nat, IsFiniteSet(at)
  PROVE  /\ Cardinality(at) \in Nat
         /\ \A m \in 1 .. Cardinality(at) :
              \E k \in at : Cardinality({x \in at : x <= k}) = m
         /\ \A k \in at : Cardinality({x \in at : x <= k}) \in 1 .. Cardinality(at)
         /\ \A k, l \in at :
              Cardinality({x \in at : x <= k}) = Cardinality({x \in at : x <= l}) => k = l
<1> DEFINE Rank(k) == Cardinality({x \in at : x <= k})
           n == Cardinality(at)
           f == [k \in at |-> Rank(k)]
<1>1. n \in Nat
  BY FS_CardinalityType
<1>2. ASSUME NEW k \in at PROVE Rank(k) \in 1 .. n
  <2>1. {k} \subseteq {x \in at : x <= k} /\ IsFiniteSet({x \in at : x <= k})
    BY FS_Subset
  <2>2. Rank(k) \in Nat /\ Rank(k) <= n
    BY FS_Subset, FS_CardinalityType
  <2>3. Cardinality({k}) <= Rank(k) /\ Cardinality({k}) = 1
    BY <2>1, FS_Subset, FS_Singleton
  <2> QED
    BY <1>1, <2>2, <2>3
<1>3. ASSUME NEW k \in at, NEW l \in at, k < l PROVE Rank(k) # Rank(l)
  <2>1. {x \in at : x <= k} \subseteq {x \in at : x <= l} /\ l \notin {x \in at : x <= k}
           /\ l \in {x \in at : x <= l}
    <3>1. k \in Nat /\ l \in Nat /\ k < l
      BY <1>3
    <3>2. \A x \in at : x \in Nat /\ (x <= k => x <= l)
      BY <3>1
    <3>3. ~(l <= k) /\ l <= l
      BY <3>1
    <3>4. {x \in at : x <= k} \subseteq {x \in at : x <= l}
      BY <3>2
    <3>5. l \notin {x \in at : x <= k}
      BY <3>3
    <3>6. l \in {x \in at : x <= l}
      BY <3>3
    <3> QED
      BY <3>4, <3>5, <3>6
  <2>2. {x \in at : x <= l} \in SUBSET at
    OBVIOUS
  <2>3. IsFiniteSet({x \in at : x <= l})
    BY <2>2, FS_Subset
  <2> QED
    BY <2>1, <2>3, FS_Subset
<1>4. ASSUME NEW k \in at, NEW l \in at, Rank(k) = Rank(l) PROVE k = l
  BY <1>3, <1>4
<1>5. f \in Injection(at, 1 .. n)
  BY <1>2, <1>4 DEF Injection, IsInjective
<1>6. IsFiniteSet(1 .. n) /\ Cardinality(1 .. n) = n
  BY <1>1, FS_Interval
<1>7. f \in Surjection(at, 1 .. n)
  <2> HIDE DEF f, Rank
  <2> QED BY <1>5, <1>6, FS_Injection
<1>8. \A m \in 1 .. n : \E k \in at : Rank(k) = m
  BY <1>7 DEF Surjection
<1> QED
  BY <1>1, <1>2, <1>4, <1>8

NoRepeat(list) == \A a, b \in DOMAIN list : list[a] = list[b] => a = b

\* What Kept picks from a list: the members in S, none more often than before.
LEMMA KeptIsSublist ==
  ASSUME NEW R, NEW list \in Seq(R), NEW S
  PROVE  /\ Kept(list, S) \in Seq(R)
         /\ Members(Kept(list, S)) = Members(list) \cap S
         /\ NoRepeat(list) => NoRepeat(Kept(list, S))
<1> DEFINE at == {k \in DOMAIN list : list[k] \in S}
           Rank(k) == Cardinality({x \in at : x <= k})
           n == Cardinality(at)
           Place(m) == CHOOSE k \in at : Rank(k) = m
           kept == [m \in 1 .. n |-> list[Place(m)]]
<1>1. at \subseteq Nat /\ IsFiniteSet(at) /\ at \subseteq DOMAIN list
  <2>1. DOMAIN list = 1 .. Len(list) /\ Len(list) \in Nat
    OBVIOUS
  <2>2. IsFiniteSet(DOMAIN list)
    BY <2>1, FS_Interval
  <2> QED
    BY <2>1, <2>2, FS_Subset
<1>2. /\ n \in Nat
      /\ \A m \in 1 .. n : \E k \in at : Rank(k) = m
      /\ \A k \in at : Rank(k) \in 1 .. n
      /\ \A k, l \in at : Rank(k) = Rank(l) => k = l
  <2> HIDE DEF at
  <2> QED
    BY <1>1, RanksAreAll
<1>3. \A m \in 1 .. n : Place(m) \in at /\ Rank(Place(m)) = m
  <2> HIDE DEF at, Rank
  <2> QED BY <1>2
<1>4. Kept(list, S) = kept
  BY DEF Kept
<1>5. \A m \in 1 .. n : list[Place(m)] \in R /\ list[Place(m)] \in S
  <2>1. \A k \in at : list[k] \in R /\ list[k] \in S
    OBVIOUS
  <2> HIDE DEF at, Place, n
  <2> QED
    BY <1>3, <2>1
<1>6. kept \in Seq(R)
  <2> HIDE DEF Place
  <2> QED BY <1>5, <1>2
<1>7. Members(kept) = {list[Place(m)] : m \in 1 .. n}
  <2> HIDE DEF Place, n
  <2> QED BY DEF Members
<1>8. \A k \in at : \E m \in 1 .. n : Place(m) = k
  <2> SUFFICES ASSUME NEW k \in at PROVE Place(Rank(k)) = k /\ Rank(k) \in 1 .. n
    OBVIOUS
  <2> HIDE DEF at, Rank, n
  <2> QED
    BY <1>2, <1>3
<1>9. Members(kept) = {list[k] : k \in at}
  <2> HIDE DEF at, Place, n, kept
  <2> QED
    BY <1>3, <1>7, <1>8
<1>10. {list[k] : k \in at} = Members(list) \cap S
  BY DEF Members
<1>11. ASSUME NoRepeat(list) PROVE NoRepeat(kept)
  <2> SUFFICES ASSUME NEW a \in 1 .. n, NEW b \in 1 .. n, list[Place(a)] = list[Place(b)]
               PROVE  a = b
    BY DEF NoRepeat
  <2>1. Place(a) \in DOMAIN list /\ Place(b) \in DOMAIN list
    BY <1>3
  <2>2. Place(a) = Place(b)
    BY <2>1, <1>11 DEF NoRepeat
  <2> HIDE DEF Place, Rank
  <2> QED
    BY <2>2, <1>3
<1> QED
  BY <1>4, <1>6, <1>9, <1>10, <1>11

\* A list that repeats nothing is as long as it has members.
LEMMA NoRepeatIsUnique ==
  ASSUME NEW R, NEW list \in Seq(R), NoRepeat(list)
  PROVE  Unique(list)
<1> DEFINE n == Len(list)
<1>1. list \in Bijection(1 .. n, Members(list))
  BY DEF Bijection, Injection, Surjection, IsInjective, NoRepeat, Members
<1>2. n \in Nat /\ IsFiniteSet(1 .. n) /\ Cardinality(1 .. n) = n
  <2>1. n \in Nat
    OBVIOUS
  <2> HIDE DEF n
  <2> QED
    BY <2>1, FS_Interval
<1>3. Cardinality(Members(list)) = n
  <2> HIDE DEF n
  <2> QED BY <1>1, <1>2, FS_Bijection DEF ExistsBijection
<1> QED
  BY <1>3 DEF Unique

-----------------------------------------------------------------------------
(* What the responder keeps. *)

\* The records filed under the names they answer for.
InGroup(e) == NameOf(e) \in Names /\ e \in Members(group[NameOf(e)])

ListSound(list) == list \in Seq(Record) /\ NoRepeat(list)
GroupSound(g) == g \in [Names -> Seq(Record)] /\ \A n \in Names : NoRepeat(g[n])
ReplySound(r) ==
  /\ r \in [ans : Seq(Record), add : Seq(Record), num_ans : Nat, num_add : Nat]
  /\ ListSound(r.ans) /\ r.num_ans = Len(r.ans)
  /\ ListSound(r.add) /\ r.num_add = Len(r.add)

\* The shape of the state.  What TypeOK says of the packet sent last holds of
\* every list and every reply while it is made.
Shapes ==
  /\ buffered \in BOOLEAN /\ fed \in 0 .. MaxPackets + 1 /\ exited \in BOOLEAN
  /\ GroupSound(group) /\ ListSound(announce) /\ ListSound(services)
  /\ hostname \in BOOLEAN
  /\ stop_flag \in 0 .. 2 /\ stopper \in {"none", "waiting", "done"}
  /\ pc \in {"loop", "question", "related_ans", "related_add", "send", "announce",
             "announce_sd", "goodbye", "ended"}
  /\ pkt \in Packets \cup {NoPacket}
  /\ i \in Nat \ {0} /\ j \in {1, 2}
  /\ zeroed \subseteq Record
  /\ ReplySound(reply) /\ ReplySound(sent.reply)

\* A service is filed with all of its records, and not before the host is.
FiledWhole ==
  /\ hostname => InGroup(<<Host, "A">>) /\ InGroup(<<Host, "NSEC">>)
  /\ InGroup(<<Host, "A">>) => hostname
  /\ \A s \in Service :
       InGroup(<<s, "PTR">>) \/ InGroup(<<s, "SRV">>) =>
         /\ hostname
         /\ InGroup(<<s, "SRV">>)
         /\ s \in HasTxt => InGroup(<<s, "TXT">>)

\* While a packet is made, what is in it is still in the group.
Replying == pc \in {"question", "related_ans", "related_add", "send", "announce_sd"}
FromGroup ==
  Replying => \A e \in Members(reply.ans) \cup Members(reply.add) : InGroup(e)

\* Only an SRV record has a second list to ask for.
SecondIsSrv ==
  /\ pc = "related_ans" /\ j = 2 => i <= Len(reply.ans) /\ TypeOf(reply.ans[i]) = "SRV"
  /\ pc = "related_add" /\ j = 2 => i <= Len(reply.add) /\ TypeOf(reply.add[i]) = "SRV"

\* What a list needs of others.
HasService(list, s) ==
  <<s, "SRV">> \in Members(list) /\ (s \in HasTxt => <<s, "TXT">> \in Members(list))
HasHost(list, e) ==
  /\ (\E s \in Service : e = <<s, "SRV">>) => <<Host, "A">> \in Members(list)
  /\ e = <<Host, "A">> => <<Host, "NSEC">> \in Members(list)

\* add_related_rr has added what belongs to the records it has come by.
Followed ==
  /\ pc = "related_ans" =>
       \A k \in DOMAIN reply.ans : \A s \in Service :
         k < i /\ reply.ans[k] = <<s, "PTR">> => HasService(reply.add, s)
  /\ pc \in {"related_add", "send"} =>
       \A s \in Service :
         <<s, "PTR">> \in Members(reply.ans) => HasService(reply.add, s)
  /\ pc = "related_add" =>
       \A k \in DOMAIN reply.add :
         k < i \/ (k = i /\ j = 2) => HasHost(reply.add, reply.add[k])
  /\ pc = "send" => \A e \in Members(reply.add) : HasHost(reply.add, e)

\* The answers so far belong to questions; and the asker lacks them, once the
\* ones it knows are dropped.
Asks(q, e) == ~q.unicast /\ q.name = NameOf(e) /\ q.type \in {TypeOf(e), "ANY"}
Lacked(e) ==
  LET known == {a \in Members(pkt.ans) : Matches(a, e)}
  IN  known = {} \/ \E a \in known : a.ttl < DefaultTtl \div 2
Answered ==
  /\ pc \in {"loop", "announce", "announce_sd", "goodbye", "ended"} => ~pkt.query
  /\ pc = "question" => pkt.query
  /\ (pkt.query /\ pc # "loop") =>
       \A e \in Members(reply.ans) : \E q \in Members(pkt.qn) : Asks(q, e)
  /\ (pkt.query /\ pc \in {"related_ans", "related_add", "send"}) =>
       \A e \in Members(reply.ans) : Lacked(e)

\* Appending a record that a list lacks repeats nothing.
LEMMA AppendSound ==
  ASSUME NEW list, ListSound(list), NEW e \in Record
  PROVE  /\ ListSound(RrListAppend(list, e))
         /\ Members(RrListAppend(list, e)) = Members(list) \cup {e}
<1> USE DEF ListSound, Members, RrListAppend
<1>1. CASE e \in Members(list)
  BY <1>1
<1>2. CASE e \notin Members(list)
  <2>1. Append(list, e) \in Seq(Record) /\ Len(Append(list, e)) = Len(list) + 1
    OBVIOUS
  <2>2. \A k \in 1 .. Len(list) + 1 :
          Append(list, e)[k] = IF k = Len(list) + 1 THEN e ELSE list[k]
    OBVIOUS
  <2>3. NoRepeat(Append(list, e))
    BY <1>2, <2>1, <2>2 DEF NoRepeat
  <2>4. Members(Append(list, e)) = Members(list) \cup {e}
    <3>1. \A k \in 1 .. Len(list) : Append(list, e)[k] = list[k]
      BY <2>2
    <3>2. Append(list, e)[Len(list) + 1] = e
      BY <2>2
    <3>3. DOMAIN Append(list, e) = 1 .. Len(list) + 1 /\ DOMAIN list = 1 .. Len(list)
             /\ Len(list) \in Nat
      BY <2>1
    <3> QED
      BY <3>1, <3>2, <3>3
  <2> QED
    BY <1>2, <2>1, <2>3, <2>4
<1> QED
  BY <1>1, <1>2

\* rr_list_remove keeps the others.
LEMMA RemoveSound ==
  ASSUME NEW list, ListSound(list), NEW e
  PROVE  ListSound(RrListRemove(list, e))
BY KeptIsSublist DEF ListSound, RrListRemove

\* rr_group_add adds one record, under its name, and takes nothing away.
LEMMA GroupAddSound ==
  ASSUME NEW g, GroupSound(g), NEW e \in Record, NameOf(e) \in Names
  PROVE  /\ GroupSound(RrGroupAdd(g, e))
         /\ e \in Members(RrGroupAdd(g, e)[NameOf(e)])
         /\ \A n \in Names : Members(g[n]) \subseteq Members(RrGroupAdd(g, e)[n])
         /\ \A n \in Names : \A x \in Members(RrGroupAdd(g, e)[n]) :
              x \in Members(g[n]) \/ x = e
<1>1. ListSound(g[NameOf(e)])
  BY DEF GroupSound, ListSound
<1>2. \A n \in Names :
        RrGroupAdd(g, e)[n] = IF n = NameOf(e) THEN RrListAppend(g[n], e) ELSE g[n]
  BY DEF RrGroupAdd, GroupSound
<1>3. RrGroupAdd(g, e) \in [Names -> Seq(Record)]
  BY <1>1, AppendSound DEF RrGroupAdd, GroupSound, ListSound
<1>4. /\ ListSound(RrListAppend(g[NameOf(e)], e))
      /\ Members(RrListAppend(g[NameOf(e)], e)) = Members(g[NameOf(e)]) \cup {e}
  BY <1>1, AppendSound
<1>5. GroupSound(RrGroupAdd(g, e))
  BY <1>2, <1>3, <1>4 DEF GroupSound, ListSound
<1>6. \A n \in Names : Members(RrGroupAdd(g, e)[n]) =
                       IF n = NameOf(e) THEN Members(g[n]) \cup {e} ELSE Members(g[n])
  BY <1>2, <1>4
<1> QED
  BY <1>5, <1>6

\* populate_answers puts in what is selected and the list lacks.
LEMMA PopulateSound ==
  ASSUME NEW list, ListSound(list), NEW name, NEW type, GroupSound(group)
  PROVE  /\ ListSound(PopulateAnswers(list, name, type))
         /\ Members(PopulateAnswers(list, name, type)) = Members(list) \cup Selected(name, type)
         /\ Len(list) <= Len(PopulateAnswers(list, name, type))
         /\ \A k \in 1 .. Len(list) : PopulateAnswers(list, name, type)[k] = list[k]
<1>1. CASE name \notin Names
  BY <1>1 DEF PopulateAnswers, Selected, ListSound
<1>2. CASE name \in Names
  <2> DEFINE more == Kept(group[name], Selected(name, type) \ Members(list))
  <2>1. group[name] \in Seq(Record) /\ NoRepeat(group[name])
    BY <1>2 DEF GroupSound
  <2>2. Selected(name, type) \subseteq Members(group[name])
    BY DEF Selected, Members
  <2>3. /\ more \in Seq(Record) /\ NoRepeat(more)
        /\ Members(more) = Selected(name, type) \ Members(list)
    BY <2>1, <2>2, KeptIsSublist
  <2>4. PopulateAnswers(list, name, type) = list \o more
    BY <1>2 DEF PopulateAnswers
  <2> HIDE DEF more
  <2>5. /\ list \o more \in Seq(Record)
        /\ Len(list \o more) = Len(list) + Len(more)
        /\ \A k \in 1 .. Len(list) + Len(more) :
             (list \o more)[k] = IF k <= Len(list) THEN list[k] ELSE more[k - Len(list)]
    BY <2>3, ConcatProperties DEF ListSound
  <2>6. Len(list) \in Nat /\ Len(more) \in Nat
           /\ DOMAIN list = 1 .. Len(list) /\ DOMAIN more = 1 .. Len(more)
           /\ DOMAIN (list \o more) = 1 .. Len(list) + Len(more)
    BY <2>3, <2>5 DEF ListSound
  <2>7. \A k \in 1 .. Len(list) : (list \o more)[k] = list[k]
    BY <2>5, <2>6
  <2>8. \A k \in 1 .. Len(more) : (list \o more)[Len(list) + k] = more[k]
                                    /\ Len(list) + k \in 1 .. Len(list) + Len(more)
    BY <2>5, <2>6
  <2>9. \A k \in 1 .. Len(list) + Len(more) :
          \/ k \in 1 .. Len(list) /\ (list \o more)[k] = list[k]
          \/ k - Len(list) \in 1 .. Len(more) /\ (list \o more)[k] = more[k - Len(list)]
    BY <2>5, <2>6
  <2>10. Members(list \o more) = Members(list) \cup Members(more)
    <3>1. \A k \in 1 .. Len(list) : list[k] \in Members(list \o more)
      BY <2>6, <2>7 DEF Members
    <3>2. \A k \in 1 .. Len(more) : more[k] \in Members(list \o more)
      BY <2>6, <2>8 DEF Members
    <3>3. \A k \in 1 .. Len(list) + Len(more) :
            (list \o more)[k] \in Members(list) \cup Members(more)
      BY <2>6, <2>9 DEF Members
    <3> QED
      BY <2>6, <3>1, <3>2, <3>3 DEF Members
  <2>11. NoRepeat(list \o more)
    <3> SUFFICES ASSUME NEW a \in 1 .. Len(list) + Len(more), NEW b \in 1 .. Len(list) + Len(more),
                        (list \o more)[a] = (list \o more)[b]
                 PROVE  a = b
      BY <2>6 DEF NoRepeat
    <3>1. \A k \in 1 .. Len(list) : \A l \in 1 .. Len(more) : list[k] # more[l]
      BY <2>3, <2>6 DEF Members
    <3>2. CASE a \in 1 .. Len(list) /\ b \in 1 .. Len(list)
      BY <2>6, <2>7, <3>2 DEF ListSound, NoRepeat
    <3>3. CASE a - Len(list) \in 1 .. Len(more) /\ b - Len(list) \in 1 .. Len(more)
      <4>1. more[a - Len(list)] = more[b - Len(list)]
        BY <2>5, <2>6, <3>3
      <4>2. a - Len(list) = b - Len(list)
        BY <2>3, <2>6, <3>3, <4>1 DEF NoRepeat
      <4> QED
        BY <4>2, <2>6
    <3> QED
      BY <2>6, <2>9, <3>1, <3>2, <3>3
  <2> QED
    BY <2>3, <2>4, <2>5, <2>6, <2>7, <2>10, <2>11 DEF ListSound
<1> QED
  BY <1>1, <1>2

\* The counters follow the lists, whether answers are added or dropped.
LEMMA ReplyStaysSound ==
  ASSUME NEW r, ReplySound(r), NEW list, ListSound(list)
  PROVE  /\ ReplySound(WithAnswers(r, list))
         /\ WithAnswers(r, list).ans = list /\ WithAnswers(r, list).add = r.add
         /\ ReplySound(WithAdditional(r, list))
         /\ WithAdditional(r, list).ans = r.ans /\ WithAdditional(r, list).add = list
         /\ ReplySound(Dropped(r, list))
         /\ Dropped(r, list).ans = list /\ Dropped(r, list).add = r.add
<1> USE DEF ReplySound, ListSound
<1>1. Len(list) \in Nat /\ Len(r.ans) \in Nat /\ Len(r.add) \in Nat
  OBVIOUS
<1>2. /\ r.num_ans + Len(list) - Len(r.ans) = Len(list)
      /\ r.num_add + Len(list) - Len(r.add) = Len(list)
      /\ r.num_ans - (Len(r.ans) - Len(list)) = Len(list)
  BY <1>1
<1>3. WithAnswers(r, list) = [r EXCEPT !.ans = list, !.num_ans = Len(list)]
  BY <1>2 DEF WithAnswers
<1>4. WithAdditional(r, list) = [r EXCEPT !.add = list, !.num_add = Len(list)]
  BY <1>2 DEF WithAdditional
<1>5. Dropped(r, list) = [r EXCEPT !.ans = list, !.num_ans = Len(list)]
  BY <1>2 DEF Dropped
<1>6. /\ WithAnswers(r, list).ans = list /\ WithAnswers(r, list).add = r.add
      /\ WithAnswers(r, list).num_ans = Len(list)
      /\ WithAnswers(r, list).num_add = r.num_add
  BY <1>3
<1>7. /\ WithAdditional(r, list).ans = r.ans /\ WithAdditional(r, list).add = list
      /\ WithAdditional(r, list).num_ans = r.num_ans
      /\ WithAdditional(r, list).num_add = Len(list)
  BY <1>4
<1>8. /\ WithAnswers(r, list) \in [ans : Seq(Record), add : Seq(Record), num_ans : Nat, num_add : Nat]
      /\ WithAdditional(r, list) \in [ans : Seq(Record), add : Seq(Record), num_ans : Nat, num_add : Nat]
  BY <1>1, <1>3, <1>4
<1>9. Dropped(r, list) = WithAnswers(r, list)
  BY <1>3, <1>5
<1> QED
  BY <1>6, <1>7, <1>8, <1>9

\* Where the records of a service and of the host are filed.
LEMMA NamesOfRecords ==
  /\ \A s \in Service :
       /\ NameOf(<<s, "TXT">>) = s /\ NameOf(<<s, "SRV">>) = s
       /\ NameOf(<<s, "PTR">>) = SvcType[s] /\ NameOf(<<s, "BPTR">>) = DnsSd
       /\ {s, SvcType[s], DnsSd} \subseteq Names
       /\ {<<s, "TXT">>, <<s, "SRV">>, <<s, "PTR">>, <<s, "BPTR">>} \subseteq Record
  /\ \A t \in {"A", "AAAA", "NSEC"} :
       NameOf(<<Host, t>>) = Host /\ <<Host, t>> \in Record
  /\ Host \in Names
BY DEF NameOf, Names, Record

\* One record of a service is filed.
LEMMA GroupAddOfService ==
  ASSUME NEW g, GroupSound(g), NEW s \in Service, NEW t \in {"TXT", "SRV", "PTR", "BPTR"}
  PROVE  /\ GroupSound(RrGroupAdd(g, <<s, t>>))
         /\ \A n \in Names : Members(g[n]) \subseteq Members(RrGroupAdd(g, <<s, t>>)[n])
         /\ \A n \in Names : \A x \in Members(RrGroupAdd(g, <<s, t>>)[n]) :
              x \in Members(g[n]) \/ x[1] = s
         /\ t \in {"TXT", "SRV"} => <<s, t>> \in Members(RrGroupAdd(g, <<s, t>>)[s])
<1> DEFINE e == <<s, t>>
<1>1. e \in Record /\ NameOf(e) \in Names /\ e[1] = s
  <2>1. e[1] = s
    OBVIOUS
  <2>2. CASE t = "TXT"
    BY <2>1, <2>2, NamesOfRecords
  <2>3. CASE t = "SRV"
    BY <2>1, <2>3, NamesOfRecords
  <2>4. CASE t = "PTR"
    BY <2>1, <2>4, NamesOfRecords
  <2>5. CASE t = "BPTR"
    BY <2>1, <2>5, NamesOfRecords
  <2> QED
    BY <2>2, <2>3, <2>4, <2>5
<1>2. t \in {"TXT", "SRV"} => NameOf(e) = s
  BY NamesOfRecords
<1> HIDE DEF e
<1>3. /\ GroupSound(RrGroupAdd(g, e))
      /\ e \in Members(RrGroupAdd(g, e)[NameOf(e)])
      /\ \A n \in Names : Members(g[n]) \subseteq Members(RrGroupAdd(g, e)[n])
      /\ \A n \in Names : \A x \in Members(RrGroupAdd(g, e)[n]) :
           x \in Members(g[n]) \/ x = e
  BY <1>1, GroupAddSound
<1> QED
  BY <1>1, <1>2, <1>3 DEF e

\* mdnsd_register_svc files all records of the service, and only these.
LEMMA FiledSound ==
  ASSUME NEW g, GroupSound(g), NEW s \in Service
  PROVE  /\ GroupSound(Filed(g, s))
         /\ \A n \in Names : Members(g[n]) \subseteq Members(Filed(g, s)[n])
         /\ <<s, "SRV">> \in Members(Filed(g, s)[s])
         /\ s \in HasTxt => <<s, "TXT">> \in Members(Filed(g, s)[s])
         /\ \A n \in Names : \A x \in Members(Filed(g, s)[n]) :
              x \in Members(g[n]) \/ x[1] = s
<1> DEFINE g1 == IF s \in HasTxt THEN RrGroupAdd(g, <<s, "TXT">>) ELSE g
           g2 == RrGroupAdd(g1, <<s, "SRV">>)
           g3 == RrGroupAdd(g2, <<s, "PTR">>)
           g4 == RrGroupAdd(g3, <<s, "BPTR">>)
<1>1. Filed(g, s) = g4
  BY DEF Filed
<1>3. /\ GroupSound(g1)
      /\ \A n \in Names : Members(g[n]) \subseteq Members(g1[n])
      /\ \A n \in Names : \A x \in Members(g1[n]) : x \in Members(g[n]) \/ x[1] = s
      /\ s \in HasTxt => <<s, "TXT">> \in Members(g1[s])
  <2>1. CASE s \notin HasTxt
    BY <2>1
  <2>2. CASE s \in HasTxt
    <3>1. g1 = RrGroupAdd(g, <<s, "TXT">>)
      BY <2>2
    <3>2. /\ GroupSound(RrGroupAdd(g, <<s, "TXT">>))
          /\ \A n \in Names : Members(g[n]) \subseteq Members(RrGroupAdd(g, <<s, "TXT">>)[n])
          /\ \A n \in Names : \A x \in Members(RrGroupAdd(g, <<s, "TXT">>)[n]) :
               x \in Members(g[n]) \/ x[1] = s
          /\ <<s, "TXT">> \in Members(RrGroupAdd(g, <<s, "TXT">>)[s])
      BY GroupAddOfService
    <3> HIDE DEF g1
    <3> QED
      BY <3>1, <3>2
  <2> QED
    BY <2>1, <2>2
<1> HIDE DEF g1
<1>4. /\ GroupSound(g2)
      /\ \A n \in Names : Members(g1[n]) \subseteq Members(g2[n])
      /\ \A n \in Names : \A x \in Members(g2[n]) : x \in Members(g1[n]) \/ x[1] = s
      /\ <<s, "SRV">> \in Members(g2[s])
  BY <1>3, GroupAddOfService
<1> HIDE DEF g2
<1>5. /\ GroupSound(g3)
      /\ \A n \in Names : Members(g2[n]) \subseteq Members(g3[n])
      /\ \A n \in Names : \A x \in Members(g3[n]) : x \in Members(g2[n]) \/ x[1] = s
  BY <1>4, GroupAddOfService
<1> HIDE DEF g3
<1>6. /\ GroupSound(g4)
      /\ \A n \in Names : Members(g3[n]) \subseteq Members(g4[n])
      /\ \A n \in Names : \A x \in Members(g4[n]) : x \in Members(g3[n]) \/ x[1] = s
  BY <1>5, GroupAddOfService
<1> HIDE DEF g4
<1>7. \A n \in Names : Members(g[n]) \subseteq Members(g4[n])
  BY <1>3, <1>4, <1>5, <1>6
<1>8. \A n \in Names : \A x \in Members(g4[n]) : x \in Members(g[n]) \/ x[1] = s
  BY <1>3, <1>4, <1>5, <1>6
<1>9. s \in Names
  BY NamesOfRecords
<1>10. <<s, "SRV">> \in Members(g4[s])
  BY <1>4, <1>5, <1>6, <1>9
<1>11. s \in HasTxt => <<s, "TXT">> \in Members(g4[s])
  BY <1>3, <1>4, <1>5, <1>6, <1>9
<1> QED
  BY <1>1, <1>6, <1>7, <1>8, <1>10, <1>11

\* The group nobody has filed anything in.
LEMMA EmptyGroupSound ==
  GroupSound(EmptyGroup) /\ \A n \in Names : Members(EmptyGroup[n]) = {}
<1>1. \A n \in Names : EmptyGroup[n] = <<>>
  BY DEF EmptyGroup
<1>2. EmptyGroup \in [Names -> Seq(Record)]
  BY DEF EmptyGroup
<1>3. NoRepeat(<<>>) /\ Members(<<>>) = {}
  BY DEF NoRepeat, Members
<1> QED
  BY <1>1, <1>2, <1>3 DEF GroupSound

\* The lists nobody has put anything in.
LEMMA EmptySound == ListSound(<<>>) /\ ReplySound(NoReply) /\ Members(<<>>) = {}
BY DEF ListSound, ReplySound, NoReply, NoRepeat, Members

\* The shape at the start.
LEMMA ShapesInit == Init => Shapes
<1> SUFFICES ASSUME Init PROVE Shapes
  OBVIOUS
<1>1. NothingSent.reply = NoReply
  BY DEF NothingSent
<1>2. buffered \in BOOLEAN /\ fed \in 0 .. MaxPackets + 1
  BY PacketsAssumption DEF Init
<1>3. ReplySound(reply) /\ ReplySound(sent.reply) /\ GroupSound(group)
        /\ ListSound(announce) /\ ListSound(services)
  BY <1>1, EmptyGroupSound, EmptySound DEF Init
<1>4. exited \in BOOLEAN /\ hostname \in BOOLEAN
  BY DEF Init
<1>5. stop_flag \in 0 .. 2 /\ i = 1 /\ j = 1
  BY DEF Init
<1>6. stopper = "none" /\ pc = "loop" /\ pkt = NoPacket /\ zeroed = {}
  BY DEF Init
<1> QED
  BY <1>2, <1>3, <1>4, <1>5, <1>6 DEF Shapes

\* The shape is kept by the threads that use the responder.
LEMMA ShapesUsers ==
  ASSUME Shapes,
         \/ Feed \/ SetHostname \/ AddRr \/ StopCall \/ StopReturn
         \/ \E s \in Service : RegisterSvc(s)
  PROVE  Shapes'
<1> USE DEF Shapes
<1>1. CASE Feed
  BY <1>1, PacketsAssumption DEF Feed, dataVars, loopVars
<1>2. CASE SetHostname
  <2> DEFINE g == RrGroupAdd(group, HostRecords[1])
  <2>1. HostRecords[1] = <<Host, "A">> /\ HostRecords[2] = <<Host, "NSEC">>
    BY DEF HostRecords
  <2>2. GroupSound(g)
    BY <2>1, NamesOfRecords, GroupAddSound
  <2> HIDE DEF g
  <2>3. GroupSound(RrGroupAdd(g, HostRecords[2]))
    BY <2>1, <2>2, NamesOfRecords, GroupAddSound
  <2>4. group' = RrGroupAdd(g, HostRecords[2])
    BY <1>2 DEF SetHostname, g
  <2> QED
    BY <1>2, <2>3, <2>4 DEF SetHostname, loopVars
<1>3. CASE AddRr
  <2>1. GroupSound(RrGroupAdd(group, <<Host, "AAAA">>))
    BY NamesOfRecords, GroupAddSound
  <2> QED
    BY <1>3, <2>1 DEF AddRr, loopVars
<1>4. CASE StopCall
  BY <1>4 DEF StopCall, dataVars, loopVars
<1>5. CASE StopReturn
  BY <1>5, EmptyGroupSound, EmptySound DEF StopReturn, loopVars
<1>6. ASSUME NEW s \in Service, RegisterSvc(s) PROVE Shapes'
  <2>1. <<s, "PTR">> \in Record
    BY NamesOfRecords
  <2>2. /\ GroupSound(Filed(group, s))
        /\ ListSound(RrListAppend(announce, <<s, "PTR">>))
        /\ ListSound(RrListAppend(services, <<s, "PTR">>))
    BY <2>1, FiledSound, AppendSound
  <2> QED
    BY <1>6, <2>2 DEF RegisterSvc, loopVars
<1> QED
  BY <1>1, <1>2, <1>3, <1>4, <1>5, <1>6

\* The shape is kept by the steps of the thread that make no packet.
LEMMA ShapesIdle ==
  ASSUME Shapes, Loop \/ Send \/ Goodbye \/ Ended \/ UNCHANGED vars
  PROVE  Shapes'
<1> USE DEF Shapes
<1>1. CASE Loop
  <2>1. pkt' \in Packets \cup {NoPacket} /\ reply' \in {reply, NoReply}
    BY <1>1 DEF Loop, loopVars
  <2>2. /\ buffered' \in BOOLEAN /\ exited' \in BOOLEAN
        /\ pc' \in {"loop", "question", "announce", "goodbye"}
    BY <1>1 DEF Loop, GoTo, loopVars
  <2>4. i' \in {i, 1} /\ j' \in {j, 1}
    BY <1>1 DEF Loop, GoTo, loopVars
  <2>3. UNCHANGED <<fed, dataVars, stop_flag, stopper, zeroed, sent>>
    BY <1>1 DEF Loop
  <2> QED
    BY <2>1, <2>2, <2>3, <2>4, EmptySound DEF dataVars
<1>2. CASE Send
  <2>1. sent' \in {sent, Packet("reply", reply)} /\ Packet("reply", reply).reply = reply
    BY <1>2 DEF Send, Packet
  <2>2. ReplySound(sent'.reply)
    BY <2>1
  <2> QED
    BY <1>2, <2>2 DEF Send, GoTo, responderIdle, dataVars
<1>3. CASE Goodbye
  <2>1. ReplySound(WithAnswers(NoReply, services))
    BY EmptySound, ReplyStaysSound
  <2>2. /\ sent' \in {sent, Packet("goodbye", WithAnswers(NoReply, services))}
        /\ Packet("goodbye", WithAnswers(NoReply, services)).reply
             = WithAnswers(NoReply, services)
    BY <1>3 DEF Goodbye, Packet
  <2>3. ReplySound(sent'.reply)
    BY <2>1, <2>2
  <2>4. zeroed' \subseteq Record
    BY <1>3 DEF Goodbye, Expired, ListSound, Members
  <2> QED
    BY <1>3, <2>3, <2>4 DEF Goodbye, dataVars, loopVars
<1>4. CASE Ended
  BY <1>4 DEF Ended, dataVars, loopVars
<1>5. CASE UNCHANGED vars
  BY <1>5 DEF vars, dataVars, loopVars
<1> QED
  BY <1>1, <1>2, <1>3, <1>4, <1>5

\* What the steps that make a packet do to the reply, apart from its contents.
LEMMA ShapesReply ==
  ASSUME Shapes, Question \/ DropKnown \/ AddRelatedRr \/ Announce \/ AnnounceSd
  PROVE  Shapes'
<1>0. /\ ReplySound(reply) /\ GroupSound(group) /\ ListSound(announce)
      /\ ListSound(reply.ans) /\ ListSound(reply.add)
      /\ i \in Nat \ {0} /\ j \in {1, 2}
  BY DEF Shapes, ReplySound
<1>1. CASE Question
  <2> DEFINE list == PopulateAnswers(reply.ans, pkt.qn[i].name, pkt.qn[i].type)
  <2>1. ListSound(list)
    BY <1>0, PopulateSound
  <2>2. reply' = reply \/ reply' = WithAnswers(reply, list)
    BY <1>1 DEF Question
  <2> HIDE DEF list
  <2>3. ReplySound(reply')
    <3>1. ReplySound(WithAnswers(reply, list))
      BY <1>0, <2>1, ReplyStaysSound
    <3> QED
      BY <1>0, <2>2, <3>1
  <2> QED
    BY <1>0, <1>1, <2>3 DEF Question, responderIdle, dataVars, Shapes
<1>2. CASE DropKnown
  <2> DEFINE list == Kept(reply.ans, {e \in Members(reply.ans) : ~Known(e)})
  <2>1. ListSound(list)
    BY <1>0, KeptIsSublist DEF ListSound
  <2>2. reply' = Dropped(reply, list)
    BY <1>2 DEF DropKnown
  <2> HIDE DEF list
  <2>3. ReplySound(reply')
    BY <1>0, <2>1, <2>2, ReplyStaysSound
  <2> QED
    BY <1>2, <2>3 DEF DropKnown, GoTo, responderIdle, dataVars, Shapes
<1>3. CASE AddRelatedRr
  <2> DEFINE walked == IF pc = "related_ans" THEN reply.ans ELSE reply.add
             asked == Related(walked[i])
             list == PopulateAnswers(reply.add, asked[j][1], asked[j][2])
  <2>1. ListSound(list)
    BY <1>0, PopulateSound
  <2>2. reply' = reply \/ reply' = WithAdditional(reply, list)
    BY <1>3 DEF AddRelatedRr
  <2>3. /\ i' \in Nat \ {0}
        /\ pc' \in {"related_ans", "related_add", "send"}
    BY <1>0, <1>3 DEF AddRelatedRr, GoTo, NextPlace
  <2>4. j' \in {1, 2}
    <3>1. Len(asked) \in {0, 1, 2}
      BY DEF Related
    <3> HIDE DEF asked
    <3>2. j' = 1 \/ (j < Len(asked) /\ j' = j + 1)
      BY <1>3 DEF AddRelatedRr, GoTo, asked, walked
    <3>3. CASE j' = 1
      BY <3>3
    <3>4. CASE j < Len(asked) /\ j' = j + 1
      <4>0. \A n \in {0, 1, 2} : \A x \in {1, 2} : x < n => x = 1
        OBVIOUS
      <4>1. j = 1
        BY <1>0, <3>1, <3>4, <4>0
      <4> QED
        BY <3>4, <4>1
    <3> QED
      BY <3>2, <3>3, <3>4
  <2> HIDE DEF list
  <2>5. ReplySound(reply')
    <3>1. ReplySound(WithAdditional(reply, list))
      BY <1>0, <2>1, ReplyStaysSound
    <3> QED
      BY <1>0, <2>2, <3>1
  <2> HIDE DEF asked, walked
  <2> QED
    BY <1>3, <2>3, <2>4, <2>5 DEF AddRelatedRr, responderIdle, dataVars, Shapes
<1>4. CASE Announce
  <2> DEFINE list == PopulateAnswers(<<>>, NameOf(announce[1]), "PTR")
  <2>1. ListSound(list)
    BY <1>0, PopulateSound, EmptySound
  <2>2. reply' = reply \/ reply' = WithAnswers(NoReply, list)
    BY <1>4 DEF Announce
  <2> HIDE DEF list
  <2>3. ReplySound(reply')
    <3>1. ReplySound(WithAnswers(NoReply, list))
      BY <1>0, <2>1, ReplyStaysSound, EmptySound
    <3> QED
      BY <1>0, <2>2, <3>1
  <2>4. ListSound(announce')
    BY <1>0, <1>4, RemoveSound DEF Announce
  <2> QED
    BY <1>4, <2>3, <2>4 DEF Announce, GoTo, Shapes
<1>5. CASE AnnounceSd
  <2> DEFINE list == PopulateAnswers(reply.ans, DnsSd, "PTR")
  <2>1. ListSound(list)
    BY <1>0, PopulateSound
  <2>2. reply' = WithAnswers(reply, list)
    BY <1>5 DEF AnnounceSd
  <2> HIDE DEF list
  <2>3. ReplySound(reply')
    BY <1>0, <2>1, <2>2, ReplyStaysSound
  <2> QED
    BY <1>5, <2>3 DEF AnnounceSd, GoTo, responderIdle, dataVars, Shapes
<1> QED
  BY <1>1, <1>2, <1>3, <1>4, <1>5

\* Every step keeps the shape.
LEMMA ShapesStep == Shapes /\ [Next]_vars => Shapes'
BY ShapesUsers, ShapesIdle, ShapesReply DEF Next, Responder

\* The shape gives the types and the counters of TypeOK.
LEMMA ShapesAreTypes == Shapes => TypeOK
<1> SUFFICES ASSUME Shapes PROVE TypeOK
  OBVIOUS
<1>1. Unique(sent.reply.ans) /\ Unique(sent.reply.add)
  BY NoRepeatIsUnique DEF Shapes, ReplySound, ListSound
<1>2. CountersMatch
  BY <1>1 DEF CountersMatch, Shapes, ReplySound
<1> QED
  BY <1>2 DEF Shapes, TypeOK, GroupSound, ListSound, ReplySound

\* The counters in the header of every packet sent are the lengths of its
\* sections and no section repeats a record, for any services and packets.
THEOREM PacketsAreCounted == Spec => []TypeOK
BY ShapesInit, ShapesStep, ShapesAreTypes, PTL DEF Spec

-----------------------------------------------------------------------------
(* What the group holds. *)

\* What a question selects is filed under its name.
LEMMA SelectedInGroup ==
  ASSUME NEW name, NEW type
  PROVE  \A e \in Selected(name, type) : InGroup(e) /\ Selects(e, name, type)
BY DEF Selected, Selects, InGroup

\* What is filed is selected by a question for its type, or for any.
LEMMA SelectedFinds ==
  ASSUME NEW e, InGroup(e)
  PROVE  /\ e \in Selected(NameOf(e), TypeOf(e))
         /\ TypeOf(e) # "NSEC" => e \in Selected(NameOf(e), "ANY")
BY DEF Selected, Selects, InGroup

\* Until mdnsd_stop gives it back, nothing leaves the group, and what comes in
\* belongs to the host or to the service that is registered.
LEMMA GroupGrows ==
  ASSUME Shapes
  PROVE  /\ SetHostname =>
              /\ \A e : InGroup(e) => InGroup(e)'
              /\ \A e : InGroup(e)' => InGroup(e) \/ e[1] = Host
              /\ InGroup(<<Host, "A">>)' /\ InGroup(<<Host, "NSEC">>)'
         /\ AddRr =>
              /\ \A e : InGroup(e) => InGroup(e)'
              /\ \A e : InGroup(e)' => InGroup(e) \/ e = <<Host, "AAAA">>
         /\ \A s \in Service : RegisterSvc(s) =>
              /\ \A e : InGroup(e) => InGroup(e)'
              /\ \A e : InGroup(e)' => InGroup(e) \/ e[1] = s
              /\ InGroup(<<s, "SRV">>)'
              /\ s \in HasTxt => InGroup(<<s, "TXT">>)'
<1>0. GroupSound(group)
  BY DEF Shapes
<1>1. ASSUME SetHostname
      PROVE  /\ \A e : InGroup(e) => InGroup(e)'
             /\ \A e : InGroup(e)' => InGroup(e) \/ e[1] = Host
             /\ InGroup(<<Host, "A">>)' /\ InGroup(<<Host, "NSEC">>)'
  <2> DEFINE a == <<Host, "A">>
             n == <<Host, "NSEC">>
             g1 == RrGroupAdd(group, a)
             g2 == RrGroupAdd(g1, n)
  <2>1. group' = g2
    BY <1>1 DEF SetHostname, HostRecords
  <2>2. /\ a \in Record /\ NameOf(a) = Host /\ a[1] = Host
        /\ n \in Record /\ NameOf(n) = Host /\ n[1] = Host /\ Host \in Names
    BY NamesOfRecords
  <2>10. NameOf(a) \in Names /\ NameOf(n) \in Names
    BY <2>2
  <2> HIDE DEF a, n
  <2>3. /\ GroupSound(g1) /\ a \in Members(g1[Host])
        /\ \A m \in Names : Members(group[m]) \subseteq Members(g1[m])
        /\ \A m \in Names : \A x \in Members(g1[m]) : x \in Members(group[m]) \/ x = a
    <3>1. /\ GroupSound(g1) /\ a \in Members(g1[NameOf(a)])
          /\ \A m \in Names : Members(group[m]) \subseteq Members(g1[m])
          /\ \A m \in Names : \A x \in Members(g1[m]) : x \in Members(group[m]) \/ x = a
      BY <1>0, <2>2, <2>10, GroupAddSound
    <3> QED
      BY <2>2, <3>1
  <2> HIDE DEF g1
  <2>4. /\ n \in Members(g2[Host])
        /\ \A m \in Names : Members(g1[m]) \subseteq Members(g2[m])
        /\ \A m \in Names : \A x \in Members(g2[m]) : x \in Members(g1[m]) \/ x = n
    <3>1. /\ n \in Members(g2[NameOf(n)])
          /\ \A m \in Names : Members(g1[m]) \subseteq Members(g2[m])
          /\ \A m \in Names : \A x \in Members(g2[m]) : x \in Members(g1[m]) \/ x = n
      BY <2>2, <2>3, <2>10, GroupAddSound
    <3> QED
      BY <2>2, <3>1
  <2> HIDE DEF g2
  <2>5. a \in Members(g2[Host])
    BY <2>2, <2>3, <2>4
  <2>6. \A e : InGroup(e) => InGroup(e)'
    BY <2>1, <2>3, <2>4 DEF InGroup
  <2>7. \A e : InGroup(e)' => InGroup(e) \/ e[1] = Host
    BY <2>1, <2>2, <2>3, <2>4 DEF InGroup
  <2>8. InGroup(a)' /\ InGroup(n)'
    BY <2>1, <2>2, <2>4, <2>5 DEF InGroup
  <2> QED
    BY <2>6, <2>7, <2>8 DEF a, n
<1>2. ASSUME AddRr
      PROVE  /\ \A e : InGroup(e) => InGroup(e)'
             /\ \A e : InGroup(e)' => InGroup(e) \/ e = <<Host, "AAAA">>
  <2> DEFINE a == <<Host, "AAAA">>
  <2>1. group' = RrGroupAdd(group, a)
    BY <1>2 DEF AddRr
  <2>2. a \in Record /\ NameOf(a) \in Names
    BY NamesOfRecords
  <2> HIDE DEF a
  <2>3. /\ \A m \in Names : Members(group[m]) \subseteq Members(group'[m])
        /\ \A m \in Names : \A x \in Members(group'[m]) : x \in Members(group[m]) \/ x = a
    BY <1>0, <2>1, <2>2, GroupAddSound
  <2> QED
    BY <2>3 DEF InGroup, a
<1>3. ASSUME NEW s \in Service, RegisterSvc(s)
      PROVE  /\ \A e : InGroup(e) => InGroup(e)'
             /\ \A e : InGroup(e)' => InGroup(e) \/ e[1] = s
             /\ InGroup(<<s, "SRV">>)'
             /\ s \in HasTxt => InGroup(<<s, "TXT">>)'
  <2>1. group' = Filed(group, s)
    BY <1>3 DEF RegisterSvc
  <2>2. /\ \A m \in Names : Members(group[m]) \subseteq Members(group'[m])
        /\ <<s, "SRV">> \in Members(group'[s])
        /\ s \in HasTxt => <<s, "TXT">> \in Members(group'[s])
        /\ \A m \in Names : \A x \in Members(group'[m]) : x \in Members(group[m]) \/ x[1] = s
    BY <1>0, <2>1, FiledSound
  <2>3. s \in Names /\ NameOf(<<s, "SRV">>) = s /\ NameOf(<<s, "TXT">>) = s
    BY NamesOfRecords
  <2> QED
    BY <2>2, <2>3 DEF InGroup
<1> QED
  BY <1>1, <1>2, <1>3

\* The other steps leave the group alone.
LEMMA GroupKept ==
  ASSUME Feed \/ StopCall \/ Responder \/ UNCHANGED vars
  PROVE  UNCHANGED <<group, hostname>>
<1>1. CASE Feed \/ StopCall \/ UNCHANGED vars
  BY <1>1 DEF Feed, StopCall, vars, dataVars
<1>2. CASE Loop \/ Question \/ DropKnown \/ AddRelatedRr \/ Send
  BY <1>2 DEF Loop, Question, DropKnown, AddRelatedRr, Send, responderIdle, dataVars
<1>3. CASE Announce \/ AnnounceSd \/ Goodbye \/ Ended
  BY <1>3 DEF Announce, AnnounceSd, Goodbye, Ended, responderIdle, dataVars
<1> QED
  BY <1>1, <1>2, <1>3 DEF Responder

\* Services are filed whole, whoever adds to the group.
LEMMA FiledWholeStep == Shapes /\ FiledWhole /\ [Next]_vars => FiledWhole'
<1> SUFFICES ASSUME Shapes, FiledWhole, [Next]_vars PROVE FiledWhole'
  OBVIOUS
<1>0. \A s \in Service : s # Host
  BY RecordsAssumption
<1>1. CASE Feed \/ StopCall \/ Responder \/ UNCHANGED vars
  <2>1. UNCHANGED <<group, hostname>>
    BY <1>1, GroupKept
  <2> QED
    BY <2>1 DEF FiledWhole, InGroup
<1>2. CASE SetHostname
  <2>1. hostname' /\ ~hostname
    BY <1>2 DEF SetHostname
  <2>2. /\ \A e : InGroup(e)' => InGroup(e) \/ e[1] = Host
        /\ InGroup(<<Host, "A">>)' /\ InGroup(<<Host, "NSEC">>)'
    BY <1>2, GroupGrows
  <2>3. \A s \in Service : ~InGroup(<<s, "PTR">>)' /\ ~InGroup(<<s, "SRV">>)'
    <3> SUFFICES ASSUME NEW s \in Service, NEW t \in {"PTR", "SRV"}, InGroup(<<s, t>>)'
                 PROVE  FALSE
      OBVIOUS
    <3>1. <<s, t>>[1] # Host
      BY <1>0
    <3>2. InGroup(<<s, t>>)
      BY <2>2, <3>1
    <3> QED
      BY <2>1, <3>2 DEF FiledWhole
  <2> QED
    BY <2>1, <2>2, <2>3 DEF FiledWhole
<1>3. CASE AddRr
  <2>1. hostname' = hostname
    BY <1>3 DEF AddRr
  <2>2. /\ \A e : InGroup(e) => InGroup(e)'
        /\ \A e : InGroup(e)' => InGroup(e) \/ e = <<Host, "AAAA">>
    BY <1>3, GroupGrows
  <2>3. \A t \in {"A", "PTR", "SRV"} : \A s : InGroup(<<s, t>>)' => InGroup(<<s, t>>)
    BY <2>2
  <2> QED
    BY <2>1, <2>2, <2>3 DEF FiledWhole
<1>4. ASSUME NEW t \in Service, RegisterSvc(t) PROVE FiledWhole'
  <2>1. hostname' /\ hostname
    BY <1>4 DEF RegisterSvc
  <2>2. /\ \A e : InGroup(e) => InGroup(e)'
        /\ \A e : InGroup(e)' => InGroup(e) \/ e[1] = t
        /\ InGroup(<<t, "SRV">>)'
        /\ t \in HasTxt => InGroup(<<t, "TXT">>)'
    BY <1>4, GroupGrows
  <2>3. ASSUME NEW s \in Service, InGroup(<<s, "PTR">>)' \/ InGroup(<<s, "SRV">>)'
        PROVE  InGroup(<<s, "SRV">>)' /\ (s \in HasTxt => InGroup(<<s, "TXT">>)')
    <3>1. CASE s = t
      BY <2>2, <3>1
    <3>2. CASE s # t
      <4>1. InGroup(<<s, "PTR">>) \/ InGroup(<<s, "SRV">>)
        BY <2>2, <2>3, <3>2
      <4> QED
        BY <2>2, <4>1 DEF FiledWhole
    <3> QED
      BY <3>1, <3>2
  <2> QED
    BY <2>1, <2>2, <2>3 DEF FiledWhole
<1>5. CASE StopReturn
  <2>1. group' = EmptyGroup /\ ~hostname'
    BY <1>5 DEF StopReturn
  <2>2. \A e : ~InGroup(e)'
    BY <2>1, EmptyGroupSound DEF InGroup
  <2> QED
    BY <2>1, <2>2 DEF FiledWhole
<1> QED
  BY <1>1, <1>2, <1>3, <1>4, <1>5 DEF Next

-----------------------------------------------------------------------------
(* What a step of the thread puts into the reply. *)

\* A question adds answers that it selects, unless it is for unicast.
LEMMA QuestionAdds ==
  ASSUME Shapes, Question
  PROVE  /\ reply'.add = reply.add
         /\ i <= Len(pkt.qn)
         /\ \A e \in Members(reply'.ans) :
              \/ e \in Members(reply.ans)
              \/ ~pkt.qn[i].unicast /\ InGroup(e) /\ Selects(e, pkt.qn[i].name, pkt.qn[i].type)
<1> DEFINE q == pkt.qn[i]
           list == PopulateAnswers(reply.ans, q.name, q.type)
<1>1. ReplySound(reply) /\ ListSound(reply.ans) /\ GroupSound(group)
  BY DEF Shapes, ReplySound
<1>2. ListSound(list) /\ Members(list) = Members(reply.ans) \cup Selected(q.name, q.type)
  BY <1>1, PopulateSound
<1>3. \A e \in Members(list) :
        e \in Members(reply.ans) \/ (InGroup(e) /\ Selects(e, q.name, q.type))
  BY <1>2, SelectedInGroup
<1>4. /\ i <= Len(pkt.qn)
      /\ q.unicast => reply' = reply
      /\ ~q.unicast => reply' = WithAnswers(reply, list)
  BY DEF Question
<1> HIDE DEF q, list
<1>5. CASE q.unicast
  BY <1>4, <1>5
<1>6. CASE ~q.unicast
  <2>1. reply'.ans = list /\ reply'.add = reply.add
    <3>1. WithAnswers(reply, list).ans = list /\ WithAnswers(reply, list).add = reply.add
      BY <1>1, <1>2, ReplyStaysSound
    <3> QED
      BY <1>4, <1>6, <3>1
  <2> QED
    BY <1>3, <1>4, <1>6, <2>1 DEF q
<1> QED
  BY <1>4, <1>5, <1>6 DEF q

\* Only what is known is dropped.
LEMMA DropKnownDrops ==
  ASSUME Shapes, DropKnown
  PROVE  /\ reply'.add = reply.add
         /\ Members(reply'.ans) = {e \in Members(reply.ans) : ~Known(e)}
<1> DEFINE lacked == {e \in Members(reply.ans) : ~Known(e)}
           list == Kept(reply.ans, lacked)
<1>1. ReplySound(reply) /\ ListSound(reply.ans)
  BY DEF Shapes, ReplySound
<1>2. reply' = Dropped(reply, list)
  BY DEF DropKnown
<1>3. lacked \subseteq Members(reply.ans)
  OBVIOUS
<1> HIDE DEF lacked
<1>4. ListSound(list) /\ Members(list) = lacked
  <2>1. reply.ans \in Seq(Record) /\ NoRepeat(reply.ans)
    BY <1>1 DEF ListSound
  <2>2. /\ list \in Seq(Record) /\ Members(list) = Members(reply.ans) \cap lacked
        /\ NoRepeat(list)
    BY <2>1, KeptIsSublist
  <2> HIDE DEF list
  <2> QED
    BY <1>3, <2>2 DEF ListSound
<1> HIDE DEF list
<1>5. reply'.ans = list /\ reply'.add = reply.add
  BY <1>1, <1>2, <1>4, ReplyStaysSound
<1> QED
  BY <1>4, <1>5 DEF lacked

\* The list that add_related_rr walks.
Walked == IF pc = "related_ans" THEN reply.ans ELSE reply.add

\* A step of add_related_rr leaves the answers, and puts what the list it asks for
\* selects behind the additional records there are.
LEMMA AddRelatedAdds ==
  ASSUME Shapes, AddRelatedRr
  PROVE  /\ reply'.ans = reply.ans
         /\ i > Len(Walked) => reply' = reply /\ pc' = NextPlace /\ i' = 1 /\ j' = 1
         /\ i <= Len(Walked) =>
              LET asked == Related(Walked[i]) IN
              /\ pc' = pc
              /\ IF j < Len(asked) THEN j' = j + 1 /\ i' = i ELSE j' = 1 /\ i' = i + 1
              /\ Len(reply.add) <= Len(reply'.add)
              /\ \A k \in 1 .. Len(reply.add) : reply'.add[k] = reply.add[k]
              /\ Members(reply'.add) = Members(reply.add) \cup
                   (IF asked = <<>> THEN {} ELSE Selected(asked[j][1], asked[j][2]))
<1> DEFINE asked == Related(Walked[i])
           list == PopulateAnswers(reply.add, asked[j][1], asked[j][2])
<1>1. ReplySound(reply) /\ ListSound(reply.add) /\ GroupSound(group)
  BY DEF Shapes, ReplySound
<1>2. CASE i > Len(Walked)
  <2>1. reply' = reply /\ pc' = NextPlace /\ i' = 1 /\ j' = 1
    BY <1>2 DEF AddRelatedRr, Walked, GoTo
  <2>2. ~(i <= Len(Walked))
    <3>1. i \in Nat /\ Len(Walked) \in Nat
      BY DEF Shapes, ReplySound, ListSound, Walked
    <3> QED
      BY <1>2, <3>1
  <2> QED
    BY <2>1, <2>2
<1>3. CASE ~(i > Len(Walked))
  <2>1. /\ reply' = IF asked = <<>> THEN reply ELSE WithAdditional(reply, list)
        /\ IF j < Len(asked) THEN j' = j + 1 /\ i' = i ELSE j' = 1 /\ i' = i + 1
        /\ pc' = pc
    BY <1>3 DEF AddRelatedRr, Walked
  <2>2. /\ ListSound(list)
        /\ Members(list) = Members(reply.add) \cup Selected(asked[j][1], asked[j][2])
        /\ Len(reply.add) <= Len(list)
        /\ \A k \in 1 .. Len(reply.add) : list[k] = reply.add[k]
    BY <1>1, PopulateSound
  <2>3. Len(reply.add) \in Nat
    BY <1>1 DEF ListSound
  <2> HIDE DEF list
  <2>4. WithAdditional(reply, list).ans = reply.ans /\ WithAdditional(reply, list).add = list
    BY <1>1, <2>2, ReplyStaysSound
  <2> HIDE DEF asked
  <2>5. CASE asked = <<>>
    BY <1>3, <2>1, <2>3, <2>5 DEF asked
  <2>6. CASE asked # <<>>
    <3>1. reply'.ans = reply.ans /\ reply'.add = list
      BY <2>1, <2>4, <2>6
    <3> QED
      BY <1>3, <2>1, <2>2, <2>6, <3>1 DEF asked
  <2> QED
    BY <2>5, <2>6
<1> QED
  BY <1>2, <1>3

\* The first question of announce_srv is answered from the group.
LEMMA AnnounceAdds ==
  ASSUME Shapes, Announce, announce # <<>>
  PROVE  reply'.add = <<>> /\ \A e \in Members(reply'.ans) : InGroup(e)
<1> DEFINE list == PopulateAnswers(<<>>, NameOf(announce[1]), "PTR")
<1>1. GroupSound(group)
  BY DEF Shapes
<1>2. /\ ListSound(list)
      /\ Members(list) = Members(<<>>) \cup Selected(NameOf(announce[1]), "PTR")
  BY <1>1, PopulateSound, EmptySound
<1>3. \A e \in Members(list) : InGroup(e)
  BY <1>2, SelectedInGroup, EmptySound
<1>4. reply' = WithAnswers(NoReply, list)
  BY DEF Announce
<1> HIDE DEF list
<1>5. reply'.ans = list /\ reply'.add = NoReply.add
  <2>1. WithAnswers(NoReply, list).ans = list /\ WithAnswers(NoReply, list).add = NoReply.add
    BY <1>2, ReplyStaysSound, EmptySound
  <2> QED
    BY <1>4, <2>1
<1> QED
  BY <1>3, <1>5 DEF NoReply

\* So is the second.
LEMMA AnnounceSdAdds ==
  ASSUME Shapes, AnnounceSd
  PROVE  /\ reply'.add = reply.add
         /\ \A e \in Members(reply'.ans) : e \in Members(reply.ans) \/ InGroup(e)
<1> DEFINE list == PopulateAnswers(reply.ans, DnsSd, "PTR")
<1>1. ReplySound(reply) /\ ListSound(reply.ans) /\ GroupSound(group)
  BY DEF Shapes, ReplySound
<1>2. ListSound(list) /\ Members(list) = Members(reply.ans) \cup Selected(DnsSd, "PTR")
  BY <1>1, PopulateSound
<1>3. \A e \in Members(list) : e \in Members(reply.ans) \/ InGroup(e)
  BY <1>2, SelectedInGroup
<1>4. reply' = WithAnswers(reply, list)
  BY DEF AnnounceSd
<1> HIDE DEF list
<1> QED
  BY <1>1, <1>2, <1>3, <1>4, ReplyStaysSound

-----------------------------------------------------------------------------
(* The records of a service travel together. *)

\* The steps that leave the thread where it is.
LEMMA ElsewhereKept ==
  ASSUME \/ Feed \/ SetHostname \/ AddRr \/ StopCall \/ StopReturn \/ Ended
         \/ UNCHANGED vars \/ \E s \in Service : RegisterSvc(s)
  PROVE  UNCHANGED <<pc, pkt, i, j, reply>>
<1>1. CASE Feed \/ SetHostname \/ AddRr \/ StopCall \/ StopReturn
  BY <1>1 DEF Feed, SetHostname, AddRr, StopCall, StopReturn, loopVars
<1>2. CASE Ended \/ UNCHANGED vars
  BY <1>2 DEF Ended, vars, loopVars
<1>3. CASE \E s \in Service : RegisterSvc(s)
  BY <1>3 DEF RegisterSvc, loopVars
<1> QED
  BY <1>1, <1>2, <1>3

\* What is in a reply is in the group, until mdnsd_stop gives the group back; the
\* thread has come to its end by then.
LEMMA FromGroupStep ==
  FlagPassed /\ Shapes /\ FromGroup /\ [Next]_vars => FromGroup'
<1> SUFFICES ASSUME FlagPassed, Shapes, FromGroup, [Next]_vars, Replying',
                    NEW e, e \in Members(reply'.ans) \/ e \in Members(reply'.add)
             PROVE  InGroup(e)'
  BY DEF FromGroup
<1>0. Replying /\ (e \in Members(reply.ans) \/ e \in Members(reply.add)) => InGroup(e)
  BY DEF FromGroup
<1>1. CASE Feed \/ StopCall \/ Ended \/ UNCHANGED vars
  <2>1. UNCHANGED <<group, hostname, pc, pkt, i, j, reply>>
    BY <1>1, GroupKept, ElsewhereKept DEF Responder
  <2> QED
    BY <1>0, <2>1 DEF Replying, InGroup
<1>2. CASE SetHostname \/ AddRr \/ \E s \in Service : RegisterSvc(s)
  <2>1. UNCHANGED <<pc, pkt, i, j, reply>>
    BY <1>2, ElsewhereKept
  <2>2. InGroup(e) => InGroup(e)'
    BY <1>2, GroupGrows
  <2> QED
    BY <1>0, <2>1, <2>2 DEF Replying
<1>3. CASE StopReturn
  <2>1. pc' = pc /\ pc = "ended"
    BY <1>3, ElsewhereKept DEF StopReturn, FlagSeen, FlagPassed
  <2> QED
    BY <2>1 DEF Replying
<1>4. CASE Loop \/ Send \/ Goodbye
  <2>1. pc' = "question" /\ reply' = NoReply
    <3>1. CASE Loop
      BY <3>1 DEF Loop, GoTo, Replying
    <3>2. CASE Send \/ Goodbye
      BY <3>2 DEF Send, Goodbye, GoTo, Replying
    <3> QED
      BY <1>4, <3>1, <3>2
  <2>2. Members(reply'.ans) = {} /\ Members(reply'.add) = {}
    BY <2>1, EmptySound DEF NoReply
  <2> QED
    BY <2>2
<1>5. CASE Question
  <2>1. UNCHANGED group /\ Replying
    BY <1>5, GroupKept DEF Question, Responder, Replying
  <2>2. InGroup(e)
    BY <1>0, <1>5, <2>1, QuestionAdds
  <2> QED
    BY <2>1, <2>2 DEF InGroup
<1>6. CASE DropKnown
  <2>1. UNCHANGED group /\ Replying
    BY <1>6, GroupKept DEF DropKnown, Responder, Replying
  <2>2. InGroup(e)
    BY <1>0, <1>6, <2>1, DropKnownDrops
  <2> QED
    BY <2>1, <2>2 DEF InGroup
<1>7. CASE AddRelatedRr
  <2>1. UNCHANGED group /\ Replying
    BY <1>7, GroupKept DEF AddRelatedRr, Responder, Replying
  <2>2. CASE i <= Len(Walked)
    <3> DEFINE asked == Related(Walked[i])
    <3>1. /\ reply'.ans = reply.ans
          /\ Members(reply'.add) = Members(reply.add) \cup
               (IF asked = <<>> THEN {} ELSE Selected(asked[j][1], asked[j][2]))
      BY <1>7, <2>2, AddRelatedAdds
    <3> HIDE DEF asked
    <3>2. InGroup(e)
      BY <1>0, <2>1, <3>1, SelectedInGroup
    <3> QED
      BY <2>1, <3>2 DEF InGroup
  <2>3. CASE i > Len(Walked)
    <3>1. reply' = reply
      BY <1>7, <2>3, AddRelatedAdds
    <3> QED
      BY <1>0, <2>1, <3>1 DEF InGroup
  <2>4. i \in Nat /\ Len(Walked) \in Nat
    BY DEF Shapes, ReplySound, ListSound, Walked
  <2> QED
    BY <2>2, <2>3, <2>4
<1>8. CASE Announce
  <2>1. UNCHANGED group
    BY <1>8, GroupKept DEF Responder
  <2>2. announce # <<>>
    BY <1>8 DEF Announce, GoTo, Replying
  <2>3. InGroup(e)
    BY <1>8, <2>2, AnnounceAdds, EmptySound
  <2> QED
    BY <2>1, <2>3 DEF InGroup
<1>9. CASE AnnounceSd
  <2>1. UNCHANGED group /\ Replying
    BY <1>9, GroupKept DEF AnnounceSd, Responder, Replying
  <2>2. InGroup(e)
    BY <1>0, <1>9, <2>1, AnnounceSdAdds
  <2> QED
    BY <2>1, <2>2 DEF InGroup
<1> QED
  BY <1>1, <1>2, <1>3, <1>4, <1>5, <1>6, <1>7, <1>8, <1>9 DEF Next, Responder

\* The second of two lists is asked for only because of an SRV record.
LEMMA SecondIsSrvStep == Shapes /\ SecondIsSrv /\ [Next]_vars => SecondIsSrv'
<1> SUFFICES ASSUME Shapes, SecondIsSrv, [Next]_vars PROVE SecondIsSrv'
  OBVIOUS
<1>1. CASE \/ Feed \/ SetHostname \/ AddRr \/ StopCall \/ StopReturn \/ Ended
           \/ UNCHANGED vars \/ \E s \in Service : RegisterSvc(s)
  <2>1. UNCHANGED <<pc, pkt, i, j, reply>>
    BY <1>1, ElsewhereKept
  <2> QED
    BY <2>1 DEF SecondIsSrv
<1>2. CASE Loop \/ Question \/ DropKnown \/ Send \/ Announce \/ AnnounceSd \/ Goodbye
  <2>1. j' = 1 \/ pc' \notin {"related_ans", "related_add"}
    <3>1. CASE Loop \/ Question \/ DropKnown \/ Send
      BY <3>1 DEF Loop, Question, DropKnown, Send, GoTo
    <3>2. CASE Announce \/ AnnounceSd \/ Goodbye
      BY <3>2 DEF Announce, AnnounceSd, Goodbye, GoTo
    <3> QED
      BY <1>2, <3>1, <3>2
  <2> QED
    BY <2>1 DEF SecondIsSrv
<1>3. CASE AddRelatedRr
  <2> DEFINE asked == Related(Walked[i])
  <2>1. CASE i > Len(Walked)
    BY <1>3, <2>1, AddRelatedAdds DEF SecondIsSrv
  <2>2. CASE i <= Len(Walked)
    <3>1. /\ pc' = pc /\ pc \in {"related_ans", "related_add"}
          /\ IF j < Len(asked) THEN j' = j + 1 /\ i' = i ELSE j' = 1 /\ i' = i + 1
          /\ reply'.ans = reply.ans
          /\ Len(reply.add) <= Len(reply'.add)
          /\ \A k \in 1 .. Len(reply.add) : reply'.add[k] = reply.add[k]
      BY <1>3, <2>2, AddRelatedAdds DEF AddRelatedRr
    <3>2. SUFFICES ASSUME j' = 2 PROVE SecondIsSrv'
      BY DEF SecondIsSrv
    <3>3. j < Len(asked) /\ i' = i
      BY <3>1, <3>2
    <3>4. TypeOf(Walked[i]) = "SRV"
      <4>1. TypeOf(Walked[i]) # "SRV" => Len(asked) \in {0, 1}
        BY DEF Related
      <4>2. j \in {1, 2}
        BY DEF Shapes
      <4> HIDE DEF asked
      <4>3. \A n \in {0, 1} : \A x \in {1, 2} : ~(x < n)
        OBVIOUS
      <4> QED
        BY <3>3, <4>1, <4>2, <4>3
    <3>5. i \in 1 .. Len(Walked) /\ Len(reply.add) \in Nat /\ Len(reply'.add) \in Nat
      <4>1. i \in Nat \ {0} /\ Len(Walked) \in Nat /\ Len(reply.add) \in Nat
        BY DEF Shapes, ReplySound, ListSound, Walked
      <4>2. Shapes'
        BY ShapesStep
      <4>3. Len(reply'.add) \in Nat
        BY <4>2 DEF Shapes, ReplySound, ListSound
      <4> QED
        BY <2>2, <4>1, <4>3
    <3>6. CASE pc = "related_ans"
      BY <2>2, <3>1, <3>3, <3>4, <3>6 DEF SecondIsSrv, Walked
    <3>7. CASE pc = "related_add"
      <4>1. Walked = reply.add
        BY <3>7 DEF Walked
      <4>2. reply'.add[i] = reply.add[i] /\ i <= Len(reply'.add)
        BY <3>1, <3>5, <4>1
      <4> QED
        BY <3>1, <3>3, <3>4, <3>7, <4>1, <4>2 DEF SecondIsSrv
    <3> QED
      BY <3>1, <3>6, <3>7
  <2>3. i \in Nat /\ Len(Walked) \in Nat
    BY DEF Shapes, ReplySound, ListSound, Walked
  <2> QED
    BY <2>1, <2>2, <2>3
<1> QED
  BY <1>1, <1>2, <1>3 DEF Next, Responder

\* What a list has been given for a record stays in it when it grows.
LEMMA HasMonotonic ==
  ASSUME NEW list, NEW more, Members(list) \subseteq Members(more)
  PROVE  /\ \A s : HasService(list, s) => HasService(more, s)
         /\ \A e : HasHost(list, e) => HasHost(more, e)
BY DEF HasService, HasHost

\* The lists of related records, for the records that matter.
LEMMA RelatedLists ==
  /\ \A s \in Service :
       /\ Related(<<s, "PTR">>) = << <<s, "ANY">> >>
       /\ Related(<<s, "SRV">>) = << <<Host, "ANY">>, <<s, "TXT">> >>
       /\ TypeOf(<<s, "PTR">>) = "PTR" /\ TypeOf(<<s, "SRV">>) = "SRV"
       /\ TypeOf(<<s, "TXT">>) = "TXT"
  /\ Related(<<Host, "A">>) = << <<Host, "NSEC">> >>
  /\ TypeOf(<<Host, "A">>) = "A" /\ TypeOf(<<Host, "NSEC">>) = "NSEC"
<1>1. ASSUME NEW s \in Service PROVE TypeOf(<<s, "PTR">>) = "PTR" /\ TargetOf(<<s, "PTR">>) = s
  BY DEF TypeOf, TargetOf
<1>2. ASSUME NEW s \in Service
      PROVE  TypeOf(<<s, "SRV">>) = "SRV" /\ TargetOf(<<s, "SRV">>) = Host
  BY DEF TypeOf, TargetOf
<1>3. ASSUME NEW s \in Service PROVE TypeOf(<<s, "TXT">>) = "TXT"
  BY DEF TypeOf
<1>4. TypeOf(<<Host, "A">>) = "A" /\ TypeOf(<<Host, "NSEC">>) = "NSEC"
  BY DEF TypeOf
<1> HIDE DEF TypeOf, TargetOf
<1>5. \A s \in Service : Related(<<s, "PTR">>) = << <<s, "ANY">> >>
  BY <1>1 DEF Related
<1>6. \A s \in Service : Related(<<s, "SRV">>) = << <<Host, "ANY">>, <<s, "TXT">> >>
  BY <1>2, NamesOfRecords DEF Related
<1>7. Related(<<Host, "A">>) = << <<Host, "NSEC">> >>
  BY <1>4, NamesOfRecords DEF Related
<1> QED
  BY <1>1, <1>2, <1>3, <1>4, <1>5, <1>6, <1>7

\* What the related lists select, once a service is filed.
LEMMA RelatedFinds ==
  ASSUME FiledWhole
  PROVE  /\ \A s \in Service : InGroup(<<s, "PTR">>) =>
              /\ <<s, "SRV">> \in Selected(s, "ANY")
              /\ s \in HasTxt => <<s, "TXT">> \in Selected(s, "ANY")
         /\ \A s \in Service : InGroup(<<s, "SRV">>) => <<Host, "A">> \in Selected(Host, "ANY")
         /\ InGroup(<<Host, "A">>) => <<Host, "NSEC">> \in Selected(Host, "NSEC")
<1>1. ASSUME NEW s \in Service, InGroup(<<s, "PTR">>)
      PROVE  /\ <<s, "SRV">> \in Selected(s, "ANY")
             /\ s \in HasTxt => <<s, "TXT">> \in Selected(s, "ANY")
  <2>1. InGroup(<<s, "SRV">>) /\ (s \in HasTxt => InGroup(<<s, "TXT">>))
    BY <1>1 DEF FiledWhole
  <2>2. /\ NameOf(<<s, "SRV">>) = s /\ TypeOf(<<s, "SRV">>) # "NSEC"
        /\ NameOf(<<s, "TXT">>) = s /\ TypeOf(<<s, "TXT">>) # "NSEC"
    BY NamesOfRecords, RelatedLists
  <2>3. <<s, "SRV">> \in Selected(NameOf(<<s, "SRV">>), "ANY")
    BY <2>1, <2>2, SelectedFinds
  <2>4. s \in HasTxt => <<s, "TXT">> \in Selected(NameOf(<<s, "TXT">>), "ANY")
    BY <2>1, <2>2, SelectedFinds
  <2> QED
    BY <2>2, <2>3, <2>4
<1>2. NameOf(<<Host, "A">>) = Host /\ NameOf(<<Host, "NSEC">>) = Host
  BY NamesOfRecords
<1>3. ASSUME NEW s \in Service, InGroup(<<s, "SRV">>)
      PROVE  <<Host, "A">> \in Selected(Host, "ANY")
  <2>1. InGroup(<<Host, "A">>) /\ TypeOf(<<Host, "A">>) # "NSEC"
    BY <1>3, RelatedLists DEF FiledWhole
  <2>2. <<Host, "A">> \in Selected(NameOf(<<Host, "A">>), "ANY")
    BY <2>1, SelectedFinds
  <2> QED
    BY <1>2, <2>2
<1>4. ASSUME InGroup(<<Host, "A">>) PROVE <<Host, "NSEC">> \in Selected(Host, "NSEC")
  <2>1. InGroup(<<Host, "NSEC">>) /\ TypeOf(<<Host, "NSEC">>) = "NSEC"
    BY <1>4, RelatedLists DEF FiledWhole
  <2>2. <<Host, "NSEC">> \in Selected(NameOf(<<Host, "NSEC">>), TypeOf(<<Host, "NSEC">>))
    BY <2>1, SelectedFinds
  <2> QED
    BY <1>2, <2>1, <2>2
<1> QED
  BY <1>1, <1>3, <1>4

\* add_related_rr on the answers: a PTR brings the SRV and the TXT of its service.
LEMMA FollowedAnswers ==
  ASSUME Shapes, FiledWhole, FromGroup, SecondIsSrv, Followed, AddRelatedRr,
         pc = "related_ans"
  PROVE  Followed'
<1> DEFINE asked == Related(reply.ans[i])
<1>0. Walked = reply.ans
  BY DEF Walked
<1>1. /\ i \in Nat \ {0} /\ Len(reply.ans) \in Nat /\ DOMAIN reply.ans = 1 .. Len(reply.ans)
      /\ j \in {1, 2}
  BY DEF Shapes, ReplySound, ListSound
<1>2. CASE i > Len(reply.ans)
  <2>1. reply' = reply /\ pc' = "related_add" /\ i' = 1 /\ j' = 1
    BY <1>0, <1>2, AddRelatedAdds DEF NextPlace
  <2>2. \A s \in Service : <<s, "PTR">> \in Members(reply.ans) => HasService(reply.add, s)
    BY <1>1, <1>2 DEF Followed, Members
  <2>3. DOMAIN reply.add \subseteq Nat \ {0}
    BY DEF Shapes, ReplySound, ListSound
  <2>4. \A k \in DOMAIN reply'.add : ~(k < i') /\ ~(k = i' /\ j' = 2)
    BY <2>1, <2>3
  <2> QED
    BY <2>1, <2>2, <2>4 DEF Followed
<1>3. CASE i <= Len(reply.ans)
  <2>1. /\ pc' = pc /\ reply'.ans = reply.ans
        /\ IF j < Len(asked) THEN j' = j + 1 /\ i' = i ELSE j' = 1 /\ i' = i + 1
        /\ Members(reply'.add) = Members(reply.add) \cup
             (IF asked = <<>> THEN {} ELSE Selected(asked[j][1], asked[j][2]))
    BY <1>0, <1>3, AddRelatedAdds
  <2>2. \A s : HasService(reply.add, s) => HasService(reply'.add, s)
    BY <2>1, HasMonotonic
  <2>3. ASSUME NEW s \in Service, reply.ans[i] = <<s, "PTR">>
        PROVE  HasService(reply'.add, s)
    <3>1. asked = << <<s, "ANY">> >> /\ TypeOf(reply.ans[i]) # "SRV"
      BY <2>3, RelatedLists
    <3>2. j = 1
      BY <1>1, <3>1 DEF SecondIsSrv
    <3>3. Members(reply'.add) = Members(reply.add) \cup Selected(s, "ANY")
      <4> HIDE DEF asked
      <4> QED
        BY <2>1, <3>1, <3>2
    <3>4. InGroup(<<s, "PTR">>)
      BY <1>1, <1>3, <2>3 DEF FromGroup, Replying, Members
    <3> QED
      BY <3>3, <3>4, RelatedFinds DEF HasService
  <2>4. ASSUME NEW k \in DOMAIN reply.ans, k < i' PROVE k < i \/ k = i
    <3>1. i' = i \/ i' = i + 1
      BY <2>1
    <3> QED
      BY <1>1, <2>4, <3>1
  <2>5. \A k \in DOMAIN reply'.ans : \A s \in Service :
          k < i' /\ reply'.ans[k] = <<s, "PTR">> => HasService(reply'.add, s)
    BY <2>1, <2>2, <2>3, <2>4 DEF Followed
  <2> QED
    BY <2>1, <2>5 DEF Followed
<1> QED
  BY <1>1, <1>2, <1>3

\* add_related_rr on what it has added: an SRV brings the address of the host, which
\* brings the NSEC record.
LEMMA FollowedAdditional ==
  ASSUME Shapes, FiledWhole, FromGroup, SecondIsSrv, Followed, AddRelatedRr,
         pc = "related_add"
  PROVE  Followed'
<1> DEFINE asked == Related(reply.add[i])
<1>0. Walked = reply.add
  BY DEF Walked
<1>1. /\ i \in Nat \ {0} /\ Len(reply.add) \in Nat /\ DOMAIN reply.add = 1 .. Len(reply.add)
      /\ j \in {1, 2}
  BY DEF Shapes, ReplySound, ListSound
<1>2. CASE i > Len(reply.add)
  <2>1. reply' = reply /\ pc' = "send"
    BY <1>0, <1>2, AddRelatedAdds DEF NextPlace
  <2>2. \A e \in Members(reply.add) : HasHost(reply.add, e)
    BY <1>1, <1>2 DEF Followed, Members
  <2> QED
    BY <2>1, <2>2 DEF Followed
<1>3. CASE i <= Len(reply.add)
  <2>1. /\ pc' = pc /\ reply'.ans = reply.ans
        /\ IF j < Len(asked) THEN j' = j + 1 /\ i' = i ELSE j' = 1 /\ i' = i + 1
        /\ \A k \in 1 .. Len(reply.add) : reply'.add[k] = reply.add[k]
        /\ Members(reply'.add) = Members(reply.add) \cup
             (IF asked = <<>> THEN {} ELSE Selected(asked[j][1], asked[j][2]))
    BY <1>0, <1>3, AddRelatedAdds
  <2>2. /\ \A s : HasService(reply.add, s) => HasService(reply'.add, s)
        /\ \A e : HasHost(reply.add, e) => HasHost(reply'.add, e)
    BY <2>1, HasMonotonic
  <2>3. reply.add[i] \in Members(reply.add) /\ InGroup(reply.add[i])
    BY <1>1, <1>3 DEF FromGroup, Replying, Members
  <2>4. ASSUME NEW s \in Service, reply.add[i] = <<s, "SRV">>
        PROVE  <<Host, "A">> \in Members(reply'.add)
    <3>1. CASE j = 1
      <4>1. asked = << <<Host, "ANY">>, <<s, "TXT">> >>
        BY <2>4, RelatedLists
      <4>2. Members(reply'.add) = Members(reply.add) \cup Selected(Host, "ANY")
        <5> HIDE DEF asked
        <5> QED
          BY <2>1, <3>1, <4>1
      <4> QED
        BY <2>3, <2>4, <4>2, RelatedFinds
    <3>2. CASE j = 2
      <4>1. HasHost(reply.add, reply.add[i])
        BY <1>1, <1>3, <3>2 DEF Followed
      <4> QED
        BY <2>1, <2>4, <4>1 DEF HasHost
    <3> QED
      BY <1>1, <3>1, <3>2
  <2>5. ASSUME reply.add[i] = <<Host, "A">>
        PROVE  <<Host, "NSEC">> \in Members(reply'.add)
    <3>1. asked = << <<Host, "NSEC">> >> /\ TypeOf(reply.add[i]) # "SRV"
      BY <2>5, RelatedLists
    <3>2. j = 1
      BY <1>1, <3>1 DEF SecondIsSrv
    <3>3. Members(reply'.add) = Members(reply.add) \cup Selected(Host, "NSEC")
      <4> HIDE DEF asked
      <4> QED
        BY <2>1, <3>1, <3>2
    <3> QED
      BY <2>3, <2>5, <3>3, RelatedFinds
  <2>6. HasHost(reply'.add, reply.add[i])
    BY <2>4, <2>5 DEF HasHost
  <2>7. ASSUME NEW k \in DOMAIN reply'.add, k < i' \/ (k = i' /\ j' = 2)
        PROVE  HasHost(reply'.add, reply'.add[k])
    <3>1. (i' = i /\ j' = j + 1) \/ (i' = i + 1 /\ j' = 1)
      BY <2>1
    <3>2. k \in Nat \ {0}
      <4>1. Shapes'
        BY ShapesStep DEF Next, Responder
      <4>2. reply'.add \in Seq(Record)
        BY <4>1 DEF Shapes, ReplySound, ListSound
      <4>3. DOMAIN reply'.add = 1 .. Len(reply'.add)
        BY <4>2
      <4> QED
        BY <2>7, <4>3
    <3>3. k < i \/ k = i
      BY <1>1, <2>7, <3>1, <3>2
    <3>4. k \in 1 .. Len(reply.add) /\ reply'.add[k] = reply.add[k]
      BY <1>1, <1>3, <2>1, <3>2, <3>3
    <3>5. CASE k = i
      BY <2>6, <3>4, <3>5
    <3>6. CASE k < i
      <4>1. HasHost(reply.add, reply.add[k])
        BY <1>1, <3>4, <3>6 DEF Followed
      <4> QED
        BY <2>2, <3>4, <4>1
    <3> QED
      BY <3>3, <3>5, <3>6
  <2>8. \A s \in Service :
          <<s, "PTR">> \in Members(reply'.ans) => HasService(reply'.add, s)
    BY <2>1, <2>2 DEF Followed
  <2> QED
    BY <2>1, <2>7, <2>8 DEF Followed
<1> QED
  BY <1>1, <1>2, <1>3

\* No step undoes what add_related_rr has added.
LEMMA FollowedStep ==
  /\ Shapes /\ FiledWhole /\ FromGroup /\ SecondIsSrv /\ Followed
  /\ [Next]_vars
  => Followed'
<1> SUFFICES ASSUME Shapes, FiledWhole, FromGroup, SecondIsSrv, Followed, [Next]_vars
             PROVE  Followed'
  OBVIOUS
<1>1. CASE \/ Feed \/ SetHostname \/ AddRr \/ StopCall \/ StopReturn \/ Ended
           \/ UNCHANGED vars \/ \E s \in Service : RegisterSvc(s)
  <2>1. UNCHANGED <<pc, pkt, i, j, reply>>
    BY <1>1, ElsewhereKept
  <2> QED
    BY <2>1 DEF Followed
<1>2. CASE DropKnown \/ AnnounceSd
  <2>1. pc' = "related_ans" /\ i' = 1
    BY <1>2 DEF DropKnown, AnnounceSd, GoTo
  <2>2. Shapes'
    BY ShapesStep
  <2>3. reply'.ans \in Seq(Record)
    BY <2>2 DEF Shapes, ReplySound, ListSound
  <2>4. DOMAIN reply'.ans = 1 .. Len(reply'.ans)
    BY <2>3
  <2>5. \A k \in DOMAIN reply'.ans : ~(k < i')
    BY <2>1, <2>4
  <2> QED
    BY <2>1, <2>5 DEF Followed
<1>3. CASE Loop \/ Question \/ Send \/ Announce \/ Goodbye
  <2>1. pc' \notin {"related_ans", "related_add", "send"}
    <3>1. CASE Loop \/ Question \/ Send
      BY <3>1 DEF Loop, Question, Send, GoTo
    <3>2. CASE Announce \/ Goodbye
      BY <3>2 DEF Announce, Goodbye, GoTo
    <3> QED
      BY <1>3, <3>1, <3>2
  <2> QED
    BY <2>1 DEF Followed
<1>4. CASE AddRelatedRr
  <2>1. pc \in {"related_ans", "related_add"}
    BY <1>4 DEF AddRelatedRr
  <2> QED
    BY <1>4, <2>1, FollowedAnswers, FollowedAdditional
<1> QED
  BY <1>1, <1>2, <1>3, <1>4 DEF Next, Responder

\* What RecordsOf lists.
LEMMA MembersOfRecords ==
  /\ \A s \in Service :
       Members(RecordsOf(s)) \ {<<s, "PTR">>, <<s, "BPTR">>}
         \subseteq {<<s, "SRV">>} \cup (IF s \in HasTxt THEN {<<s, "TXT">>} ELSE {})
  /\ Members(HostRecords) = {<<Host, "A">>, <<Host, "NSEC">>}
<1>1. ASSUME NEW s \in Service
      PROVE  Members(RecordsOf(s)) \ {<<s, "PTR">>, <<s, "BPTR">>}
               \subseteq {<<s, "SRV">>} \cup (IF s \in HasTxt THEN {<<s, "TXT">>} ELSE {})
  <2> DEFINE t == <<s, "TXT">>
             v == <<s, "SRV">>
             p == <<s, "PTR">>
             b == <<s, "BPTR">>
             all == {t, v, p, b}
  <2>1. CASE s \in HasTxt
    <3>1. RecordsOf(s) = << t >> \o << v, p, b >>
      BY <2>1 DEF RecordsOf
    <3> HIDE DEF t, v, p, b
    <3>2. << t >> \in Seq(all) /\ << v, p, b >> \in Seq(all)
      OBVIOUS
    <3>3. << t >> \o << v, p, b >> \in Seq(all)
      BY <3>2, ConcatProperties
    <3>4. Members(RecordsOf(s)) \subseteq all
      <4> HIDE DEF all
      <4> QED
        BY <3>1, <3>3 DEF Members
    <3> QED
      BY <2>1, <3>4 DEF t, v, p, b
  <2>2. CASE s \notin HasTxt
    <3>1. RecordsOf(s) = << >> \o << v, p, b >>
      BY <2>2 DEF RecordsOf
    <3> HIDE DEF t, v, p, b
    <3>2. << v, p, b >> \in Seq({v, p, b})
      OBVIOUS
    <3>3. RecordsOf(s) = << v, p, b >>
      BY <3>1, <3>2, ConcatEmptySeq
    <3>4. Members(RecordsOf(s)) \subseteq {v, p, b}
      BY <3>3 DEF Members
    <3> QED
      BY <2>2, <3>4 DEF t, v, p, b
  <2> QED
    BY <2>1, <2>2
<1>2. Members(HostRecords) = {<<Host, "A">>, <<Host, "NSEC">>}
  <2> DEFINE a == <<Host, "A">>
             n == <<Host, "NSEC">>
  <2>1. HostRecords = << a, n >>
    BY DEF HostRecords
  <2> HIDE DEF a, n
  <2>2. Members(<< a, n >>) = {a, n}
    BY DEF Members
  <2> QED
    BY <2>1, <2>2 DEF a, n
<1> QED
  BY <1>1, <1>2

\* A packet is sent when all that is related has been followed.
LEMMA UsableStep ==
  Followed /\ UsableAtOnce /\ [Next]_vars => UsableAtOnce'
<1> SUFFICES ASSUME Followed, UsableAtOnce, [Next]_vars PROVE UsableAtOnce'
  OBVIOUS
<1>1. CASE UNCHANGED sent
  BY <1>1 DEF UsableAtOnce
<1>2. CASE Goodbye
  <2>1. UNCHANGED sent \/ sent' = Packet("goodbye", WithAnswers(NoReply, services))
    BY <1>2 DEF Goodbye
  <2>2. Packet("goodbye", WithAnswers(NoReply, services)).kind = "goodbye"
    BY DEF Packet
  <2>3. UNCHANGED sent \/ sent'.kind = "goodbye"
    BY <2>1, <2>2
  <2> QED
    BY <1>1, <2>3 DEF UsableAtOnce
<1>3. CASE Send
  <2>1. UNCHANGED sent \/ sent' = Packet("reply", reply)
    BY <1>3 DEF Send
  <2>2. Packet("reply", reply).reply = reply
    BY DEF Packet
  <2>3. CASE sent' = Packet("reply", reply)
    <3>1. sent'.reply = reply
      BY <2>2, <2>3
    <3>2. SUFFICES ASSUME NEW s \in Service, <<s, "PTR">> \in Members(reply.ans)
                   PROVE  (Members(RecordsOf(s)) \ {<<s, "PTR">>, <<s, "BPTR">>})
                             \cup Members(HostRecords) \subseteq Members(reply.add)
      BY <3>1 DEF UsableAtOnce
    <3>3. pc = "send"
      BY <1>3 DEF Send
    <3>4. HasService(reply.add, s)
      BY <3>2, <3>3 DEF Followed
    <3>5. HasHost(reply.add, <<s, "SRV">>)
      BY <3>3, <3>4 DEF Followed, HasService
    <3>6. HasHost(reply.add, <<Host, "A">>)
      BY <3>3, <3>5 DEF Followed, HasHost
    <3> QED
      BY <3>4, <3>5, <3>6, MembersOfRecords DEF HasService, HasHost
  <2> QED
    BY <1>1, <2>1, <2>3
<1>4. ASSUME \/ Feed \/ SetHostname \/ AddRr \/ StopCall \/ StopReturn \/ Ended
             \/ UNCHANGED vars \/ \E s \in Service : RegisterSvc(s)
      PROVE  UNCHANGED sent
  BY <1>4 DEF Feed, SetHostname, AddRr, StopCall, StopReturn, Ended, vars, RegisterSvc
<1>5. ASSUME Loop \/ Question \/ DropKnown \/ AddRelatedRr \/ Announce \/ AnnounceSd
      PROVE  UNCHANGED sent
  BY <1>5 DEF Loop, Question, DropKnown, AddRelatedRr, Announce, AnnounceSd
<1> QED
  BY <1>1, <1>2, <1>3, <1>4, <1>5 DEF Next, Responder

\* Whoever learns of a service from a packet finds in the same packet all it
\* takes to use it, for any services and packets, however services are registered
\* while add_related_rr walks lists that grow: the records of a service come into
\* the group together, after those of the host, and stay until the thread has ended.
THEOREM ServicesAreUsable == Spec => []UsableAtOnce
<1> DEFINE Inv == /\ FlagPassed /\ Shapes /\ FiledWhole /\ FromGroup /\ SecondIsSrv
                  /\ Followed /\ UsableAtOnce
<1>1. Init => Inv
  <2> SUFFICES ASSUME Init PROVE Inv
    OBVIOUS
  <2>1. Shapes
    BY ShapesInit
  <2>2. \A e : ~InGroup(e)
    BY EmptyGroupSound DEF Init, InGroup
  <2>3. FlagPassed /\ FiledWhole
    BY <2>2 DEF Init, FlagPassed, FiledWhole
  <2>4. pc = "loop" /\ sent = NothingSent
    BY DEF Init
  <2>5. FromGroup /\ SecondIsSrv /\ Followed
    BY <2>4 DEF FromGroup, Replying, SecondIsSrv, Followed
  <2>6. UsableAtOnce
    BY <2>4 DEF NothingSent, UsableAtOnce
  <2> QED
    BY <2>1, <2>3, <2>5, <2>6
<1>2. Inv /\ [Next]_vars => Inv'
  BY FlagPassedStep, ShapesStep, FiledWholeStep, FromGroupStep, SecondIsSrvStep,
     FollowedStep, UsableStep
<1> QED
  BY <1>1, <1>2, PTL DEF Spec

-----------------------------------------------------------------------------
(* What is answered was asked. *)

\* The questions and answers of a packet.
AnswerSet == [name : STRING, type : STRING, target : STRING, ttl : Nat]
QuestionSet == [name : STRING, type : STRING, unicast : BOOLEAN]

\* A packet has lists of them, the empty one included.
LEMMA PacketLists ==
  ASSUME NEW p \in Packets \cup {NoPacket}
  PROVE  p.qn \in Seq(QuestionSet) /\ p.ans \in Seq(AnswerSet)
<1>1. Packets \subseteq [query : BOOLEAN, qn : Seq(QuestionSet), ans : Seq(AnswerSet)]
  BY PacketsAssumption DEF QuestionSet, AnswerSet
<1>2. CASE p \in Packets
  BY <1>1, <1>2
<1>3. CASE p = NoPacket
  BY <1>3 DEF NoPacket
<1> QED
  BY <1>2, <1>3

\* What is not known is lacked: the first answer of the packet that matches is one
\* of those that match, and no ttl here is longer than the usual one.
LEMMA UnknownIsLacked ==
  ASSUME Shapes, NEW e, ~Known(e)
  PROVE  Lacked(e)
<1> DEFINE matching == {k \in DOMAIN pkt.ans : Matches(pkt.ans[k], e)}
           ttl == IF e \in zeroed THEN 0 ELSE DefaultTtl
           first == CHOOSE x \in matching : \A y \in matching : x <= y
<1>1. pkt.ans \in Seq(AnswerSet)
  BY PacketLists DEF Shapes
<1>2. CASE matching = {}
  BY <1>2 DEF Lacked, Members
<1>3. CASE matching # {}
  <2>1. matching \subseteq Nat
    BY <1>1
  <2> HIDE DEF matching
  <2>2. \E x \in matching : \A y \in matching : x <= y
    BY <1>3, <2>1, LeastElement
  <2>3. first \in matching
    BY <2>2
  <2>4. ~(pkt.ans[first].ttl >= ttl \div 2)
    BY <1>3 DEF Known, matching
  <2> HIDE DEF first
  <2>5. first \in DOMAIN pkt.ans /\ Matches(pkt.ans[first], e)
    BY <2>3 DEF matching
  <2>6. pkt.ans[first].ttl \in Nat /\ pkt.ans[first] \in Members(pkt.ans)
    <3>1. pkt.ans[first] \in AnswerSet
      BY <1>1, <2>5
    <3> QED
      BY <2>5, <3>1 DEF AnswerSet, Members
  <2>7. ttl \div 2 <= 60 /\ ttl \div 2 \in Int /\ DefaultTtl \div 2 = 60
    BY DEF DefaultTtl
  <2> HIDE DEF ttl
  <2>8. pkt.ans[first].ttl < DefaultTtl \div 2
    BY <2>4, <2>6, <2>7
  <2> QED
    BY <2>5, <2>6, <2>8 DEF Lacked
<1> QED
  BY <1>2, <1>3

\* Every step keeps answers to what was asked.
LEMMA AnsweredStep == Shapes /\ Answered /\ [Next]_vars => Answered'
<1> SUFFICES ASSUME Shapes, Answered, [Next]_vars PROVE Answered'
  OBVIOUS
<1>1. CASE \/ Feed \/ SetHostname \/ AddRr \/ StopCall \/ StopReturn \/ Ended
           \/ UNCHANGED vars \/ \E s \in Service : RegisterSvc(s)
  <2>1. UNCHANGED <<pc, pkt, i, j, reply>>
    BY <1>1, ElsewhereKept
  <2> QED
    BY <2>1 DEF Answered, Lacked
<1>2. CASE Loop
  <2>1. ~pkt.query /\ NoPacket.query = FALSE
    BY <1>2 DEF Loop, Answered, NoPacket
  <2>2. CASE pc' = "question"
    <3>1. pkt'.query /\ reply' = NoReply
      BY <1>2, <2>2 DEF Loop, GoTo
    <3>2. Members(reply'.ans) = {}
      BY <3>1, EmptySound DEF NoReply
    <3> QED
      BY <2>2, <3>1, <3>2 DEF Answered
  <2>3. CASE pc' # "question"
    <3>1. pc' \in {"loop", "announce", "goodbye"} /\ (pkt' = pkt \/ pkt' = NoPacket)
      BY <1>2, <2>3 DEF Loop, GoTo, loopVars
    <3>2. ~pkt'.query
      BY <2>1, <3>1
    <3> QED
      BY <3>1, <3>2 DEF Answered
  <2> QED
    BY <2>2, <2>3
<1>3. CASE Question
  <2>1. pc' = "question" /\ pc = "question" /\ pkt' = pkt /\ pkt.query
    BY <1>3 DEF Question, Answered
  <2>2. i \in Nat \ {0} /\ i <= Len(pkt.qn)
    BY <1>3 DEF Question, Shapes
  <2>3. pkt.qn[i] \in Members(pkt.qn)
    <3>1. pkt.qn \in Seq(QuestionSet)
      BY PacketLists DEF Shapes
    <3> QED
      BY <2>2, <3>1 DEF Members
  <2>4. ASSUME NEW e \in Members(reply'.ans)
        PROVE  \E q \in Members(pkt.qn) : Asks(q, e)
    <3>1. CASE e \in Members(reply.ans)
      BY <2>1, <3>1 DEF Answered
    <3>2. CASE e \notin Members(reply.ans)
      <4>1. ~pkt.qn[i].unicast /\ Selects(e, pkt.qn[i].name, pkt.qn[i].type)
        BY <1>3, <3>2, QuestionAdds
      <4>2. Asks(pkt.qn[i], e)
        BY <4>1 DEF Asks, Selects
      <4> QED
        BY <2>3, <4>2
    <3> QED
      BY <3>1, <3>2
  <2> QED
    BY <2>1, <2>4 DEF Answered
<1>4. CASE DropKnown
  <2>1. pc' = "related_ans" /\ pc = "question" /\ pkt' = pkt /\ pkt.query
    BY <1>4 DEF DropKnown, GoTo, Answered
  <2>2. Members(reply'.ans) = {e \in Members(reply.ans) : ~Known(e)}
    BY <1>4, DropKnownDrops
  <2>3. \A e \in Members(reply'.ans) : Lacked(e)
    BY <2>2, UnknownIsLacked
  <2>4. \A e \in Members(reply'.ans) : Lacked(e)'
    BY <2>1, <2>3 DEF Lacked
  <2> QED
    BY <2>1, <2>2, <2>4 DEF Answered
<1>5. CASE AddRelatedRr
  <2>1. pkt' = pkt /\ pc \in {"related_ans", "related_add"}
          /\ pc' \in {"related_ans", "related_add", "send"}
    BY <1>5 DEF AddRelatedRr, GoTo, NextPlace
  <2>2. reply'.ans = reply.ans
    BY <1>5, AddRelatedAdds
  <2> QED
    BY <2>1, <2>2 DEF Answered, Lacked
<1>6. CASE Send \/ Announce \/ AnnounceSd \/ Goodbye
  <2>1. /\ pkt' = pkt \/ pkt' = NoPacket
        /\ Send => pkt' = NoPacket
    BY <1>6 DEF Send, Announce, AnnounceSd, Goodbye, responderIdle, loopVars
  <2>2. Send \/ ~pkt.query
    BY <1>6 DEF Announce, AnnounceSd, Goodbye, Answered
  <2>3. ~pkt'.query
    BY <2>1, <2>2 DEF NoPacket
  <2>4. pc' # "question"
    BY <1>6 DEF Send, Announce, AnnounceSd, Goodbye, GoTo
  <2> QED
    BY <2>3, <2>4 DEF Answered
<1> QED
  BY <1>1, <1>2, <1>3, <1>4, <1>5, <1>6 DEF Next, Responder

\* A reply answers what was asked and what its asker does not know, for any
\* services and any packets: the list of answers grows by what a question selects
\* only, the known ones are dropped after all questions, and nothing but the
\* additional section grows after that.
THEOREM RepliesAnswerQuestions == Spec => []AnswersTheQuestion
<1>1. Init => Answered
  BY DEF Init, Answered, NoPacket
<1>2. Answered => AnswersTheQuestion
  BY DEF Answered, AnswersTheQuestion, Asks, Lacked
<1>3. Init => Shapes
  BY ShapesInit
<1> QED
  BY <1>1, <1>2, <1>3, ShapesStep, AnsweredStep, PTL DEF Spec
=============================================================================
