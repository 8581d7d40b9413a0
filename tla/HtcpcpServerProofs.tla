------------------------- MODULE HtcpcpServerProofs -------------------------
(***************************************************************************)
(* Every running thread of the HTCPCP server has a slot and a connection   *)
(* of its own, for any number of slots, pots and connections.              *)
(*                                                                         *)
(* OwnSlot is not inductive: what main is about to do with the slot it     *)
(* found free has to be part of the invariant.  All a thread does between  *)
(* its start and the release of its slot is one kind of step for it.       *)
(***************************************************************************)
EXTENDS HtcpcpServer, TLAPS

SlotTypes ==
  /\ mpc \in MainPcs
  /\ cur \in 0 .. Slots
  /\ sock \in [Slot -> Conn \cup {NoConn}]
  /\ busy \in [0 .. Slots -> BOOLEAN]
  /\ tpc \in [Conn -> LivePcs \cup {"none", "refused", "accepted", "done"}]
  /\ slot \in [Conn -> 0 .. Slots]

\* From the accept to the start of the thread, main has a slot no thread runs
\* in ...
MainHasSlot ==
  mpc \in {"free", "setBusy", "create"} =>
    cur \in Slot /\ \A c \in Conn : Live(c) => slot[c] # cur

\* ... and in it a connection that has no thread yet.
MainHasConn ==
  mpc \in {"setBusy", "create"} =>
    sock[cur] \in Conn /\ tpc[sock[cur]] = "accepted"

MainIsBusy == mpc = "create" => busy[cur]

SlotInv == SlotTypes /\ OwnSlot /\ MainHasSlot /\ MainHasConn /\ MainIsBusy

\* What main and the threads tell the slots apart by.
slotState == <<mpc, cur, sock, busy, tpc, slot>>

\* A running thread goes on running.
RunsOn(c) ==
  /\ Live(c)
  /\ \E pc \in LivePcs : tpc' = [tpc EXCEPT ![c] = pc]
  /\ UNCHANGED <<mpc, cur, sock, busy, slot>>

-----------------------------------------------------------------------------

LEMMA InitSlots == Init => SlotInv
<1>1. Slots \in Nat \ {0}
  BY ServerAssumption
<1>2. QED
  BY <1>1 DEF Init, SlotInv, SlotTypes, OwnSlot, MainHasSlot, MainHasConn,
              MainIsBusy, Live, LivePcs, MainPcs, Slot

LEMMA UnchangedSlots ==
  ASSUME SlotInv, UNCHANGED slotState
  PROVE  SlotInv'
BY DEF SlotInv, SlotTypes, OwnSlot, MainHasSlot, MainHasConn, MainIsBusy, Live,
       slotState

LEMMA RunsOnSlots ==
  ASSUME SlotInv, NEW c \in Conn, RunsOn(c)
  PROVE  SlotInv'
<1>1. PICK pc \in LivePcs : tpc' = [tpc EXCEPT ![c] = pc]
  BY DEF RunsOn
<1>2. \A d \in Conn : Live(d)' <=> Live(d)
  BY <1>1 DEF RunsOn, Live, SlotInv, SlotTypes
<1>3. SlotTypes'
  BY <1>1 DEF RunsOn, SlotInv, SlotTypes
<1>4. OwnSlot' /\ MainHasSlot' /\ MainIsBusy'
  BY <1>2 DEF RunsOn, SlotInv, OwnSlot, MainHasSlot, MainIsBusy
<1>5. MainHasConn'
  <2>1. tpc[c] # "accepted"
    BY DEF RunsOn, Live, LivePcs
  <2>2. QED
    BY <1>1, <2>1 DEF RunsOn, SlotInv, SlotTypes, MainHasConn
<1>6. QED
  BY <1>3, <1>4, <1>5 DEF SlotInv

LEMMA ThreadRunsOn ==
  ASSUME SlotInv, NEW c \in Conn,
         \/ ThreadReads(c) \/ ThreadParses(c) \/ PotOperation(c)
         \/ ThreadWrites(c) \/ ThreadCloses(c)
  PROVE  RunsOn(c)
<1> USE DEF Goto, Live, LivePcs, RunsOn, mainVars, slotVars
<1>1. CASE ThreadReads(c)
  <2>1. tpc' = tpc => tpc' = [tpc EXCEPT ![c] = "read"]
    BY <1>1 DEF ThreadReads, SlotInv, SlotTypes
  <2>2. QED
    BY <1>1, <2>1 DEF ThreadReads, Dies
<1>2. CASE ThreadParses(c)
  <2>1. tpc' = tpc => tpc' = [tpc EXCEPT ![c] = "parse"]
    BY <1>2 DEF ThreadParses, SlotInv, SlotTypes
  <2>2. \E pc \in {"parse", "write", "getTime"} : tpc' = [tpc EXCEPT ![c] = pc]
    BY <1>2, <2>1 DEF ThreadParses, ParserDies, WorksAstray, Dies
  <2>3. QED
    BY <1>2, <2>2 DEF ThreadParses
<1>3. CASE GetTime(c) \/ GetCup(c) \/ GetFin(c) \/ GetPour(c)
  BY <1>3 DEF GetTime, GetCup, GetFin, GetPour, Returns
<1>4. CASE Act(c)
  <2>1. \A a, pc : Answers(c, a, pc) => tpc' = [tpc EXCEPT ![c] = pc]
    BY DEF Answers
  <2>2. NoCoffee(c) => \E pc \in LivePcs : tpc' = [tpc EXCEPT ![c] = pc]
    BY <2>1 DEF NoCoffee
  <2>3. BrewActs(c) => \E pc \in LivePcs : tpc' = [tpc EXCEPT ![c] = pc]
    BY <2>1 DEF BrewActs
  <2>4. PutActs(c) => \E pc \in LivePcs : tpc' = [tpc EXCEPT ![c] = pc]
    BY <2>1, <2>2 DEF PutActs
  <2>5. WhenActs(c) => \E pc \in LivePcs : tpc' = [tpc EXCEPT ![c] = pc]
    BY <2>1, <2>2 DEF WhenActs
  <2>6. GetActs(c) => \E pc \in LivePcs : tpc' = [tpc EXCEPT ![c] = pc]
    BY <2>1, <2>2 DEF GetActs
  <2>7. \E pc \in LivePcs : tpc' = [tpc EXCEPT ![c] = pc]
    <3>1. BrewActs(c) \/ PutActs(c) \/ WhenActs(c) \/ GetActs(c)
      BY <1>4 DEF Act
    <3>2. QED
      BY <3>1, <2>3, <2>4, <2>5, <2>6
  <2>8. QED
    BY <1>4, <2>7 DEF Act
<1>5. CASE Pour(c) \/ StopPouring(c) \/ ResetFin(c) \/ ResetCup(c)
           \/ ResetRest(c)
  BY <1>5 DEF Pour, StopPouring, ResetFin, ResetCup, ResetRest, PotStep
<1>6. CASE BrewFin(c) \/ BrewAdds(c) \/ BrewCup(c)
  BY <1>6 DEF BrewFin, BrewAdds, BrewCup, PotStep
<1>7. CASE ThreadWrites(c) \/ ThreadCloses(c)
  BY <1>7 DEF ThreadWrites, ThreadCloses
<1>8. QED
  BY <1>1, <1>3, <1>4, <1>5, <1>6, <1>7, <1>2 DEF PotOperation

LEMMA FreesSlots ==
  ASSUME SlotInv, NEW c \in Conn, ThreadFrees(c)
  PROVE  SlotInv'
<1> USE DEF ThreadFrees, ThreadEnds, Goto, mainVars
<1>1. Live(c) /\ slot[c] \in Slot /\ sock[slot[c]] = c
  BY DEF SlotInv, OwnSlot, Live, LivePcs
<1>2. \A d \in Conn : Live(d)' <=> Live(d) /\ d # c
  BY DEF Live, LivePcs, SlotInv, SlotTypes
<1>3. \A d \in Conn : Live(d) /\ d # c => slot[d] # slot[c] /\ slot'[d] = slot[d]
  BY <1>1 DEF SlotInv, SlotTypes, OwnSlot
<1>4. SlotTypes'
  BY ServerAssumption DEF SlotInv, SlotTypes, Slot
<1>5. OwnSlot'
  BY <1>2, <1>3 DEF SlotInv, SlotTypes, OwnSlot, Slot
<1>6. MainHasSlot'
  BY <1>2, <1>3 DEF SlotInv, MainHasSlot
<1>7. MainHasConn'
  BY <1>1 DEF SlotInv, SlotTypes, MainHasConn, Live, LivePcs
<1>8. MainIsBusy'
  BY <1>1 DEF SlotInv, SlotTypes, MainIsBusy, MainHasSlot, Slot
<1>9. QED
  BY <1>4, <1>5, <1>6, <1>7, <1>8 DEF SlotInv

LEMMA MainSlots ==
  ASSUME SlotInv, MainStep
  PROVE  SlotInv'
<1> USE ServerAssumption DEF Slot
<1>1. CASE MainScan
  <2>1. UNCHANGED <<sock, busy, tpc, slot>>
    BY <1>1 DEF MainScan, slotVars, threadVars
  <2>2. SlotTypes' /\ OwnSlot' /\ MainHasConn' /\ MainIsBusy'
    BY <1>1, <2>1 DEF MainScan, SlotInv, SlotTypes, OwnSlot, MainHasConn,
                      MainIsBusy, Live, MainPcs
  <2>3. MainHasSlot'
    BY <1>1, <2>1 DEF MainScan, SlotInv, SlotTypes, OwnSlot, MainHasSlot, Live
  <2>4. QED
    BY <2>2, <2>3 DEF SlotInv
<1>2. CASE \E c \in Conn : MainAcceptFull(c)
  <2>1. PICK c \in Conn : MainAcceptFull(c)
    BY <1>2
  <2>2. \A d \in Conn : Live(d)' <=> Live(d)
    BY <2>1 DEF MainAcceptFull, Waits, Live, LivePcs, SlotInv, SlotTypes
  <2>3. QED
    BY <2>1, <2>2 DEF MainAcceptFull, slotVars, SlotInv, SlotTypes, OwnSlot,
                      MainHasSlot, MainHasConn, MainIsBusy, MainPcs
<1>3. CASE MainRefuses
  BY <1>3 DEF MainRefuses, slotVars, threadVars, SlotInv, SlotTypes, OwnSlot,
              MainHasSlot, MainHasConn, MainIsBusy, MainPcs, Live
<1>4. CASE \E c \in Conn : MainAccept(c)
  <2>1. PICK c \in Conn : MainAccept(c)
    BY <1>4
  <2>2. \A d \in Conn : Live(d)' <=> Live(d)
    BY <2>1 DEF MainAccept, Waits, Live, LivePcs, SlotInv, SlotTypes
  <2>3. cur \in Slot /\ \A d \in Conn : Live(d) => slot[d] # cur
    BY <2>1 DEF MainAccept, SlotInv, MainHasSlot
  <2>4. SlotTypes' /\ MainHasSlot' /\ MainHasConn' /\ MainIsBusy'
    BY <2>1, <2>2, <2>3 DEF MainAccept, SlotInv, SlotTypes, MainHasSlot,
                            MainHasConn, MainIsBusy, MainPcs
  <2>5. OwnSlot'
    BY <2>1, <2>2, <2>3 DEF MainAccept, SlotInv, SlotTypes, OwnSlot
  <2>6. QED
    BY <2>4, <2>5 DEF SlotInv
<1>5. CASE MainSetsBusy
  BY <1>5 DEF MainSetsBusy, threadVars, SlotInv, SlotTypes, OwnSlot,
              MainHasSlot, MainHasConn, MainIsBusy, MainPcs, Live
<1>6. CASE MainCreates
  <2> DEFINE c == sock[cur]
  <2>1. c \in Conn /\ tpc[c] = "accepted" /\ cur \in Slot /\ busy[cur]
    BY <1>6 DEF MainCreates, SlotInv, MainHasConn, MainHasSlot, MainIsBusy
  <2>2. \A d \in Conn : Live(d)' <=> Live(d) \/ d = c
    BY <1>6, <2>1 DEF MainCreates, Live, LivePcs, SlotInv, SlotTypes
  <2>3. SlotTypes' /\ MainHasSlot' /\ MainHasConn' /\ MainIsBusy'
    BY <1>6, <2>1 DEF MainCreates, slotVars, SlotInv, SlotTypes, MainHasSlot,
                      MainHasConn, MainIsBusy, MainPcs, LivePcs
  <2>4. OwnSlot'
    BY <1>6, <2>1, <2>2 DEF MainCreates, slotVars, SlotInv, SlotTypes, OwnSlot
  <2>5. QED
    BY <2>3, <2>4 DEF SlotInv
<1>7. QED
  BY <1>1, <1>2, <1>3, <1>4, <1>5, <1>6 DEF MainStep

LEMMA NextSlots ==
  ASSUME SlotInv, [Next]_vars
  PROVE  SlotInv'
<1> USE DEF mainVars, slotVars, threadVars
<1>1. CASE UNCHANGED vars \/ Tick \/ MainFails
           \/ \E c \in Conn : ClientStep(c)
  <2>1. UNCHANGED slotState
    BY <1>1 DEF vars, slotState, Tick, MainFails, ClientStep, Connect, Request,
                ClientSends, ClientLeaves, ClientGivesUp, ClientGoes
  <2>2. QED
    BY <2>1, UnchangedSlots
<1>2. CASE MainStep
  BY <1>2, MainSlots
<1>3. CASE \E c \in Conn : ThreadStep(c)
  BY <1>3, ThreadRunsOn, RunsOnSlots, FreesSlots DEF ThreadStep
<1>4. QED
  BY <1>1, <1>2, <1>3 DEF Next, Idle

\* A running thread has a slot of its own, marked busy, with the connection it
\* was started for in it: main may look for a free slot while threads release
\* theirs (threadVars[i].busy, htcpcp_server.c).
THEOREM ThreadsOwnTheirSlots == Spec => []OwnSlot
<1>1. Init => SlotInv
  BY InitSlots
<1>2. SlotInv /\ [Next]_vars => SlotInv'
  BY NextSlots
<1>3. SlotInv => OwnSlot
  BY DEF SlotInv
<1>4. QED
  BY <1>1, <1>2, <1>3, PTL DEF Spec

-----------------------------------------------------------------------------
(***************************************************************************)
(* The rest of the types.  A thread that works on a pot was asked for one  *)
(* of Pots, with a method that is not a teapot's: the requests for a pot   *)
(* before the first do not get there.                                      *)
(***************************************************************************)
DataTypes ==
  /\ up \in BOOLEAN
  /\ now \in StartTime .. MaxTime
  /\ pots \in [Pots -> Pot]
  /\ client \in [Conn -> {"none", "connected", "sent", "left", "gone"}]
  /\ req \in [Conn -> Requests]
  /\ tmpsock \in Conn \cup {NoConn}
  /\ t \in [Conn -> Nat]
  /\ status \in [Conn -> Garbage]
  /\ answer \in [Conn -> Replies]
  /\ got \in [Conn -> Replies]
  /\ mixed \subseteq Conn
  /\ ended \subseteq Brewer
  /\ closed \subseteq Conn

AtPot == LivePcs \ {"read", "parse", "write", "close", "free"}

PotChosen ==
  \A c \in Conn :
    tpc[c] \in AtPot => req[c].pot \in Pots /\ req[c].method # "other"

TypeInv == SlotInv /\ DataTypes /\ PotChosen

LEMMA OwnSock ==
  ASSUME SlotInv, NEW c \in Conn, Live(c)
  PROVE  Sock(c) = c /\ slot[c] \in Slot
BY DEF SlotInv, OwnSlot, Sock

LEMMA OwnPot ==
  ASSUME TypeInv, NEW c \in Conn, tpc[c] \in AtPot
  PROVE  /\ Sock(c) = c /\ slot[c] \in Slot
         /\ req[c].pot \in Pots /\ req[c].method # "other"
         /\ MyPot(c) = pots[req[c].pot] /\ MyPot(c) \in Pot
<1>1. Live(c)
  BY DEF AtPot, Live
<1>2. Sock(c) = c /\ slot[c] \in Slot
  BY <1>1, OwnSock DEF TypeInv
<1>3. req[c].pot \in Pots /\ req[c].method # "other"
  BY DEF TypeInv, PotChosen
<1>4. QED
  BY <1>2, <1>3 DEF TypeInv, DataTypes, MyPot, Asked

LEMMA CupStates ==
  \A finBrew, startPour, additionsAdded, rate, time :
    CupState(finBrew, startPour, additionsAdded, rate, time) \subseteq Garbage
BY DEF CupState, PouringState, Garbage, States

\* What Act answers is an answer to the request, and goes somewhere.
OwnReply(c) ==
  \E a \in Replies \ {"none"}, pc \in {"write", "reset", "pour", "stop"} :
    /\ Answers(c, a, pc)
    /\ a = "brewed" => Asked(c).method = "BREW"
    /\ a = "coffee" => Asked(c).method = "GET"

LEMMA ActAnswers ==
  ASSUME NEW c \in Conn, Act(c)
  PROVE  OwnReply(c)
<1>1. \A a \in Replies \ {"none", "brewed", "coffee"},
         pc \in {"write", "reset", "pour", "stop"} :
        Answers(c, a, pc) => OwnReply(c)
  BY DEF OwnReply
<1>2. \A pc \in {"write", "reset", "pour", "stop"} :
        /\ Answers(c, "brewed", pc) /\ Asked(c).method = "BREW"
             => OwnReply(c)
        /\ Answers(c, "coffee", pc) /\ Asked(c).method = "GET"
             => OwnReply(c)
  <2>1. "brewed" # "coffee" /\ "brewed" \in Replies \ {"none"}
                           /\ "coffee" \in Replies \ {"none"}
    BY DEF Replies
  <2>2. QED
    BY <2>1 DEF OwnReply
<1>3. NoCoffee(c) => OwnReply(c)
  <2>1. /\ Answers(c, "no cup", "write") => OwnReply(c)
        /\ Answers(c, "still brewing", "write") => OwnReply(c)
        /\ Answers(c, "cold", "reset") => OwnReply(c)
        /\ Answers(c, "overflow", "reset") => OwnReply(c)
        /\ Answers(c, "garbage", "write") => OwnReply(c)
    BY <1>1 DEF Replies
  <2>2. QED
    BY <2>1 DEF NoCoffee
<1>4. BrewActs(c) /\ Asked(c).method = "BREW" => OwnReply(c)
  <2>1. /\ Answers(c, "busy", "write") => OwnReply(c)
        /\ Answers(c, "not acceptable", "write") => OwnReply(c)
    BY <1>1 DEF Replies
  <2>2. QED
    BY <1>2, <2>1 DEF BrewActs
<1>5. PutActs(c) => OwnReply(c)
  <2>1. /\ Answers(c, "already added", "write") => OwnReply(c)
        /\ Answers(c, "pouring", "write") => OwnReply(c)
        /\ Answers(c, "pouring", "pour") => OwnReply(c)
    BY <1>1 DEF Replies
  <2>2. QED
    BY <1>3, <2>1 DEF PutActs
<1>6. WhenActs(c) => OwnReply(c)
  <2>1. /\ Answers(c, "already added", "write") => OwnReply(c)
        /\ Answers(c, "not pouring", "write") => OwnReply(c)
        /\ Answers(c, "ok", "stop") => OwnReply(c)
    BY <1>1 DEF Replies
  <2>2. QED
    BY <1>3, <2>1 DEF WhenActs
<1>7. GetActs(c) /\ Asked(c).method = "GET" => OwnReply(c)
  <2>1. /\ Answers(c, "not pouring", "write") => OwnReply(c)
        /\ Answers(c, "still pouring", "write") => OwnReply(c)
    BY <1>1 DEF Replies
  <2>2. QED
    BY <1>2, <1>3, <2>1 DEF GetActs
<1>8. QED
  BY <1>4, <1>5, <1>6, <1>7 DEF Act

LEMMA AskedIsRequest ==
  ASSUME TypeInv, NEW c \in Conn, Live(c)
  PROVE  Asked(c).method \in Methods /\ Asked(c).pot \in Int
<1>1. Asked(c) \in Requests
  BY OwnSock DEF TypeInv, DataTypes, Asked
<1>2. QED
  BY <1>1, ServerAssumption

\* What a method may answer is an answer, and suits the method.
LEMMA RepliesSuit ==
  ASSUME NEW m \in {"BREW", "PUT", "WHEN", "GET"}, NEW a \in RepliesTo[m]
  PROVE  /\ a \in Replies \ {"none"}
         /\ a = "brewed" => m = "BREW"
         /\ a = "coffee" => m = "GET"
<1>1. CASE m = "BREW"
  <2>1. a \in {"busy", "not acceptable", "brewed"}
    BY <1>1 DEF RepliesTo
  <2>2. QED
    BY <1>1, <2>1 DEF Replies
<1>2. CASE m = "PUT"
  <2>1. a \in SharedReplies \cup {"already added", "pouring"}
    BY <1>2 DEF RepliesTo
  <2>2. QED
    BY <2>1 DEF SharedReplies, Replies
<1>3. CASE m = "WHEN"
  <2>1. a \in SharedReplies \cup {"already added", "not pouring", "ok"}
    BY <1>3 DEF RepliesTo
  <2>2. QED
    BY <2>1 DEF SharedReplies, Replies
<1>4. CASE m = "GET"
  <2>1. a \in SharedReplies \cup {"not pouring", "still pouring", "coffee"}
    BY <1>4 DEF RepliesTo
  <2>2. QED
    BY <1>4, <2>1 DEF SharedReplies, Replies
<1>5. QED
  BY <1>1, <1>2, <1>3, <1>4

\* What a thread answers before it comes to a pot, or instead of one of Pots,
\* is an answer to the request as well.
LEMMA ParsedReply ==
  ASSUME TypeInv, NEW c \in Conn, ThreadParses(c)
  PROVE  \/ answer' = answer
         \/ \E a \in Replies \ {"none"} :
              /\ answer' = [answer EXCEPT ![c] = a]
              /\ a = "brewed" => Asked(c).method = "BREW"
              /\ a = "coffee" => Asked(c).method = "GET"
<1>1. CASE WorksAstray(c) /\ ~Dies
  <2>1. Asked(c).method \in Methods
    BY AskedIsRequest DEF ThreadParses, Live, LivePcs
  <2>2. PICK a \in RepliesTo[Asked(c).method] : answer' = [answer EXCEPT ![c] = a]
    BY <1>1 DEF WorksAstray
  <2>3. Asked(c).method \in {"BREW", "PUT", "WHEN", "GET"}
    BY <1>1, <2>1 DEF WorksAstray, IsTeapot, Methods
  <2>4. QED
    BY <2>2, <2>3, RepliesSuit
<1>2. CASE ParserDies(c) \/ Dies
  BY <1>2 DEF ParserDies, Dies
<1>3. CASE answer' = [answer EXCEPT ![c] = "teapot"]
  <2>1. "teapot" \in Replies \ {"none", "brewed", "coffee"}
    BY DEF Replies
  <2>2. QED
    BY <1>3, <2>1
<1>4. QED
  BY <1>1, <1>2, <1>3 DEF ThreadParses

\* A pot stays a pot.
LEMMA PotStepTypes ==
  ASSUME TypeInv, NEW c \in Conn,
         \/ Pour(c) \/ StopPouring(c) \/ ResetFin(c) \/ ResetCup(c)
         \/ ResetRest(c) \/ BrewFin(c) \/ BrewAdds(c) \/ BrewCup(c)
  PROVE  DataTypes'
<1>0. tpc[c] \in AtPot /\ now \in Nat /\ now + BrewSecs \in Nat
  BY ServerAssumption, PotAssumption
     DEF Pour, StopPouring, ResetFin, ResetCup, ResetRest, BrewFin, BrewAdds,
         BrewCup, Goto, AtPot, LivePcs, TypeInv, DataTypes
<1>1. /\ Sock(c) = c /\ MyPot(c) \in Pot /\ req[c].pot \in Pots
  BY <1>0, OwnPot
<1>2. \E p \in Pot : SetPot(c, p)
  <2>1. CASE Pour(c)
    BY <1>0, <1>1, <2>1 DEF Pour, Pot
  <2>2. CASE StopPouring(c)
    BY <1>1, <2>2 DEF StopPouring, Pot
  <2>3. CASE ResetFin(c) \/ ResetCup(c)
    BY <1>1, <2>3 DEF ResetFin, ResetCup, Pot
  <2>4. CASE ResetRest(c)
    BY <1>1, <2>4 DEF ResetRest, Pot, Brewer
  <2>5. CASE BrewFin(c)
    BY <1>0, <1>1, <2>5 DEF BrewFin, Pot
  <2>6. CASE BrewAdds(c)
    BY <1>1, <2>6 DEF BrewAdds, Pot, Brewer, calcAddPerSec
  <2>7. CASE BrewCup(c)
    BY <1>1, <2>7 DEF BrewCup, Pot
  <2>8. QED
    BY <2>1, <2>2, <2>3, <2>4, <2>5, <2>6, <2>7
<1>3. pots' \in [Pots -> Pot]
  BY <1>2 DEF SetPot, TypeInv, DataTypes
<1>4. ended' \subseteq Brewer
  <2>1. MyPot(c).waitingAdditions \in Brewer
    BY <1>1 DEF Pot
  <2>2. ended' \subseteq ended \cup {MyPot(c).waitingAdditions}
    BY DEF Pour, StopPouring, ResetFin, ResetCup, ResetRest, BrewFin, BrewAdds,
           BrewCup
  <2>3. QED
    BY <2>1, <2>2 DEF TypeInv, DataTypes
<1>5. PotStep(c)
  BY DEF Pour, StopPouring, ResetFin, ResetCup, ResetRest, BrewFin, BrewAdds,
         BrewCup
<1>6. QED
  BY <1>3, <1>4, <1>5 DEF PotStep, TypeInv, DataTypes, mainVars

LEMMA ThreadTypes ==
  ASSUME TypeInv, NEW c \in Conn, ThreadStep(c)
  PROVE  DataTypes'
<1> USE DEF mainVars, threadVars, ghosts, Goto
<1>1. CASE ThreadReads(c)
  <2>1. /\ up' \in BOOLEAN /\ answer' \in [Conn -> Replies]
        /\ UNCHANGED <<now, pots, client, req, tmpsock, t, status, ghosts, closed>>
    BY <1>1 DEF ThreadReads, Dies, TypeInv, DataTypes
  <2>2. mixed' \subseteq Conn
    BY <1>1 DEF ThreadReads, OthersParsing, TypeInv, DataTypes
  <2>3. QED
    BY <2>1, <2>2 DEF TypeInv, DataTypes
<1>2. CASE ThreadParses(c)
  <2>1. /\ up' \in BOOLEAN /\ mixed' \subseteq Conn
        /\ UNCHANGED <<now, pots, client, req, tmpsock, t, status, ghosts, closed>>
    BY <1>2 DEF ThreadParses, ParserDies, WorksAstray, Dies, TypeInv, DataTypes
  <2>2. answer' = answer \/ \E a \in Replies : answer' = [answer EXCEPT ![c] = a]
    BY <1>2, ParsedReply
  <2>3. answer' \in [Conn -> Replies]
    BY <2>2 DEF TypeInv, DataTypes
  <2>4. QED
    BY <2>1, <2>3 DEF TypeInv, DataTypes
<1>3. CASE GetTime(c)
  <2>1. now \in Nat
    BY ServerAssumption DEF TypeInv, DataTypes
  <2>2. QED
    BY <1>3, <2>1 DEF GetTime, TypeInv, DataTypes
<1>4. CASE GetCup(c) \/ GetFin(c) \/ GetPour(c)
  <2>1. \/ status' = status
        \/ \E s \in Garbage : status' = [status EXCEPT ![c] = s]
    BY <1>4, CupStates DEF GetCup, GetFin, GetPour, Returns, Garbage, States
  <2>2. status' \in [Conn -> Garbage]
    BY <2>1 DEF TypeInv, DataTypes
  <2>3. QED
    BY <1>4, <2>2 DEF GetCup, GetFin, GetPour, TypeInv, DataTypes
<1>5. CASE Act(c)
  <2>1. answer' \in [Conn -> Replies]
    <3>1. PICK a \in Replies : answer' = [answer EXCEPT ![c] = a]
      BY <1>5, ActAnswers DEF OwnReply, Answers
    <3>2. QED
      BY <3>1 DEF TypeInv, DataTypes
  <2>2. mixed' \subseteq Conn
    BY <1>5 DEF Act, OthersParsing, TypeInv, DataTypes
  <2>3. t' \in [Conn -> Nat]
    BY <1>5 DEF Act, TypeInv, DataTypes
  <2>4. QED
    BY <1>5, <2>1, <2>2, <2>3 DEF Act, TypeInv, DataTypes
<1>6. CASE \/ Pour(c) \/ StopPouring(c) \/ ResetFin(c) \/ ResetCup(c)
           \/ ResetRest(c) \/ BrewFin(c) \/ BrewAdds(c) \/ BrewCup(c)
  BY <1>6, PotStepTypes
<1>7. CASE ThreadWrites(c)
  BY <1>7 DEF ThreadWrites, TypeInv, DataTypes
<1>8. CASE ThreadCloses(c)
  <2>1. Sock(c) = c
    BY <1>8, OwnSock DEF ThreadCloses, Live, LivePcs, TypeInv
  <2>2. QED
    BY <1>8, <2>1 DEF ThreadCloses, TypeInv, DataTypes
<1>9. CASE ThreadFrees(c)
  BY <1>9 DEF ThreadFrees, ThreadEnds, TypeInv, DataTypes, Replies, Garbage
<1>10. QED
  BY <1>1, <1>3, <1>4, <1>5, <1>6, <1>7, <1>8, <1>9, <1>2
     DEF ThreadStep, PotOperation

LEMMA NextDataTypes ==
  ASSUME TypeInv, [Next]_vars
  PROVE  DataTypes'
<1> USE DEF mainVars, threadVars, ghosts, TypeInv, DataTypes
<1>1. CASE UNCHANGED vars
  BY <1>1 DEF vars
<1>2. CASE Tick
  BY <1>2, ServerAssumption DEF Tick
<1>3. CASE MainScan \/ MainSetsBusy \/ MainCreates \/ MainFails
  BY <1>3 DEF MainScan, MainSetsBusy, MainCreates, MainFails
<1>4. CASE MainRefuses
  BY <1>4 DEF MainRefuses, Replies
<1>5. ASSUME NEW c \in Conn, MainAcceptFull(c) \/ MainAccept(c)
      PROVE  DataTypes'
  BY <1>5 DEF MainAcceptFull, MainAccept
<1>6. ASSUME NEW c \in Conn, ClientStep(c)
      PROVE  DataTypes'
  BY <1>6 DEF ClientStep, Connect, Request, ClientSends, ClientLeaves,
              ClientGivesUp, ClientGoes
<1>7. ASSUME NEW c \in Conn, ThreadStep(c)
      PROVE  DataTypes'
  BY <1>7, ThreadTypes
<1>8. QED
  BY <1>1, <1>2, <1>3, <1>4, <1>5, <1>6, <1>7 DEF Next, MainStep, Idle

\* A thread works on a pot only if it was asked for one there is.
LEMMA NextPotChosen ==
  ASSUME TypeInv, [Next]_vars
  PROVE  PotChosen'
<1> USE DEF mainVars, threadVars
<1>1. ASSUME UNCHANGED req,
             \A d \in Conn : tpc'[d] \in AtPot => tpc[d] \in AtPot
      PROVE  PotChosen'
  BY <1>1 DEF TypeInv, PotChosen
<1>2. CASE UNCHANGED vars
  BY <1>1, <1>2 DEF vars
<1>3. CASE \/ Tick \/ MainScan \/ MainRefuses \/ MainSetsBusy \/ MainFails
           \/ \E c \in Conn : ClientStep(c)
  <2>1. UNCHANGED <<req, tpc>>
    BY <1>3 DEF Tick, MainScan, MainRefuses, MainSetsBusy, MainFails,
                ClientStep, Connect, Request, ClientSends, ClientLeaves,
                ClientGivesUp, ClientGoes
  <2>2. QED
    BY <1>1, <2>1
<1>4. ASSUME NEW c \in Conn, NEW pc, pc \notin AtPot,
             tpc' = [tpc EXCEPT ![c] = pc], UNCHANGED req
      PROVE  PotChosen'
  <2>1. \A d \in Conn : tpc'[d] \in AtPot => tpc[d] \in AtPot
    BY <1>4 DEF TypeInv, SlotInv, SlotTypes
  <2>2. QED
    BY <1>1, <1>4, <2>1
<1>5. CASE MainCreates
  <2>1. sock[cur] \in Conn
    BY <1>5 DEF MainCreates, TypeInv, SlotInv, MainHasConn
  <2>2. QED
    BY <1>4, <1>5, <2>1 DEF MainCreates, AtPot
<1>6. ASSUME NEW c \in Conn, MainAcceptFull(c) \/ MainAccept(c)
      PROVE  PotChosen'
  BY <1>4, <1>6 DEF MainAcceptFull, MainAccept, AtPot, LivePcs
<1>7. ASSUME NEW c \in Conn, ThreadStep(c)
      PROVE  PotChosen'
  <2>1. CASE ThreadReads(c)
    <3>1. tpc' = tpc \/ tpc' = [tpc EXCEPT ![c] = "parse"]
      BY <2>1 DEF ThreadReads, Dies, Goto
    <3>2. UNCHANGED req
      BY <2>1 DEF ThreadReads
    <3>3. QED
      BY <1>1, <1>4, <3>1, <3>2 DEF AtPot
  <2>2. CASE ThreadParses(c)
    <3>1. Sock(c) = c
      BY <2>2, OwnSock DEF ThreadParses, Live, LivePcs, TypeInv
    <3>2. UNCHANGED req
      BY <2>2 DEF ThreadParses
    <3>3. CASE tpc' = tpc \/ tpc' = [tpc EXCEPT ![c] = "write"]
      BY <1>1, <1>4, <3>2, <3>3 DEF AtPot
    <3>4. CASE /\ tpc' = [tpc EXCEPT ![c] = "getTime"]
               /\ Asked(c).pot \in Pots /\ Asked(c).method # "other"
      <4>1. \A d \in Conn : d # c => tpc'[d] = tpc[d]
        BY <3>4 DEF TypeInv, SlotInv, SlotTypes
      <4>2. req[c].pot \in Pots /\ req[c].method # "other"
        BY <3>1, <3>4 DEF Asked
      <4>3. QED
        BY <3>2, <4>1, <4>2 DEF TypeInv, PotChosen
    <3>5. QED
      BY <2>2, <3>3, <3>4 DEF ThreadParses, ParserDies, WorksAstray, Dies, Goto
  <2>3. CASE PotOperation(c)
    <3>1. tpc[c] \in AtPot
      BY <2>3 DEF PotOperation, GetTime, GetCup, GetFin, GetPour, Act, Pour,
                  StopPouring, ResetFin, ResetCup, ResetRest, BrewFin,
                  BrewAdds, BrewCup, Goto, AtPot, LivePcs
    <3>2. RunsOn(c)
      BY <2>3, ThreadRunsOn DEF TypeInv
    <3>3. UNCHANGED req
      BY <2>3 DEF PotOperation, GetTime, GetCup, GetFin, GetPour, Act, Pour,
                  StopPouring, ResetFin, ResetCup, ResetRest, BrewFin,
                  BrewAdds, BrewCup, PotStep
    <3>4. \A d \in Conn : d # c => tpc'[d] = tpc[d]
      BY <3>2 DEF RunsOn, TypeInv, SlotInv, SlotTypes
    <3>5. QED
      BY <1>1, <3>1, <3>3, <3>4
  <2>4. CASE ThreadWrites(c) \/ ThreadCloses(c) \/ ThreadFrees(c)
    BY <1>4, <2>4 DEF ThreadWrites, ThreadCloses, ThreadFrees, Goto, AtPot,
                      LivePcs
  <2>5. QED
    BY <1>7, <2>1, <2>3, <2>4, <2>2 DEF ThreadStep
<1>8. QED
  BY <1>2, <1>3, <1>5, <1>6, <1>7 DEF Next, MainStep, Idle

LEMMA InitTypes == Init => TypeInv
<1> SUFFICES ASSUME Init
             PROVE  TypeInv
  OBVIOUS
<1>1. SlotInv
  BY InitSlots
<1>2. DataTypes
  BY ServerAssumption
     DEF Init, DataTypes, Replies, Garbage, Brewer, Methods
<1>3. PotChosen
  BY DEF Init, PotChosen, AtPot, LivePcs
<1>4. QED
  BY <1>1, <1>2, <1>3 DEF TypeInv

LEMMA NextTypes ==
  ASSUME TypeInv, [Next]_vars
  PROVE  TypeInv'
<1>1. SlotInv'
  BY NextSlots DEF TypeInv
<1>2. QED
  BY <1>1, NextDataTypes, NextPotChosen DEF TypeInv

\* Every variable has its type: no thread looks at a slot, a pot or a clock
\* outside the arrays of the code, whoever comes and goes in between.
THEOREM ServerTypes == Spec => []TypeOK
<1>1. TypeInv => TypeOK
  BY DEF TypeInv, SlotInv, SlotTypes, DataTypes, TypeOK
<1>2. QED
  BY <1>1, InitTypes, NextTypes, PTL DEF Spec

-----------------------------------------------------------------------------
(***************************************************************************)
(* OwnAnswer speaks of closed connections only.  The answer is made long   *)
(* before, and between the two it stays in the thread: what is invariant   *)
(* is that an answer suits the request from the moment it is made, and     *)
(* that a thread that has one to write, or has written it, still has it.   *)
(***************************************************************************)
Suits(c, a) ==
  /\ a = "brewed" => req[c].method = "BREW"
  /\ a = "coffee" => req[c].method = "GET"

\* Where a thread is between the making of its answer and its end.
Answering == {"pour", "stop", "reset", "resetCup", "resetRest", "brewFin",
              "brewAdds", "brewCup", "write", "close", "free"}

AnswerOf(c) ==
  /\ Suits(c, answer[c]) /\ Suits(c, got[c])
  /\ tpc[c] \in Answering => answer[c] # "none"
  /\ up /\ tpc[c] \in {"close", "free"} => got[c] # "none"
  /\ c \in closed => got[c] # "none"

AnswerInv == \A c \in Conn : AnswerOf(c)

\* What AnswerOf(c) speaks of.
answerState(c) == <<answer[c], got[c], tpc[c], c \in closed, req[c]>>

LEMMA SameAnswer ==
  ASSUME NEW c \in Conn, AnswerOf(c), UNCHANGED answerState(c), up
  PROVE  AnswerOf(c)'
BY DEF AnswerOf, Suits, answerState

\* Where a thread goes from its parsing, and with what.
LEMMA ThreadRunsTo ==
  ASSUME TypeInv, NEW c \in Conn, ThreadParses(c)
  PROVE  \E pc \in {"parse", "write", "getTime"} : tpc' = [tpc EXCEPT ![c] = pc]
<1>1. tpc' = tpc => tpc' = [tpc EXCEPT ![c] = "parse"]
  BY DEF ThreadParses, TypeInv, SlotInv, SlotTypes
<1>2. QED
  BY <1>1 DEF ThreadParses, ParserDies, WorksAstray, Dies, Goto

LEMMA ParsedAnswer ==
  ASSUME TypeInv, NEW c \in Conn, ThreadParses(c)
  PROVE  \/ tpc'[c] \in {"parse", "getTime"}
         \/ tpc'[c] = "write" /\ answer'[c] # "none"
<1>1. CASE tpc' = tpc
  BY <1>1 DEF ThreadParses
<1>2. CASE tpc' = [tpc EXCEPT ![c] = "getTime"]
  BY <1>2 DEF TypeInv, SlotInv, SlotTypes
<1>3. CASE /\ tpc' = [tpc EXCEPT ![c] = "write"]
           /\ answer' = [answer EXCEPT ![c] = "teapot"]
  BY <1>3 DEF TypeInv, SlotInv, SlotTypes, DataTypes
<1>4. CASE WorksAstray(c) /\ ~Dies
  <2>1. Asked(c).method \in Methods
    BY AskedIsRequest DEF ThreadParses, Live, LivePcs
  <2>2. tpc' = [tpc EXCEPT ![c] = "write"] /\ ~IsTeapot(Asked(c))
    BY <1>4 DEF WorksAstray, Goto
  <2>3. PICK a \in RepliesTo[Asked(c).method] : answer' = [answer EXCEPT ![c] = a]
    BY <1>4 DEF WorksAstray
  <2>4. a # "none"
    BY <2>1, <2>2, <2>3, RepliesSuit DEF IsTeapot, Methods
  <2>5. QED
    BY <2>2, <2>3, <2>4 DEF TypeInv, SlotInv, SlotTypes, DataTypes
<1>5. QED
  BY <1>1, <1>2, <1>3, <1>4 DEF ThreadParses, ParserDies, WorksAstray, Dies, Goto

LEMMA MainAnswers ==
  ASSUME TypeInv, AnswerInv, MainStep
  PROVE  AnswerInv'
<1> USE DEF AnswerInv, AnswerOf, Suits
<1>1. CASE MainScan \/ MainSetsBusy
  BY <1>1 DEF MainScan, MainSetsBusy, threadVars, ghosts
<1>2. CASE MainRefuses
  <2>1. \A c \in Conn : got'[c] = got[c] \/ got'[c] = "teapot"
    BY <1>2 DEF MainRefuses, TypeInv, DataTypes
  <2>2. UNCHANGED <<req, tpc, answer, closed>> /\ (up' => up)
    BY <1>2 DEF MainRefuses, threadVars, TypeInv, DataTypes
  <2>3. QED
    BY <2>1, <2>2
<1>3. ASSUME NEW c \in Conn, NEW pc \in {"refused", "accepted", "read"},
             tpc' = [tpc EXCEPT ![c] = pc],
             UNCHANGED <<up, req, answer, got, closed>>
      PROVE  AnswerInv'
  <2>1. \A d \in Conn : tpc'[d] \in Answering => tpc[d] = tpc'[d]
    BY <1>3 DEF Answering, TypeInv, SlotInv, SlotTypes
  <2>2. QED
    BY <1>3, <2>1 DEF Answering
<1>4. CASE MainCreates
  <2>1. sock[cur] \in Conn
    BY <1>4 DEF MainCreates, TypeInv, SlotInv, MainHasConn
  <2>2. QED
    BY <1>3, <1>4, <2>1 DEF MainCreates, ghosts
<1>5. CASE \E c \in Conn : MainAcceptFull(c) \/ MainAccept(c)
  BY <1>3, <1>5 DEF MainAcceptFull, MainAccept, ghosts
<1>6. QED
  BY <1>1, <1>2, <1>4, <1>5 DEF MainStep

LEMMA ThreadAnswers ==
  ASSUME TypeInv, AnswerInv, up, NEW c \in Conn, ThreadStep(c)
  PROVE  AnswerInv'
<1>1. Sock(c) = c /\ slot[c] \in Slot
  <2>1. Live(c)
    BY DEF ThreadStep, ThreadReads, ThreadParses, ThreadWrites, ThreadCloses,
           ThreadFrees, PotOperation, GetTime, GetCup, GetFin, GetPour, Act, Pour,
           StopPouring, ResetFin, ResetCup, ResetRest, BrewFin, BrewAdds,
           BrewCup, Goto, Live, LivePcs
  <2>2. QED
    BY <2>1, OwnSock DEF TypeInv
<1>2. AnswerOf(c)
  BY DEF AnswerInv
<1>3. \A d \in Conn \ {c} : UNCHANGED answerState(d)
  <2> USE DEF answerState, TypeInv, SlotInv, SlotTypes, DataTypes, Goto
  <2>1. CASE ThreadReads(c)
    BY <2>1 DEF ThreadReads, Dies, ghosts
  <2>2. CASE ThreadParses(c)
    <3>1. UNCHANGED <<req, got, closed>>
      BY <2>2 DEF ThreadParses, ghosts
    <3>2. \E pc \in {"parse", "write", "getTime"} : tpc' = [tpc EXCEPT ![c] = pc]
      BY <2>2, ThreadRunsTo
    <3>3. answer' = answer \/ \E a \in Replies : answer' = [answer EXCEPT ![c] = a]
      BY <2>2, ParsedReply
    <3>4. QED
      BY <3>1, <3>2, <3>3
  <2>3. CASE GetTime(c) \/ GetCup(c) \/ GetFin(c) \/ GetPour(c)
    BY <2>3 DEF GetTime, GetCup, GetFin, GetPour, Returns, ghosts
  <2>4. CASE Act(c)
    BY <2>4, ActAnswers DEF Act, OwnReply, Answers
  <2>5. CASE \/ Pour(c) \/ StopPouring(c) \/ ResetFin(c) \/ ResetCup(c)
             \/ ResetRest(c) \/ BrewFin(c) \/ BrewAdds(c) \/ BrewCup(c)
    BY <2>5 DEF Pour, StopPouring, ResetFin, ResetCup, ResetRest, BrewFin,
                BrewAdds, BrewCup, PotStep
  <2>6. CASE ThreadWrites(c)
    BY <1>1, <2>6 DEF ThreadWrites
  <2>7. CASE ThreadCloses(c)
    BY <1>1, <2>7 DEF ThreadCloses, ghosts
  <2>8. CASE ThreadFrees(c)
    BY <2>8 DEF ThreadFrees, ThreadEnds, ghosts
  <2>9. QED
    BY <2>1, <2>3, <2>4, <2>5, <2>6, <2>7, <2>8, <2>2
       DEF ThreadStep, PotOperation
<1>4. ThreadParses(c) =>
        \/ tpc'[c] \in {"parse", "getTime"}
        \/ tpc'[c] = "write" /\ answer'[c] # "none"
  BY ParsedAnswer
<1>5. AnswerOf(c)'
  <2> USE <1>2 DEF AnswerOf, TypeInv, SlotInv, SlotTypes, DataTypes, Goto,
                   Answering
  <2>1. CASE ThreadReads(c)
    BY <2>1 DEF ThreadReads, Dies, Suits, ghosts
  <2>2. CASE ThreadParses(c)
    <3>1. UNCHANGED <<req, got, closed>> /\ Asked(c) = req[c]
      BY <1>1, <2>2 DEF ThreadParses, ghosts, Asked
    <3>2. Suits(c, answer'[c])
      BY <2>2, <3>1, ParsedReply DEF Suits
    <3>3. \/ tpc'[c] \in {"parse", "getTime"}
          \/ tpc'[c] = "write" /\ answer'[c] # "none"
      BY <2>2, <1>4
    <3>4. QED
      BY <3>1, <3>2, <3>3 DEF Suits
  <2>3. CASE GetTime(c) \/ GetCup(c) \/ GetFin(c) \/ GetPour(c)
    BY <2>3 DEF GetTime, GetCup, GetFin, GetPour, Returns, Suits, ghosts
  <2>4. CASE Act(c)
    <3>1. PICK a \in Replies \ {"none"}, pc \in {"write", "reset", "pour", "stop"} :
            /\ Answers(c, a, pc)
            /\ a = "brewed" => Asked(c).method = "BREW"
            /\ a = "coffee" => Asked(c).method = "GET"
      BY <2>4, ActAnswers DEF OwnReply
    <3>2. Suits(c, a)
      BY <1>1, <3>1 DEF Suits, Asked
    <3>3. UNCHANGED <<req, got, up, closed>>
      BY <2>4 DEF Act
    <3>4. answer'[c] = a /\ tpc'[c] = pc
      BY <3>1 DEF Answers
    <3>5. QED
      BY <3>2, <3>3, <3>4 DEF Suits
  <2>5. CASE \/ Pour(c) \/ StopPouring(c) \/ ResetFin(c) \/ ResetCup(c)
             \/ ResetRest(c) \/ BrewFin(c) \/ BrewAdds(c) \/ BrewCup(c)
    BY <2>5 DEF Pour, StopPouring, ResetFin, ResetCup, ResetRest, BrewFin,
                BrewAdds, BrewCup, PotStep, Suits
  <2>6. CASE ThreadWrites(c)
    BY <1>1, <2>6 DEF ThreadWrites, Suits
  <2>7. CASE ThreadCloses(c)
    BY <1>1, <2>7 DEF ThreadCloses, Suits, ghosts
  <2>8. CASE ThreadFrees(c)
    BY <2>8 DEF ThreadFrees, ThreadEnds, Suits, ghosts
  <2>9. QED
    BY <2>1, <2>3, <2>4, <2>5, <2>6, <2>7, <2>8, <2>2
       DEF ThreadStep, PotOperation
<1>6. \A d \in Conn \ {c} : AnswerOf(d)'
  BY <1>3, SameAnswer DEF AnswerInv
<1>7. QED
  BY <1>5, <1>6 DEF AnswerInv

LEMMA NextAnswers ==
  ASSUME TypeInv, AnswerInv, [Next]_vars
  PROVE  AnswerInv'
<1>1. CASE \/ UNCHANGED vars \/ Tick \/ MainFails
           \/ \E c \in Conn : ClientStep(c)
  <2>1. UNCHANGED <<req, tpc, answer, got, closed>> /\ (up' => up)
    BY <1>1 DEF vars, threadVars, ghosts, Tick, MainFails, ClientStep, Connect,
                Request, ClientSends, ClientLeaves, ClientGivesUp, ClientGoes
  <2>2. QED
    BY <2>1 DEF AnswerInv, AnswerOf, Suits
<1>2. CASE MainStep
  BY <1>2, MainAnswers
<1>3. CASE up /\ \E c \in Conn : ThreadStep(c)
  BY <1>3, ThreadAnswers
<1>4. QED
  BY <1>1, <1>2, <1>3 DEF Next, Idle

LEMMA InitAnswers == Init => AnswerInv
BY DEF Init, AnswerInv, AnswerOf, Suits, Answering

\* A connection is closed only after an answer was written to it, and the
\* answer is to its own request: threads start, answer and end in any order,
\* the clients leave or not (thread and the method it calls,
\* htcpcp_server.c).
THEOREM AnswersAreOwn == Spec => []OwnAnswer
<1>1. TypeInv /\ AnswerInv => OwnAnswer
  BY DEF TypeInv, DataTypes, AnswerInv, AnswerOf, Suits, OwnAnswer
<1>2. QED
  BY <1>1, InitTypes, InitAnswers, NextTypes, NextAnswers, PTL DEF Spec

=============================================================================
