---------------------------- MODULE HtcpcpServer ----------------------------
(***************************************************************************)
(* The HTCPCP server (htcpcp_server/htcpcp_server.c): an accept loop that  *)
(* hands each connection to a thread in a free slot, and the threads that  *)
(* work on pots shared without any lock.  A thread runs getState field by  *)
(* field, so that another thread or the clock may move in between, then    *)
(* writes the fields of the pot one group after the other.                 *)
(*                                                                         *)
(* A request is its method, its pot, the units of its additions and its    *)
(* form; of the parsing there is what it comes to.  strtok keeps its       *)
(* position in one variable for all threads: one that is parsing while     *)
(* another one uses strtok may go on in the other's text, or in what is    *)
(* left of it, and end the process there.  Its first line is its own, so   *)
(* method and pot are.  Whether validateAdds likes the additions is left   *)
(* open: they may be another thread's, and the rest of Adds is whatever    *)
(* was on the stack.                                                       *)
(***************************************************************************)
EXTENDS CoffeePot, FiniteSets

CONSTANTS Conn,      \* connections clients may open
          NoConn,    \* no connection
          Before,    \* an earlier connection, one that brewed what a pot holds
          Slots,     \* POTCNT as the number of slots
          PotCount,  \* POTCNT as the number of pots
          Requests,  \* what clients may ask for
          InitPots,  \* what earlier connections may have left in a pot
          StartTime, \* the time the clock shows first, far from 0
          MaxTime,   \* bound: the time the clock stops at
          MayFail    \* may clients leave early and calls of main fail?

Pots == 0 .. PotCount - 1

Methods == {"BREW", "PUT", "WHEN", "GET", "other"}

\* A bare request has no Accept-Additions: the array they would be copied to is
\* read all the same, with whatever was on the stack in it.  A broken one has a
\* line or an addition without the separators the parser looks for.
Forms == {"full", "bare", "broken"}

\* Whose coffee it is.
Brewer == Conn \cup {Before, NoConn}

Pot == [finBrew : Nat, cupWaiting : BOOLEAN, additionsAdded : BOOLEAN,
        addUnitsPerSec : Nat, startPour : Nat, waitingAdditions : Brewer]

ASSUME ServerAssumption ==
  /\ NoConn \notin Conn /\ Before \notin Conn \cup {NoConn}
  /\ Slots \in Nat \ {0} /\ PotCount \in Nat
  /\ Requests \subseteq
       [method : Methods, pot : Int, units : Nat, form : Forms]
  /\ InitPots \subseteq Pot
  /\ \A p \in InitPots :
       p.startPour <= StartTime /\ p.waitingAdditions \in {Before, NoConn}
  /\ MayFail \in BOOLEAN
  /\ StartTime \in Nat /\ MaxTime \in Nat /\ StartTime <= MaxTime

VARIABLES
  up,       \* is the process running?
  now,      \* time(NULL)
  pots,     \* Pots
  client,   \* what the client of each connection does
  req,      \* the request it sends
  mpc,      \* what the accept loop is doing
  cur,      \* curThread
  tmpsock,  \* tmpsock
  sock,     \* threadVars[i].sock
  busy,     \* threadVars[i].busy
  tpc,      \* what the thread started for each connection is doing
  mixed,    \* connections whose parsing ran into another use of strtok
  slot,     \* the slot it was given
  t,        \* curTime in its getState
  status,   \* potStatus
  answer,   \* the answer in its lineBuf
  got,      \* the answer written to each connection
  ended,    \* brews whose cup was served or thrown away
  closed    \* connections the server closed

mainVars == <<mpc, cur, tmpsock>>
slotVars == <<sock, busy>>
threadVars == <<tpc, mixed, slot, t, status, answer>>
ghosts == <<got, ended>>
vars == <<up, now, pots, client, req, mainVars, slotVars, threadVars, ghosts,
          closed>>

Slot == 0 .. Slots - 1

Init ==
  /\ up = TRUE
  /\ now = StartTime
  /\ pots \in [Pots -> InitPots]
  /\ client = [c \in Conn |-> "none"]
  /\ req \in [Conn -> Requests]
  /\ mpc = "scan"
  /\ cur = 0
  /\ tmpsock = NoConn
  /\ sock = [i \in Slot |-> NoConn]
  /\ busy = [i \in 0 .. Slots |-> FALSE]
  /\ tpc = [c \in Conn |-> "none"]
  /\ mixed = {}
  /\ slot = [c \in Conn |-> Slots]
  /\ t = [c \in Conn |-> 0]
  /\ status = [c \in Conn |-> "ERROR"]
  /\ answer = [c \in Conn |-> "none"]
  /\ got = [c \in Conn |-> "none"]
  /\ ended = {}
  /\ closed = {}

-----------------------------------------------------------------------------
(* The clock and the clients. *)

Tick ==
  /\ now < MaxTime
  /\ now' = now + 1
  /\ UNCHANGED <<up, pots, client, req, mainVars, slotVars, threadVars,
                 ghosts, closed>>

ClientGoes(c, from_, to) ==
  /\ client[c] = from_
  /\ client' = [client EXCEPT ![c] = to]
  /\ UNCHANGED <<up, now, pots, req, mainVars, slotVars, threadVars, ghosts,
                 closed>>

Connect(c) == ClientGoes(c, "none", "connected")
ClientSends(c) == ClientGoes(c, "connected", "sent")
ClientLeaves(c) == MayFail /\ ClientGoes(c, "connected", "left")
ClientGivesUp(c) ==
  MayFail /\ c \notin closed /\ ClientGoes(c, "sent", "gone")

\* A write to a client that is gone fails or not, and garbage may be empty; to
\* write nothing ends the process.
WriteFails(c, text) == client[c] \in {"left", "gone"} \/ text = "garbage"

-----------------------------------------------------------------------------
(* The accept loop of main. *)

\* while(threadVars[curThread].busy == TRUE && curThread < POTCNT)
MainScan ==
  /\ mpc = "scan"
  /\ IF busy[cur] /\ cur < Slots
       THEN cur' = cur + 1 /\ UNCHANGED mpc
       ELSE mpc' = (IF cur = Slots THEN "full" ELSE "free") /\ UNCHANGED cur
  /\ UNCHANGED <<up, now, pots, client, req, tmpsock, slotVars, threadVars,
                 ghosts, closed>>

Waits(c) == client[c] # "none" /\ tpc[c] = "none"

\* No slot was free: accept, answer with a teapot, look again.
MainAcceptFull(c) ==
  /\ mpc = "full"
  /\ Waits(c)
  /\ tmpsock' = c
  /\ tpc' = [tpc EXCEPT ![c] = "refused"]
  /\ mpc' = "refuse"
  /\ UNCHANGED <<up, now, pots, client, req, cur, slotVars, mixed, slot, t,
                 status, answer, ghosts, closed>>

MainRefuses ==
  /\ mpc = "refuse"
  /\ \/ got' = [got EXCEPT ![tmpsock] = "teapot"] /\ UNCHANGED up
     \/ WriteFails(tmpsock, "teapot") /\ up' = FALSE /\ UNCHANGED got
  /\ mpc' = "scan"
  /\ cur' = 0
  /\ UNCHANGED <<now, pots, client, req, tmpsock, slotVars, threadVars,
                 ended, closed>>

\* A slot was free: accept into it, mark it busy, start its thread.
MainAccept(c) ==
  /\ mpc = "free"
  /\ Waits(c)
  /\ sock' = [sock EXCEPT ![cur] = c]
  /\ tpc' = [tpc EXCEPT ![c] = "accepted"]
  /\ mpc' = "setBusy"
  /\ UNCHANGED <<up, now, pots, client, req, cur, tmpsock, busy, mixed,
                 slot, t, status, answer, ghosts, closed>>

\* Mutant: the busy flag is forgotten.
MainForgetsBusy ==
  /\ mpc = "setBusy"
  /\ mpc' = "create"
  /\ UNCHANGED <<up, now, pots, client, req, cur, tmpsock, slotVars,
                 threadVars, ghosts, closed>>

MainSetsBusy ==
  /\ mpc = "setBusy"
  /\ busy' = [busy EXCEPT ![cur] = TRUE]
  /\ mpc' = "create"
  /\ UNCHANGED <<up, now, pots, client, req, cur, tmpsock, sock, threadVars,
                 ghosts, closed>>

MainCreates ==
  /\ mpc = "create"
  /\ tpc' = [tpc EXCEPT ![sock[cur]] = "read"]
  /\ slot' = [slot EXCEPT ![sock[cur]] = cur]
  /\ mpc' = "scan"
  /\ cur' = 0
  /\ UNCHANGED <<up, now, pots, client, req, tmpsock, slotVars, mixed, t,
                 status, answer, ghosts, closed>>

\* accept or pthread_create fails.
MainFails ==
  /\ MayFail /\ mpc \in {"full", "free", "create"}
  /\ up' = FALSE
  /\ UNCHANGED <<now, pots, client, req, mainVars, slotVars, threadVars,
                 ghosts, closed>>

-----------------------------------------------------------------------------
(* A thread: read the request, parse it, get the state of the pot, ...     *)

Goto(c, here, there) == tpc[c] = here /\ tpc' = [tpc EXCEPT ![c] = there]

\* The connection the thread of c reads from and writes to.
Sock(c) == sock[slot[c]]

Asked(c) == req[Sock(c)]

MyPot(c) == pots[Asked(c).pot]

IsTeapot(r) == r.pot >= PotCount \/ r.method = "other"

Received(c) == client[Sock(c)] \in {"sent", "gone"}

OthersParsing(c) == {d \in Conn \ {c} : tpc[d] = "parse"}

\* The process ends.
Dies == up' = FALSE /\ UNCHANGED <<tpc, answer>>

\* A read that returns nothing ends the process.  Two that parse at a time get
\* in each other's way.
ThreadReads(c) ==
  /\ tpc[c] = "read"
  /\ \/ client[Sock(c)] = "left" /\ Dies /\ UNCHANGED mixed
     \/ /\ Received(c)
        /\ Goto(c, "read", "parse")
        /\ mixed' = IF OthersParsing(c) = {} THEN mixed
                    ELSE mixed \cup {c} \cup OthersParsing(c)
        /\ UNCHANGED <<up, answer>>
  /\ UNCHANGED <<now, pots, client, req, mainVars, slotVars, slot, t, status,
                 ghosts, closed>>

SharedReplies == {"no cup", "still brewing", "cold", "overflow", "garbage"}

RepliesTo ==
  [BREW |-> {"busy", "not acceptable", "brewed"},
   PUT  |-> SharedReplies \cup {"already added", "pouring"},
   WHEN |-> SharedReplies \cup {"already added", "not pouring", "ok"},
   GET  |-> SharedReplies \cup {"not pouring", "still pouring", "coffee"}]

\* strstr or strtok found nothing, and what it returned is dereferenced.
ParserDies(c) ==
  (Asked(c).form # "full" \/ c \in mixed) /\ Dies

\* Only the upper bound of the pot's number is tested.  What the method finds
\* before the first pot makes it answer anything it may, or ends the process.
WorksAstray(c) ==
  /\ ~IsTeapot(Asked(c)) /\ Asked(c).pot < 0
  /\ \/ Dies
     \/ /\ \E a \in RepliesTo[Asked(c).method] :
             answer' = [answer EXCEPT ![c] = a]
        /\ Goto(c, "parse", "write") /\ UNCHANGED up

ThreadParses(c) ==
  /\ tpc[c] = "parse"
  /\ \/ ParserDies(c)
     \/ /\ Asked(c).form # "broken" \/ c \in mixed
        /\ \/ /\ IsTeapot(Asked(c))
              /\ Goto(c, "parse", "write")
              /\ answer' = [answer EXCEPT ![c] = "teapot"]
              /\ UNCHANGED up
           \/ /\ Asked(c).pot \in Pots /\ Asked(c).method # "other"
              /\ Goto(c, "parse", "getTime")
              /\ UNCHANGED <<up, answer>>
           \/ WorksAstray(c)
  /\ mixed' = mixed \ {c}
  /\ UNCHANGED <<now, pots, client, req, mainVars, slotVars, slot, t, status,
                 ghosts, closed>>

GetTime(c) ==
  /\ Goto(c, "getTime", "getCup")
  /\ t' = [t EXCEPT ![c] = now]
  /\ UNCHANGED <<up, now, pots, client, req, mainVars, slotVars, mixed, slot,
                 status, answer, ghosts, closed>>

\* getState returns s.
Returns(c, here, s) ==
  /\ Goto(c, here, "act")
  /\ status' = [status EXCEPT ![c] = s]

GetCup(c) ==
  /\ tpc[c] = "getCup"
  /\ IF MyPot(c).cupWaiting
       THEN Goto(c, "getCup", "getFin") /\ UNCHANGED status
       ELSE Returns(c, "getCup", "READY")
  /\ UNCHANGED <<up, now, pots, client, req, mainVars, slotVars, mixed, slot,
                 t, answer, ghosts, closed>>

\* Mutant: a cup that has just been finished is still brewing.
GetFinLate(c) ==
  /\ tpc[c] = "getFin"
  /\ IF MyPot(c).finBrew >= t[c]
       THEN Returns(c, "getFin", "BREWING")
       ELSE Goto(c, "getFin", "getPour") /\ UNCHANGED status
  /\ UNCHANGED <<up, now, pots, client, req, mainVars, slotVars, mixed, slot,
                 t, answer, ghosts, closed>>

GetFin(c) ==
  /\ tpc[c] = "getFin"
  /\ IF MyPot(c).finBrew > t[c]
       THEN Returns(c, "getFin", "BREWING")
       ELSE Goto(c, "getFin", "getPour") /\ UNCHANGED status
  /\ UNCHANGED <<up, now, pots, client, req, mainVars, slotVars, mixed, slot,
                 t, answer, ghosts, closed>>

GetPour(c) ==
  /\ tpc[c] = "getPour"
  /\ \E s \in CupState(MyPot(c).finBrew, MyPot(c).startPour,
                       MyPot(c).additionsAdded, MyPot(c).addUnitsPerSec, t[c]) :
       Returns(c, "getPour", s)
  /\ UNCHANGED <<up, now, pots, client, req, mainVars, slotVars, mixed, slot,
                 t, answer, ghosts, closed>>

-----------------------------------------------------------------------------
(* ... do what the method does to a pot in that state, ...                 *)

Answers(c, a, there) ==
  /\ Goto(c, "act", there)
  /\ answer' = [answer EXCEPT ![c] = a]

\* What brew answers and does next.
BrewActs(c) ==
  \/ status[c] # "READY" /\ Answers(c, "busy", "write")
  \/ status[c] = "READY" /\ Answers(c, "not acceptable", "write")
  \/ status[c] = "READY" /\ Answers(c, "brewed", "reset")

\* Mutant: nothing is written when there is no cup.
NoCoffeeSilent(c) ==
  CASE status[c] = "READY"        -> Answers(c, "none", "close")
    [] status[c] = "BREWING"      -> Answers(c, "still brewing", "write")
    [] status[c] = "CUP_COLD"     -> Answers(c, "cold", "reset")
    [] status[c] = "CUP_OVERFLOW" -> Answers(c, "overflow", "reset")
    [] OTHER                      -> Answers(c, "garbage", "write")

\* The answers put, when and get share; a cold or spilled cup is thrown away.
NoCoffee(c) ==
  CASE status[c] = "READY"        -> Answers(c, "no cup", "write")
    [] status[c] = "BREWING"      -> Answers(c, "still brewing", "write")
    [] status[c] = "CUP_COLD"     -> Answers(c, "cold", "reset")
    [] status[c] = "CUP_OVERFLOW" -> Answers(c, "overflow", "reset")
    [] OTHER                      -> Answers(c, "garbage", "write")

PutActs(c) ==
  CASE status[c] = "CUP_WAITING_ADDS"    -> Answers(c, "already added", "write")
    [] status[c] = "POURING"             -> Answers(c, "pouring", "write")
    [] status[c] = "CUP_WAITING_NO_ADDS" -> Answers(c, "pouring", "pour")
    [] OTHER                             -> NoCoffee(c)

WhenActs(c) ==
  CASE status[c] = "CUP_WAITING_ADDS"    -> Answers(c, "already added", "write")
    [] status[c] = "CUP_WAITING_NO_ADDS" -> Answers(c, "not pouring", "write")
    [] status[c] = "POURING"             -> Answers(c, "ok", "stop")
    [] OTHER                             -> NoCoffee(c)

GetActs(c) ==
  CASE status[c] = "CUP_WAITING_NO_ADDS" -> Answers(c, "not pouring", "write")
    [] status[c] = "POURING"             -> Answers(c, "still pouring", "write")
    [] status[c] = "CUP_WAITING_ADDS"    -> Answers(c, "coffee", "reset")
    [] OTHER                             -> NoCoffee(c)

\* brew validates the additions and get serves them with strtok.
CutsAdditions(c) ==
  \/ Asked(c).method = "BREW" /\ status[c] = "READY"
  \/ Asked(c).method = "GET" /\ status[c] = "CUP_WAITING_ADDS"

Act(c) ==
  /\ tpc[c] = "act"
  /\ \/ Asked(c).method = "BREW" /\ BrewActs(c)
     \/ Asked(c).method = "PUT"  /\ PutActs(c)
     \/ Asked(c).method = "WHEN" /\ WhenActs(c)
     \/ Asked(c).method = "GET"  /\ GetActs(c)
  /\ mixed' = IF CutsAdditions(c) THEN mixed \cup OthersParsing(c) ELSE mixed
  /\ t' = [t EXCEPT ![c] = 0]
  /\ UNCHANGED <<up, now, pots, client, req, mainVars, slotVars, slot, status,
                 got, ended, closed>>

SetPot(c, p) == pots' = [pots EXCEPT ![Asked(c).pot] = p]

\* Only the fields of the pot change, and what brews have ended.
PotStep(c) ==
  UNCHANGED <<up, now, client, req, mainVars, slotVars, mixed, slot, t, status,
              answer, got, closed>>

\* put: additionsAdded = FALSE, startPour = time(NULL).
Pour(c) ==
  /\ Goto(c, "pour", "write")
  /\ SetPot(c, [MyPot(c) EXCEPT !.additionsAdded = FALSE, !.startPour = now])
  /\ PotStep(c) /\ UNCHANGED ended

\* when: additionsAdded = TRUE.
StopPouring(c) ==
  /\ Goto(c, "stop", "write")
  /\ SetPot(c, [MyPot(c) EXCEPT !.additionsAdded = TRUE])
  /\ PotStep(c) /\ UNCHANGED ended

\* resetPot: finBrew, then cupWaiting, then the rest.
ResetFin(c) ==
  /\ Goto(c, "reset", "resetCup")
  /\ SetPot(c, [MyPot(c) EXCEPT !.finBrew = 0])
  /\ PotStep(c) /\ UNCHANGED ended

ResetCup(c) ==
  /\ Goto(c, "resetCup", "resetRest")
  /\ SetPot(c, [MyPot(c) EXCEPT !.cupWaiting = FALSE])
  /\ ended' = IF answer[c] = "brewed" THEN ended
              ELSE ended \cup {MyPot(c).waitingAdditions}
  /\ PotStep(c)

\* Mutant: the start of pouring is reset to a time before all times.
ResetToBefore(c) ==
  /\ Goto(c, "resetRest", IF answer[c] = "brewed" THEN "brewFin" ELSE "write")
  /\ SetPot(c, [MyPot(c) EXCEPT !.additionsAdded = FALSE, !.addUnitsPerSec = 0,
                                !.startPour = -1, !.waitingAdditions = NoConn])
  /\ PotStep(c) /\ UNCHANGED ended

\* brew goes on to fill the pot, the others are done.
ResetRest(c) ==
  /\ Goto(c, "resetRest", IF answer[c] = "brewed" THEN "brewFin" ELSE "write")
  /\ SetPot(c, [MyPot(c) EXCEPT !.additionsAdded = FALSE, !.addUnitsPerSec = 0,
                                !.startPour = 0, !.waitingAdditions = NoConn])
  /\ PotStep(c) /\ UNCHANGED ended

BrewFin(c) ==
  /\ Goto(c, "brewFin", "brewAdds")
  /\ SetPot(c, [MyPot(c) EXCEPT !.finBrew = now + BrewSecs])
  /\ PotStep(c) /\ UNCHANGED ended

BrewAdds(c) ==
  /\ Goto(c, "brewAdds", "brewCup")
  /\ SetPot(c, [MyPot(c) EXCEPT
                  !.waitingAdditions = Sock(c),
                  !.addUnitsPerSec = calcAddPerSec(Asked(c).units)])
  /\ PotStep(c) /\ UNCHANGED ended

BrewCup(c) ==
  /\ Goto(c, "brewCup", "write")
  /\ SetPot(c, [MyPot(c) EXCEPT !.cupWaiting = TRUE])
  /\ PotStep(c) /\ UNCHANGED ended

-----------------------------------------------------------------------------
(* ... write the answer, close the connection, free the slot.              *)

\* Mutant: the slot is freed before its connection is closed.
ThreadFreesEarly(c) ==
  /\ Goto(c, "write", "close")
  /\ \/ got' = [got EXCEPT ![Sock(c)] = answer[c]] /\ UNCHANGED up
     \/ WriteFails(Sock(c), answer[c]) /\ up' = FALSE /\ UNCHANGED got
  /\ busy' = [busy EXCEPT ![slot[c]] = FALSE]
  /\ UNCHANGED <<now, pots, client, req, mainVars, sock, mixed, slot, t,
                 status, answer, ended, closed>>

ThreadWrites(c) ==
  /\ Goto(c, "write", "close")
  /\ \/ got' = [got EXCEPT ![Sock(c)] = answer[c]] /\ UNCHANGED up
     \/ WriteFails(Sock(c), answer[c]) /\ up' = FALSE /\ UNCHANGED got
  /\ UNCHANGED <<now, pots, client, req, mainVars, slotVars, mixed, slot,
                 t, status, answer, ended, closed>>

ThreadCloses(c) ==
  /\ Goto(c, "close", "free")
  /\ closed' = closed \cup {Sock(c)}
  /\ UNCHANGED <<up, now, pots, client, req, mainVars, slotVars, mixed, slot,
                 t, status, answer, ghosts>>

\* The thread's locals end with it.
ThreadEnds(c) ==
  /\ slot' = [slot EXCEPT ![c] = Slots]
  /\ t' = [t EXCEPT ![c] = 0]
  /\ status' = [status EXCEPT ![c] = "ERROR"]
  /\ answer' = [answer EXCEPT ![c] = "none"]

ThreadFrees(c) ==
  /\ Goto(c, "free", "done")
  /\ busy' = [busy EXCEPT ![slot[c]] = FALSE]
  /\ ThreadEnds(c)
  /\ UNCHANGED <<up, now, pots, client, req, mainVars, sock, mixed, ghosts,
                 closed>>

-----------------------------------------------------------------------------

MainStep ==
  \/ MainScan \/ MainRefuses \/ MainSetsBusy \/ MainCreates
  \/ \E c \in Conn : MainAcceptFull(c) \/ MainAccept(c)

PotOperation(c) ==
  \/ GetTime(c) \/ GetCup(c) \/ GetFin(c) \/ GetPour(c)
  \/ Act(c)
  \/ Pour(c) \/ StopPouring(c)
  \/ ResetFin(c) \/ ResetCup(c) \/ ResetRest(c)
  \/ BrewFin(c) \/ BrewAdds(c) \/ BrewCup(c)

ThreadStep(c) ==
  \/ ThreadReads(c) \/ ThreadParses(c)
  \/ PotOperation(c)
  \/ ThreadWrites(c) \/ ThreadCloses(c) \/ ThreadFrees(c)

Request(c) == ClientSends(c) \/ ClientLeaves(c)

ClientStep(c) == Connect(c) \/ Request(c) \/ ClientGivesUp(c)

\* The process ended, or the loop waits for connections nobody will open.
Stopped ==
  \/ ~up
  \/ /\ mpc \in {"free", "full"}
     /\ \A c \in Conn : tpc[c] \in {"done", "refused"}

Idle == Stopped /\ UNCHANGED vars

Next ==
  \/ /\ up
     /\ \/ Tick
        \/ MainStep \/ MainFails
        \/ \E c \in Conn : ThreadStep(c) \/ ClientStep(c)
  \/ Idle

Spec == Init /\ [][Next]_vars

\* The scheduler runs the loop and the threads; a client that connected sends
\* its request or closes.  Nobody has to connect and time need not pass.
FairSpec ==
  /\ Spec
  /\ WF_vars(up /\ MainStep)
  /\ \A c \in Conn : WF_vars(up /\ ThreadStep(c)) /\ WF_vars(up /\ Request(c))

-----------------------------------------------------------------------------

MainPcs == {"scan", "full", "refuse", "free", "setBusy", "create"}

LivePcs == {"read", "parse", "getTime", "getCup", "getFin", "getPour", "act",
            "pour", "stop", "reset", "resetCup", "resetRest", "brewFin",
            "brewAdds", "brewCup", "write", "close", "free"}

Replies == {"none", "teapot", "busy", "not acceptable", "brewed", "no cup",
            "still brewing", "cold", "overflow", "garbage", "already added",
            "pouring", "not pouring", "ok", "still pouring", "coffee"}

\* The thread of c runs.
Live(c) == tpc[c] \in LivePcs

\* Every variable has its type.
TypeOK ==
  /\ up \in BOOLEAN
  /\ now \in StartTime .. MaxTime
  /\ pots \in [Pots -> Pot]
  /\ client \in [Conn -> {"none", "connected", "sent", "left", "gone"}]
  /\ req \in [Conn -> Requests]
  /\ mpc \in MainPcs
  /\ cur \in 0 .. Slots
  /\ tmpsock \in Conn \cup {NoConn}
  /\ sock \in [Slot -> Conn \cup {NoConn}]
  /\ busy \in [0 .. Slots -> BOOLEAN]
  /\ tpc \in [Conn -> LivePcs \cup {"none", "refused", "accepted", "done"}]
  /\ mixed \subseteq Conn
  /\ slot \in [Conn -> 0 .. Slots]
  /\ t \in [Conn -> Nat]
  /\ status \in [Conn -> Garbage]
  /\ answer \in [Conn -> Replies]
  /\ got \in [Conn -> Replies]
  /\ ended \subseteq Brewer
  /\ closed \subseteq Conn

\* A running thread has a slot of its own, marked busy, with the connection it
\* was started for in it, though main fills slots while threads free them.
OwnSlot ==
  \A c \in Conn :
    Live(c) => slot[c] \in Slot /\ busy[slot[c]] /\ sock[slot[c]] = c

\* A connection is closed only after the answer to its own request, and to no
\* other's, was written to it.
OwnAnswer ==
  \A c \in closed :
    /\ got[c] # "none"
    /\ got[c] = "brewed" => req[c].method = "BREW"
    /\ got[c] = "coffee" => req[c].method = "GET"

\* A client told that its pot is brewing has its coffee in the pot until the
\* cup is served or thrown away: no other request takes its place (brew's
\* "Pot busy", and resetPot and getState in between).
NoBrewLost ==
  \A c \in Conn :
    got[c] = "brewed" /\ c \notin ended =>
      pots[req[c].pot].waitingAdditions = c /\ pots[req[c].pot].cupWaiting

\* What a method acts upon is what getState would say of the pot at once, and
\* never what happens to be in a register: with one thread at a time.
StatusIsCurrent ==
  \A c \in Conn :
    tpc[c] = "act" =>
      status[c] # "ERROR" /\ getState(MyPot(c), t[c]) = {status[c]}

\* Additions poured for longer than the cup takes overflow it, once PUT has
\* said how fast they are poured.
LongPourOverflows ==
  \A c \in Conn :
    tpc[c] = "act" /\ status[c] \in {"POURING", "CUP_WAITING_ADDS"} =>
      LET brewer == MyPot(c).waitingAdditions
      IN brewer \in Conn =>
           (t[c] - MyPot(c).startPour) * req[brewer].units <= FreeUnits

\* Every client that connects is answered, with coffee or as a teapot, unless
\* it left or the process ended.
EveryoneAnswered ==
  \A c \in Conn :
    client[c] = "connected" ~> (got[c] # "none" \/ client[c] = "left" \/ ~up)

\* Every slot taken is given back while the process lives.
SlotsComeBack == \A i \in Slot : busy[i] ~> (~busy[i] \/ ~up)

\* No client waits for ever, and no slot is lost.
ServesForEver == EveryoneAnswered /\ SlotsComeBack

=============================================================================
