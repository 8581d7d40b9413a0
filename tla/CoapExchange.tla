---------------------------- MODULE CoapExchange ----------------------------
(***************************************************************************)
(* The message exchanges of the CoAPthon server: how the threads of        *)
(* server/coap.py answer requests over an unreliable datagram service.     *)
(*                                                                         *)
(* One LISTENER reads datagrams.  Every new request gets a WORKER thread   *)
(* that holds the transaction's lock while it runs the resource handler    *)
(* and sends the response, a separate-response TIMER that acknowledges the *)
(* request when the handler is slow, and, if the response is confirmable,  *)
(* a RETRANSMISSION thread that holds the same lock until the response is  *)
(* acknowledged, rejected or given up.  The timer and the listener write   *)
(* the transaction without taking its lock.                                *)
(*                                                                         *)
(* The peer is one endpoint, so that a message id stands for the key       *)
(* (host, port, mid) of MessageLayer._transactions.  Requests carry no     *)
(* Observe and no Block option.  Datagrams may be lost, duplicated and     *)
(* reordered: the listener may at any time receive any request of the peer *)
(* and any empty message the peer may answer with.                         *)
(***************************************************************************)
EXTENDS Naturals

CONSTANTS Req,            \* the requests of the peer
          NoReq,          \* no request
          ConReq,         \* those of them that are confirmable
          OddReq,         \* those whose method the request layer does not know
          ReqMid,         \* ReqMid[r]: the message id the peer gave r
          MidSpace,       \* message ids are 0 .. MidSpace-1 (65535 in the code)
          StartMids,      \* the values MessageLayer may start its counter with
          MaxRetransmit,  \* defines.MAX_RETRANSMIT
          EmptyTypes,     \* the types of the empty messages the peer may send
          StrayIds,       \* ids the peer may answer though no response has them
          CanGarble,      \* may it send datagrams that cannot be read?
          CanClose,       \* may the server be closed?
          MaxRx,          \* bound: datagrams the listener receives
          MaxWorkers      \* bound: workers started for one transaction

Mid == 0 .. MidSpace - 1
NoMid == MidSpace
Worker == Req \X (1 .. MaxWorkers)

ASSUME ExchangeAssumption ==
  /\ NoReq \notin Req
  /\ ConReq \subseteq Req
  /\ OddReq \subseteq Req
  /\ MidSpace \in Nat \ {0}
  /\ ReqMid \in [Req -> Mid]
  /\ StartMids \subseteq Mid
  /\ MaxRetransmit \in Nat
  /\ EmptyTypes \subseteq {"ACK", "RST", "CON", "NON"}
  /\ StrayIds \subseteq Mid
  /\ CanGarble \in BOOLEAN
  /\ CanClose \in BOOLEAN
  /\ MaxRx \in Nat
  /\ MaxWorkers \in Nat \ {0}

VARIABLES
  stopped,    \* CoAP.stopped
  rx,         \* datagrams received so far
  curMid,     \* MessageLayer._current_mid
  tbl,        \* MessageLayer._transactions, by message id
  sentMids,   \* ids of the CON and NON responses put on the wire
  ackOut,     \* ackOut[r]: an ACK for request r was put on the wire
  lpc,        \* what the listener is doing
  lreq,       \* the transaction it is doing it to
  lrst,       \* whether the empty message in hand is a RST
  spawned,    \* spawned[r]: workers started for r's transaction
  lock,       \* lock[r]: is the transaction's lock held?
  acked,      \* transaction.request.acknowledged
  completed,  \* transaction.completed
  cur,        \* whose Response object transaction.response is (0: None)
  stop,       \* transaction.retransmit_stop: no event, clear or set
  wpc,        \* what each worker is doing
  timer,      \* the separate-response timer each worker started
  rtype,      \* type of the Response object each worker built
  rmid,       \* its message id
  wmid,       \* fetch_mid's local current_mid in each worker
  racked,     \* its acknowledged attribute
  rrej,       \* its rejected attribute
  rpc,        \* what the retransmission thread of each worker is doing
  cnt,        \* its retransmit_count
  gaveUp,     \* the response's timeouted attribute
  late        \* retransmissions put on the wire after the answer arrived

lVars == <<lpc, lreq, lrst>>
tVars == <<acked, completed, cur, stop>>
mVars == <<curMid, tbl>>
wireVars == <<sentMids, ackOut>>
respVars == <<rtype, rmid, wmid, racked, rrej>>
rVars == <<rpc, cnt, gaveUp, late>>
vars == <<stopped, rx, mVars, wireVars, lVars, spawned, lock, tVars, wpc,
          timer, respVars, rVars>>

-----------------------------------------------------------------------------
Init ==
  /\ stopped = FALSE
  /\ rx = 0
  /\ curMid \in StartMids
  /\ tbl = [m \in Mid |-> NoReq]
  /\ sentMids = {}
  /\ ackOut = [r \in Req |-> FALSE]
  /\ lpc = "recv"
  /\ lreq = NoReq
  /\ lrst = FALSE
  /\ spawned = [r \in Req |-> 0]
  /\ lock = [r \in Req |-> FALSE]
  /\ acked = [r \in Req |-> FALSE]
  /\ completed = [r \in Req |-> FALSE]
  /\ cur = [r \in Req |-> 0]
  /\ stop = [r \in Req |-> "none"]
  /\ wpc = [w \in Worker |-> "none"]
  /\ timer = [w \in Worker |-> "none"]
  /\ rtype = [w \in Worker |-> "none"]
  /\ rmid = [w \in Worker |-> NoMid]
  /\ wmid = [w \in Worker |-> NoMid]
  /\ racked = [w \in Worker |-> FALSE]
  /\ rrej = [w \in Worker |-> FALSE]
  /\ rpc = [w \in Worker |-> "none"]
  /\ cnt = [w \in Worker |-> 0]
  /\ gaveUp = [w \in Worker |-> FALSE]
  /\ late = [w \in Worker |-> 0]

(***************************************************************************)
(* Sending.  send_datagram does nothing once the server is stopped.       *)
(***************************************************************************)

\* An ACK for request r leaves the server.
SendAck(r) == ackOut' = [ackOut EXCEPT ![r] = @ \/ ~stopped]

(***************************************************************************)
(* The response of worker w leaves the server.  One without an id cannot   *)
(* be packed; serialize catches the struct.error, and a datagram with id 0 *)
(* leaves that is nobody's ACK or response.                                *)
(***************************************************************************)
SendResponseDatagram(w) ==
  IF rmid[w] = NoMid THEN UNCHANGED wireVars
  ELSE IF rtype[w] = "ACK" THEN SendAck(w[1]) /\ UNCHANGED sentMids
  ELSE /\ sentMids' = IF stopped THEN sentMids ELSE sentMids \cup {rmid[w]}
       /\ UNCHANGED ackOut

(***************************************************************************)
(* The setters of Message: each of acknowledged, rejected and timeouted    *)
(* clears the other two.                                                   *)
(***************************************************************************)
SetAcknowledged(w) ==
  /\ racked' = [racked EXCEPT ![w] = TRUE]
  /\ rrej' = [rrej EXCEPT ![w] = FALSE]
  /\ gaveUp' = [gaveUp EXCEPT ![w] = FALSE]

SetRejected(w) ==
  /\ rrej' = [rrej EXCEPT ![w] = TRUE]
  /\ racked' = [racked EXCEPT ![w] = FALSE]
  /\ gaveUp' = [gaveUp EXCEPT ![w] = FALSE]

\* Mutant of fetch_mid: the wrap is forgotten.
NextMidNoWrap(m) == m + 1

NextMid(m) == (m + 1) % MidSpace

\* Mutant: the lock is entered without waiting for its owner.
AcquireNoWait(r) == lock' = [lock EXCEPT ![r] = TRUE]

\* The transaction's RLock; no thread below takes it twice.
Acquire(r) == ~lock[r] /\ lock' = [lock EXCEPT ![r] = TRUE]
Release(r) == lock' = [lock EXCEPT ![r] = FALSE]

-----------------------------------------------------------------------------
(* The listener: requests. *)

\* Mutant: the duplicate test finds only transactions still in progress.
KnownInProgress(r) ==
  tbl[ReqMid[r]] # NoReq /\ ~completed[tbl[ReqMid[r]]]

\* key_mid in self._transactions
Known(r) == tbl[ReqMid[r]] # NoReq

Receiving == lpc = "recv" /\ ~stopped /\ rx < MaxRx

\* threading.Thread(target=self.receive_request): one more worker for r.
StartWorker(r) ==
  /\ spawned[r] < MaxWorkers
  /\ spawned' = [spawned EXCEPT ![r] = @ + 1]
  /\ wpc' = [wpc EXCEPT ![<<r, spawned[r] + 1>>] = "lock"]

\* A request whose key is not in the table gets a new transaction.
ListenNew(r) ==
  /\ Receiving
  /\ ~Known(r)
  /\ rx' = rx + 1
  /\ tbl' = [tbl EXCEPT ![ReqMid[r]] = r]
  /\ StartWorker(r)
  /\ UNCHANGED <<stopped, curMid, wireVars, lVars, lock, tVars, timer,
                 respVars, rVars>>

\* A datagram that cannot be read is answered with a RST that takes an id.
ListenBadRequest ==
  /\ Receiving
  /\ CanGarble
  /\ rx' = rx + 1
  /\ curMid' = NextMid(curMid)
  /\ UNCHANGED <<stopped, tbl, wireVars, lVars, spawned, lock, tVars, wpc,
                 timer, respVars, rVars>>

\* A request whose key is in the table is a duplicate of that transaction's.
ListenDuplicate(r) ==
  /\ Receiving
  /\ Known(r)
  /\ rx' = rx + 1
  /\ lreq' = tbl[ReqMid[r]]
  /\ lpc' = "ifCompleted"
  /\ UNCHANGED <<stopped, mVars, wireVars, lrst, spawned, lock, tVars, wpc,
                 timer, respVars, rVars>>

\* if transaction.request.duplicated and transaction.completed
DupIfCompleted ==
  /\ lpc = "ifCompleted"
  /\ lpc' = IF completed[lreq] THEN "resend" ELSE "elifNotCompleted"
  /\ UNCHANGED <<stopped, rx, mVars, wireVars, lreq, lrst, spawned, lock,
                 tVars, wpc, timer, respVars, rVars>>

\* elif transaction.request.duplicated and not transaction.completed
DupElifNotCompleted ==
  /\ lpc = "elifNotCompleted"
  /\ ~completed[lreq]
  /\ lpc' = "ack"
  /\ UNCHANGED <<stopped, rx, mVars, wireVars, lreq, lrst, spawned, lock,
                 tVars, wpc, timer, respVars, rVars>>

\* Neither test held: completed changed between the two, the duplicate is
\* handled as a new request.
DupFallThrough ==
  /\ lpc = "elifNotCompleted"
  /\ completed[lreq]
  /\ StartWorker(lreq)
  /\ lpc' = "recv"
  /\ UNCHANGED <<stopped, rx, mVars, wireVars, lreq, lrst, lock, tVars,
                 timer, respVars, rVars>>

\* The duplicate of a completed transaction is answered with its response.  One
\* that has no type yet raises TypeError while it is serialised, which listen
\* does not catch.
DupResend ==
  /\ lpc = "resend"
  /\ LET w == <<lreq, cur[lreq]>> IN
       IF cur[lreq] = 0 \/ stopped
         THEN lpc' = "recv" /\ UNCHANGED wireVars
         ELSE IF rtype[w] # "none"
           THEN lpc' = "recv" /\ SendResponseDatagram(w)
           ELSE lpc' = "dead" /\ UNCHANGED wireVars
  /\ UNCHANGED <<stopped, rx, mVars, lreq, lrst, spawned, lock, tVars, wpc,
                 timer, respVars, rVars>>

\* _send_ack: the test.
DupAck ==
  /\ lpc = "ack"
  /\ lpc' = IF ~acked[lreq] /\ lreq \in ConReq THEN "setAck" ELSE "recv"
  /\ UNCHANGED <<stopped, rx, mVars, wireVars, lreq, lrst, spawned, lock,
                 tVars, wpc, timer, respVars, rVars>>

\* MessageLayer.send_empty, for an ACK of the request.
AckRequest(r) ==
  /\ acked' = [acked EXCEPT ![r] = TRUE]
  /\ completed' = [completed EXCEPT ![r] = TRUE]

DupSetAck ==
  /\ lpc = "setAck"
  /\ AckRequest(lreq)
  /\ lpc' = "sendAck"
  /\ UNCHANGED <<stopped, rx, mVars, wireVars, lreq, lrst, spawned, lock,
                 cur, stop, wpc, timer, respVars, rVars>>

DupSendAck ==
  /\ lpc = "sendAck"
  /\ SendAck(lreq)
  /\ lpc' = "recv"
  /\ UNCHANGED <<stopped, rx, mVars, sentMids, lreq, lrst, spawned, lock,
                 tVars, wpc, timer, respVars, rVars>>

-----------------------------------------------------------------------------
(* The listener: empty messages (MessageLayer.receive_empty, then the      *)
(* observe layer under the transaction's lock).                            *)

\* The peer acknowledges or rejects what it was sent, and what has one of
\* StrayIds; an empty CON or NON carries an id of the peer's own, fresh with
\* respect to its requests.
MayReceiveEmpty(type, m) ==
  /\ Receiving
  /\ type \in EmptyTypes
  /\ tbl[m] # NoReq
  /\ IF type \in {"ACK", "RST"} THEN m \in sentMids \cup StrayIds
                                ELSE \A r \in Req : m # ReqMid[r]
  /\ rx' = rx + 1
  /\ lreq' = tbl[m]
  /\ lrst' = (type = "RST")

ListenAck(m) ==
  /\ MayReceiveEmpty("ACK", m)
  /\ LET t == tbl[m]
         w == <<t, cur[t]>>
     IN  IF ~acked[t]
           THEN /\ acked' = [acked EXCEPT ![t] = TRUE]
                /\ UNCHANGED <<racked, rrej, gaveUp>>
           ELSE /\ UNCHANGED acked
                /\ IF cur[t] = 0 \/ racked[w]
                     THEN UNCHANGED <<racked, rrej, gaveUp>>
                     ELSE SetAcknowledged(w)
  /\ lpc' = "ifStop"
  /\ UNCHANGED <<stopped, mVars, wireVars, spawned, lock, completed, cur,
                 stop, wpc, timer, rtype, rmid, wmid, rpc, cnt, late>>

\* With no response yet, transaction.response.acknowledged raises
\* AttributeError in the listener.
ListenRst(m) ==
  /\ MayReceiveEmpty("RST", m)
  /\ LET t == tbl[m]
         w == <<t, cur[t]>>
     IN  IF acked[t] /\ cur[t] = 0
           THEN lpc' = "dead" /\ UNCHANGED <<racked, rrej, gaveUp>>
           ELSE /\ lpc' = "ifStop"
                /\ IF acked[t] /\ ~racked[w]
                     THEN SetRejected(w)
                     ELSE UNCHANGED <<racked, rrej, gaveUp>>
  /\ UNCHANGED <<stopped, mVars, wireVars, spawned, lock, tVars, wpc, timer,
                 rtype, rmid, wmid, rpc, cnt, late>>

\* An empty CON is an implicit ACK of the request, an empty NON is nothing.
ListenOther(type, m) ==
  /\ MayReceiveEmpty(type, m)
  /\ type \in {"CON", "NON"}
  /\ acked' = [acked EXCEPT ![tbl[m]] = @ \/ type = "CON"]
  /\ lpc' = "ifStop"
  /\ UNCHANGED <<stopped, mVars, wireVars, spawned, lock, completed, cur,
                 stop, wpc, timer, respVars, rVars>>

\* if transaction.retransmit_stop is not None
EmptyIfStop ==
  /\ lpc = "ifStop"
  /\ lpc' = IF stop[lreq] # "none" THEN "setStop" ELSE "lock"
  /\ UNCHANGED <<stopped, rx, mVars, wireVars, lreq, lrst, spawned, lock,
                 tVars, wpc, timer, respVars, rVars>>

\* transaction.retransmit_stop.set(): the attribute is read again, and may
\* have become None.
EmptySetStop ==
  /\ lpc = "setStop"
  /\ IF stop[lreq] = "none"
       THEN lpc' = "dead" /\ UNCHANGED stop
       ELSE lpc' = "lock" /\ stop' = [stop EXCEPT ![lreq] = "set"]
  /\ UNCHANGED <<stopped, rx, mVars, wireVars, lreq, lrst, spawned, lock,
                 acked, completed, cur, wpc, timer, respVars, rVars>>

\* with transaction: a RST completes the transaction.  The lock is taken and
\* released in one step, nothing in between waits.
EmptyObserve ==
  /\ lpc = "lock"
  /\ ~lock[lreq]
  /\ completed' = [completed EXCEPT ![lreq] = @ \/ lrst]
  /\ lpc' = "recv"
  /\ UNCHANGED <<stopped, rx, mVars, wireVars, lreq, lrst, spawned, lock,
                 acked, cur, stop, wpc, timer, respVars, rVars>>

-----------------------------------------------------------------------------
(* Closing the server. *)

Close ==
  /\ CanClose
  /\ ~stopped
  /\ stopped' = TRUE
  /\ stop' = [r \in Req |-> IF stop[r] = "clear" THEN "set" ELSE stop[r]]
  /\ UNCHANGED <<rx, mVars, wireVars, lVars, spawned, lock, acked, completed,
                 cur, wpc, timer, respVars, rVars>>

ListenerStops ==
  /\ lpc = "recv"
  /\ stopped
  /\ lpc' = "closed"
  /\ UNCHANGED <<stopped, rx, mVars, wireVars, lreq, lrst, spawned, lock,
                 tVars, wpc, timer, respVars, rVars>>

-----------------------------------------------------------------------------
(* A worker: CoAP.receive_request. *)

WorkerAt(w, from) == wpc[w] = from
WorkerGoto(w, to) == wpc' = [wpc EXCEPT ![w] = to]

\* Take the transaction's lock, start the separate-response timer.
WorkerLock(w) ==
  /\ WorkerAt(w, "lock")
  /\ Acquire(w[1])
  /\ timer' = [timer EXCEPT ![w] = "armed"]
  /\ WorkerGoto(w, "dispatch")
  /\ UNCHANGED <<stopped, rx, mVars, wireVars, lVars, spawned, tVars,
                 respVars, rVars>>

\* The request layer stores a new Response, with no type and no id yet, in
\* the transaction and calls the handler.
WorkerDispatch(w) ==
  /\ WorkerAt(w, "dispatch")
  /\ w[1] \notin OddReq
  /\ cur' = [cur EXCEPT ![w[1]] = w[2]]
  /\ WorkerGoto(w, "handler")
  /\ UNCHANGED <<stopped, rx, mVars, wireVars, lVars, spawned, lock, acked,
                 completed, stop, timer, respVars, rVars>>

\* A method nobody knows: there is no response, the layers behind dereference
\* it all the same, and the thread ends like one whose handler raises.
WorkerUnknownMethod(w) ==
  /\ WorkerAt(w, "dispatch")
  /\ w[1] \in OddReq
  /\ cur' = [cur EXCEPT ![w[1]] = 0]
  /\ WorkerGoto(w, "failed")
  /\ Release(w[1])
  /\ UNCHANGED <<stopped, rx, mVars, wireVars, lVars, spawned, acked,
                 completed, stop, timer, respVars, rVars>>

\* The handler, or the callback of a separate one, returns.
HandlerReturns(w) ==
  /\ wpc[w] \in {"handler", "callback"}
  /\ WorkerGoto(w, "stopTimer")
  /\ UNCHANGED <<stopped, rx, mVars, wireVars, lVars, spawned, lock, tVars,
                 timer, respVars, rVars>>

\* It raises: the thread ends, the with statement releases the lock, the
\* timer goes on.
HandlerRaises(w) ==
  /\ wpc[w] \in {"handler", "callback"}
  /\ WorkerGoto(w, "failed")
  /\ Release(w[1])
  /\ UNCHANGED <<stopped, rx, mVars, wireVars, lVars, spawned, tVars, timer,
                 respVars, rVars>>

\* It returns a callback: _handle_separate acknowledges the request first.
HandlerSeparate(w) ==
  /\ WorkerAt(w, "handler")
  /\ WorkerGoto(w, IF acked[w[1]] THEN "callback" ELSE "separate")
  /\ UNCHANGED <<stopped, rx, mVars, wireVars, lVars, spawned, lock, tVars,
                 timer, respVars, rVars>>

\* _send_ack inside _handle_separate, up to the datagram.
SeparateSetAck(w) ==
  LET r == w[1] IN
  /\ WorkerAt(w, "separate")
  /\ IF ~acked[r] /\ r \in ConReq
       THEN AckRequest(r) /\ WorkerGoto(w, "sendAck")
       ELSE /\ acked' = [acked EXCEPT ![r] = TRUE]
            /\ UNCHANGED completed
            /\ WorkerGoto(w, "callback")
  /\ UNCHANGED <<stopped, rx, mVars, wireVars, lVars, spawned, lock, cur,
                 stop, timer, respVars, rVars>>

SeparateSendAck(w) ==
  /\ WorkerAt(w, "sendAck")
  /\ SendAck(w[1])
  /\ WorkerGoto(w, "callback")
  /\ UNCHANGED <<stopped, rx, mVars, sentMids, lVars, spawned, lock, tVars,
                 timer, respVars, rVars>>

\* Timer.cancel stops a timer that has not fired.
WorkerStopTimer(w) ==
  /\ WorkerAt(w, "stopTimer")
  /\ timer' = [timer EXCEPT ![w] = IF @ = "armed" THEN "done" ELSE @]
  /\ WorkerGoto(w, "decide")
  /\ UNCHANGED <<stopped, rx, mVars, wireVars, lVars, spawned, lock, tVars,
                 respVars, rVars>>

\* MessageLayer.send_response chooses the type of the response.
WorkerDecide(w) ==
  LET piggyback == w[1] \in ConReq /\ ~acked[w[1]] IN
  /\ WorkerAt(w, "decide")
  /\ rtype' = [rtype EXCEPT ![w] = IF piggyback THEN "ACK"
                                   ELSE IF w[1] \in ConReq THEN "CON"
                                   ELSE "NON"]
  /\ WorkerGoto(w, IF piggyback THEN "piggyback" ELSE "fetchMid")
  /\ UNCHANGED <<stopped, rx, mVars, wireVars, lVars, spawned, lock, tVars,
                 timer, rmid, wmid, racked, rrej, rVars>>

\* A piggybacked response takes the request's id and needs no answer.
WorkerPiggyback(w) ==
  /\ WorkerAt(w, "piggyback")
  /\ rmid' = [rmid EXCEPT ![w] = ReqMid[w[1]]]
  /\ SetAcknowledged(w)
  /\ AckRequest(w[1])
  /\ WorkerGoto(w, "send")
  /\ UNCHANGED <<stopped, rx, mVars, wireVars, lVars, spawned, lock, cur,
                 stop, timer, rtype, wmid, rpc, cnt, late>>

\* fetch_mid reads the counter ...
WorkerFetchMid(w) ==
  /\ WorkerAt(w, "fetchMid")
  /\ wmid' = [wmid EXCEPT ![w] = curMid]
  /\ WorkerGoto(w, "register")
  /\ UNCHANGED <<stopped, rx, mVars, wireVars, lVars, spawned, lock, tVars,
                 timer, rtype, rmid, racked, rrej, rVars>>

\* ... and advances it; the response's id becomes a key of the transaction.
WorkerRegister(w) ==
  /\ WorkerAt(w, "register")
  /\ curMid' = NextMid(curMid)
  /\ rmid' = [rmid EXCEPT ![w] = wmid[w]]
  /\ tbl' = [tbl EXCEPT ![wmid[w]] = w[1]]
  /\ acked' = [acked EXCEPT ![w[1]] = TRUE]
  /\ WorkerGoto(w, IF rtype[w] = "CON" THEN "retransmission" ELSE "send")
  /\ UNCHANGED <<stopped, rx, wireVars, lVars, spawned, lock, completed, cur,
                 stop, timer, rtype, wmid, racked, rrej, rVars>>

\* _start_retransmission: a thread and a fresh event.
WorkerStartRetransmission(w) ==
  /\ WorkerAt(w, "retransmission")
  /\ stop' = [stop EXCEPT ![w[1]] = "clear"]
  /\ rpc' = [rpc EXCEPT ![w] = "lock"]
  /\ WorkerGoto(w, "send")
  /\ UNCHANGED <<stopped, rx, mVars, wireVars, lVars, spawned, lock, acked,
                 completed, cur, timer, respVars, cnt, gaveUp, late>>

\* Send the response and release the lock.
WorkerSend(w) ==
  /\ WorkerAt(w, "send")
  /\ SendResponseDatagram(w)
  /\ Release(w[1])
  /\ WorkerGoto(w, "done")
  /\ UNCHANGED <<stopped, rx, mVars, lVars, spawned, tVars, timer, respVars,
                 rVars>>

-----------------------------------------------------------------------------
(* The separate-response timer: Timer.run, then _send_ack without the lock.*)

TimerAt(w, from, to) == timer[w] = from /\ timer' = [timer EXCEPT ![w] = to]

\* Mutant: the timer takes the transaction's lock.
TimerFiresUnlocked(w) ==
  /\ ~lock[w[1]]
  /\ TimerAt(w, "armed", "fired")
  /\ UNCHANGED <<stopped, rx, mVars, wireVars, lVars, spawned, lock, tVars,
                 wpc, respVars, rVars>>

\* ACK_TIMEOUT has passed and cancel has not been called.
TimerFires(w) ==
  /\ TimerAt(w, "armed", "fired")
  /\ UNCHANGED <<stopped, rx, mVars, wireVars, lVars, spawned, lock, tVars,
                 wpc, respVars, rVars>>

TimerTests(w) ==
  /\ TimerAt(w, "fired",
             IF ~acked[w[1]] /\ w[1] \in ConReq THEN "setAck" ELSE "done")
  /\ UNCHANGED <<stopped, rx, mVars, wireVars, lVars, spawned, lock, tVars,
                 wpc, respVars, rVars>>

\* Mutant: the request is marked acknowledged, the datagram forgotten.
TimerOnlySetsAck(w) ==
  /\ TimerAt(w, "setAck", "done")
  /\ AckRequest(w[1])
  /\ UNCHANGED <<stopped, rx, mVars, wireVars, lVars, spawned, lock, cur,
                 stop, wpc, respVars, rVars>>

TimerSetsAck(w) ==
  /\ TimerAt(w, "setAck", "sendAck")
  /\ AckRequest(w[1])
  /\ UNCHANGED <<stopped, rx, mVars, wireVars, lVars, spawned, lock, cur,
                 stop, wpc, respVars, rVars>>

TimerSendsAck(w) ==
  /\ TimerAt(w, "sendAck", "done")
  /\ SendAck(w[1])
  /\ UNCHANGED <<stopped, rx, mVars, sentMids, lVars, spawned, lock, tVars,
                 wpc, respVars, rVars>>

-----------------------------------------------------------------------------
(* The retransmission thread: CoAP._retransmit. *)

Answered(w) == racked[w] \/ rrej[w]

\* Mutant: an acknowledgement does not end the retransmission.
UnansweredByRst(w) == ~rrej[w] /\ ~stopped

Unanswered(w) == ~Answered(w) /\ ~stopped

\* Mutant: one retransmission too many.
MayRetryOnceMore(w) == cnt[w] <= MaxRetransmit /\ Unanswered(w)

MayRetry(w) == cnt[w] < MaxRetransmit /\ Unanswered(w)

\* Mutant: the retransmissions are not counted.
CountNothing(w) == UNCHANGED cnt

CountRetry(w) == cnt' = [cnt EXCEPT ![w] = @ + 1]

DropEvent(r) == stop' = [stop EXCEPT ![r] = "none"]

RetransmitLock(w) ==
  /\ rpc[w] = "lock"
  /\ Acquire(w[1])
  /\ rpc' = [rpc EXCEPT ![w] = "while"]
  /\ UNCHANGED <<stopped, rx, mVars, wireVars, lVars, spawned, tVars, wpc,
                 timer, respVars, cnt, gaveUp, late>>

RetransmitWhile(w) ==
  /\ rpc[w] = "while"
  /\ rpc' = [rpc EXCEPT ![w] = IF MayRetry(w) THEN "wait" ELSE "end"]
  /\ UNCHANGED <<stopped, rx, mVars, wireVars, lVars, spawned, lock, tVars,
                 wpc, timer, respVars, cnt, gaveUp, late>>

\* The wait ends: the time is up, the event is set or there is no event.
RetransmitWakes(w) ==
  /\ rpc[w] = "wait"
  /\ IF Unanswered(w)
       THEN /\ CountRetry(w)
            /\ rpc' = [rpc EXCEPT ![w] = "send"]
       ELSE rpc' = [rpc EXCEPT ![w] = "while"] /\ UNCHANGED cnt
  /\ UNCHANGED <<stopped, rx, mVars, wireVars, lVars, spawned, lock, tVars,
                 wpc, timer, respVars, gaveUp, late>>

RetransmitSends(w) ==
  /\ rpc[w] = "send"
  /\ SendResponseDatagram(w)
  /\ late' = [late EXCEPT ![w] = IF Answered(w) /\ ~stopped THEN @ + 1 ELSE @]
  /\ rpc' = [rpc EXCEPT ![w] = "while"]
  /\ UNCHANGED <<stopped, rx, mVars, lVars, spawned, lock, tVars, wpc, timer,
                 respVars, cnt, gaveUp>>

\* Record the outcome.  The test comes before the setter, and what the setter
\* of timeouted clears comes after what it sets: an answer that arrives in
\* between is forgotten.
RetransmitTests(w) ==
  /\ rpc[w] = "end"
  /\ IF Answered(w)
       THEN /\ gaveUp' = [gaveUp EXCEPT ![w] = FALSE]
            /\ rpc' = [rpc EXCEPT ![w] = "drop"]
       ELSE rpc' = [rpc EXCEPT ![w] = "giveUp"] /\ UNCHANGED gaveUp
  /\ UNCHANGED <<stopped, rx, mVars, wireVars, lVars, spawned, lock, tVars,
                 wpc, timer, respVars, cnt, late>>

RetransmitGivesUp(w) ==
  /\ rpc[w] = "giveUp"
  /\ gaveUp' = [gaveUp EXCEPT ![w] = TRUE]
  /\ rpc' = [rpc EXCEPT ![w] = "forget"]
  /\ UNCHANGED <<stopped, rx, mVars, wireVars, lVars, spawned, lock, tVars,
                 wpc, timer, respVars, cnt, late>>

RetransmitForgets(w) ==
  /\ rpc[w] = "forget"
  /\ racked' = [racked EXCEPT ![w] = FALSE]
  /\ rrej' = [rrej EXCEPT ![w] = FALSE]
  /\ rpc' = [rpc EXCEPT ![w] = "drop"]
  /\ UNCHANGED <<stopped, rx, mVars, wireVars, lVars, spawned, lock, tVars,
                 wpc, timer, rtype, rmid, wmid, cnt, gaveUp, late>>

\* Drop event and thread, release the lock.
RetransmitEnds(w) ==
  /\ rpc[w] = "drop"
  /\ DropEvent(w[1])
  /\ Release(w[1])
  /\ rpc' = [rpc EXCEPT ![w] = "done"]
  /\ UNCHANGED <<stopped, rx, mVars, wireVars, lVars, spawned, acked,
                 completed, cur, wpc, timer, respVars, cnt, gaveUp, late>>

-----------------------------------------------------------------------------
(* The specification. *)

ListenerInternal ==
  \/ DupIfCompleted \/ DupElifNotCompleted \/ DupFallThrough
  \/ DupResend \/ DupAck \/ DupSetAck \/ DupSendAck
  \/ EmptyIfStop \/ EmptySetStop \/ EmptyObserve \/ ListenerStops

Deliver ==
  \/ \E r \in Req : ListenNew(r) \/ ListenDuplicate(r)
  \/ ListenBadRequest
  \/ \E m \in Mid : \/ ListenAck(m)
                    \/ ListenRst(m)
                    \/ \E type \in {"CON", "NON"} : ListenOther(type, m)

HandlerEnds(w) == HandlerReturns(w) \/ HandlerRaises(w)

WorkerStep(w) ==
  \/ WorkerLock(w) \/ WorkerDispatch(w) \/ WorkerUnknownMethod(w)
  \/ SeparateSetAck(w) \/ SeparateSendAck(w)
  \/ WorkerStopTimer(w) \/ WorkerDecide(w) \/ WorkerPiggyback(w)
  \/ WorkerFetchMid(w) \/ WorkerRegister(w) \/ WorkerStartRetransmission(w)
  \/ WorkerSend(w)

TimerStep(w) ==
  TimerFires(w) \/ TimerTests(w) \/ TimerSetsAck(w) \/ TimerSendsAck(w)

RetransmitStep(w) ==
  \/ RetransmitLock(w) \/ RetransmitWhile(w) \/ RetransmitWakes(w)
  \/ RetransmitSends(w) \/ RetransmitTests(w) \/ RetransmitGivesUp(w)
  \/ RetransmitForgets(w) \/ RetransmitEnds(w)

\* Every thread has ended or waits for a datagram that will not come.
Quiet ==
  /\ lpc \in {"dead", "closed"} \/ (lpc = "recv" /\ ~stopped /\ rx = MaxRx)
  /\ \A w \in Worker : /\ wpc[w] \in {"none", "done", "failed"}
                       /\ timer[w] \in {"none", "done"}
                       /\ rpc[w] \in {"none", "done"}
  /\ UNCHANGED vars

Next ==
  \/ Deliver
  \/ ListenerInternal
  \/ Close
  \/ \E w \in Worker : \/ WorkerStep(w) \/ HandlerSeparate(w)
                       \/ HandlerEnds(w) \/ TimerStep(w) \/ RetransmitStep(w)
  \/ Quiet

Spec == Init /\ [][Next]_vars

\* Every thread that can run eventually runs; a handler may run forever.
ThreadFairness ==
  /\ WF_vars(ListenerInternal)
  /\ \A w \in Worker : /\ WF_vars(WorkerStep(w))
                       /\ WF_vars(TimerStep(w))
                       /\ WF_vars(RetransmitStep(w))

FairSpec == Spec /\ ThreadFairness

\* No handler runs forever.
HandlersEnd == \A w \in Worker : []<>(wpc[w] \notin {"handler", "callback"})

-----------------------------------------------------------------------------
TypeOK ==
  /\ stopped \in BOOLEAN
  /\ rx \in 0 .. MaxRx
  /\ curMid \in Mid
  /\ tbl \in [Mid -> Req \cup {NoReq}]
  /\ sentMids \subseteq Mid
  /\ ackOut \in [Req -> BOOLEAN]
  /\ lpc \in {"recv", "ifCompleted", "elifNotCompleted", "resend", "ack",
              "setAck", "sendAck", "ifStop", "setStop", "lock", "dead",
              "closed"}
  /\ lreq \in Req \cup {NoReq}
  /\ lpc \notin {"recv", "dead", "closed"} => lreq \in Req
  /\ lrst \in BOOLEAN
  /\ spawned \in [Req -> 0 .. MaxWorkers]
  /\ lock \in [Req -> BOOLEAN]
  /\ acked \in [Req -> BOOLEAN]
  /\ completed \in [Req -> BOOLEAN]
  /\ cur \in [Req -> 0 .. MaxWorkers]
  /\ stop \in [Req -> {"none", "clear", "set"}]
  /\ wpc \in [Worker -> {"none", "lock", "dispatch", "handler", "callback",
                         "separate", "sendAck", "stopTimer", "decide",
                         "piggyback", "fetchMid", "register",
                         "retransmission", "send", "done", "failed"}]
  /\ timer \in [Worker -> {"none", "armed", "fired", "setAck", "sendAck",
                           "done"}]
  /\ rtype \in [Worker -> {"none", "ACK", "CON", "NON"}]
  /\ rmid \in [Worker -> Mid \cup {NoMid}]
  /\ wmid \in [Worker -> Mid \cup {NoMid}]
  /\ racked \in [Worker -> BOOLEAN]
  /\ rrej \in [Worker -> BOOLEAN]
  /\ rpc \in [Worker -> {"none", "lock", "while", "wait", "send", "end",
                         "giveUp", "forget", "drop", "done"}]
  /\ cnt \in [Worker -> 0 .. MaxRetransmit]
  /\ gaveUp \in [Worker -> BOOLEAN]
  /\ late \in [Worker -> Nat]

-----------------------------------------------------------------------------
(* The threads of a transaction. *)

WorkerInside(w) == wpc[w] \notin {"none", "lock", "done", "failed"}
RetransmitInside(w) ==
  rpc[w] \in {"while", "wait", "send", "end", "giveUp", "forget", "drop"}

(***************************************************************************)
(* At most one worker or retransmission thread of a transaction is inside  *)
(* its lock, on every path, a handler that raises and a retransmission     *)
(* that gives up included; and the lock is never left held behind a thread *)
(* that has ended.                                                         *)
(***************************************************************************)
LockDiscipline ==
  \A r \in Req :
    LET inside == {w \in Worker : w[1] = r /\ WorkerInside(w)}
        resending == {w \in Worker : w[1] = r /\ RetransmitInside(w)}
    IN  /\ lock[r] <=> (inside \cup resending # {})
        /\ \A v, w \in inside \cup resending : v = w
        /\ inside \cap resending = {}

(***************************************************************************)
(* However often a request is delivered and whatever the interleaving, its *)
(* handler runs at most twice: the gap between the listener's two tests of *)
(* transaction.completed can be hit only once.                             *)
(***************************************************************************)
AtMostTwoExecutions ==
  \A r \in Req : spawned[r] <= 2 /\ (spawned[r] = 2 => completed[r])

\* A request's handler is called at most once: what the duplicate detection
\* of receive_request and listen is for.
Executed(w) == wpc[w] \notin {"none", "lock", "dispatch"}

AtMostOneExecution ==
  \A v, w \in Worker : Executed(v) /\ Executed(w) /\ v[1] = w[1] => v = w

(***************************************************************************)
(* A confirmable request is answered with a confirmable response of its    *)
(* own only when an ACK for it has left the server, or is about to: the    *)
(* thread that marked the request acknowledged has not sent the ACK yet.   *)
(***************************************************************************)
AckUnderWay(r) ==
  \/ ackOut[r]
  \/ stopped
  \/ lpc = "sendAck" /\ lreq = r
  \/ \E w \in Worker : /\ w[1] = r
                       /\ \/ timer[w] = "sendAck"
                          \/ wpc[w] = "sendAck"
                          \/ wpc[w] = "send" /\ rtype[w] = "ACK"

SeparateOnlyAfterAck ==
  \A w \in Worker : rtype[w] = "CON" => AckUnderWay(w[1])

(***************************************************************************)
(* An answer of the peer stops the retransmissions: at most the one copy   *)
(* that had passed the test when the answer arrived still leaves.          *)
(***************************************************************************)
AtMostOneLateCopy == \A w \in Worker : late[w] <= 1

(***************************************************************************)
(* A response is given up only after MAX_RETRANSMIT retransmissions, or    *)
(* because the server was closed.                                          *)
(***************************************************************************)
GiveUpOnlyWhenExhausted ==
  \A w \in Worker : gaveUp[w] => cnt[w] = MaxRetransmit \/ stopped

(***************************************************************************)
(* As long as a request was executed once, its transaction has a           *)
(* retransmission event exactly while its retransmission thread lives, so  *)
(* that the listener has something to wake the thread with.                *)
(***************************************************************************)
EventWhileRetransmitting ==
  \A r \in Req :
    spawned[r] = 1 =>
      (stop[r] # "none" <=> rpc[<<r, 1>>] \notin {"none", "done"})

\* What the retransmission thread of a response may do: it stops for an answer,
\* it does not stop without a reason, and the listener can wake it.
RetransmissionIsSound ==
  AtMostOneLateCopy /\ GiveUpOnlyWhenExhausted /\ EventWhileRetransmitting

\* listen returns only when the server was stopped.
ListenerSurvives == lpc # "dead"

\* No two responses that wait for an answer have the same message id.
FreshMids ==
  \A v, w \in Worker :
    v # w /\ rpc[v] \notin {"none", "done"} /\ rpc[w] \notin {"none", "done"}
      => rmid[v] # rmid[w]

(***************************************************************************)
(* A confirmable request that was taken up is acknowledged, by its         *)
(* response or by an empty ACK, even if its handler never returns or       *)
(* raises (unless the server is closed first).                             *)
(***************************************************************************)
EventuallyAcked ==
  \A r \in ConReq : (spawned[r] > 0) ~> (ackOut[r] \/ stopped)

(***************************************************************************)
(* If handlers end, no thread of a transaction runs or waits forever: its  *)
(* workers end, its retransmissions end, and the lock is free in the end.  *)
(***************************************************************************)
ThreadsEnd ==
  \A w \in Worker :
    /\ wpc[w] = "lock" ~> wpc[w] \in {"done", "failed"}
    /\ rpc[w] = "lock" ~> rpc[w] = "done"

(***************************************************************************)
(* If handlers end, the listener gets back to its socket from wherever it  *)
(* waits for the lock of a transaction or acknowledges a duplicate; where  *)
(* an exception may end it, ListenerSurvives is the question.              *)
(***************************************************************************)
ListenerReturns == HandlersEnd =>
  lpc \in {"elifNotCompleted", "ack", "setAck", "sendAck", "lock"} ~> lpc = "recv"

=============================================================================
