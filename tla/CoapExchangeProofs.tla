------------------------- MODULE CoapExchangeProofs -------------------------
(***************************************************************************)
(* Proofs about CoapExchange, for any number of requests, message ids,     *)
(* retransmissions and datagrams.                                          *)
(***************************************************************************)
EXTENDS CoapExchange, TLAPS

(***************************************************************************)
(* What makes the types inductive: a response that is sent has an id, and  *)
(* a retransmission that waits has one left.                               *)
(***************************************************************************)
Addressed ==
  \A w \in Worker :
    /\ wpc[w] = "register" => wmid[w] # NoMid
    /\ wpc[w] \in {"retransmission", "send"} => rmid[w] # NoMid
    /\ rpc[w] # "none" => rmid[w] # NoMid

RetriesLeft == \A w \in Worker : rpc[w] = "wait" => cnt[w] < MaxRetransmit

TypeInv == TypeOK /\ Addressed /\ RetriesLeft

LEMMA NextMidType == ASSUME NEW m \in Mid PROVE NextMid(m) \in Mid
  BY ExchangeAssumption DEF Mid, NextMid

LEMMA NoMidIsNoMid == NoMid \notin Mid
  BY ExchangeAssumption DEF Mid, NoMid

LEMMA InitTypeInv == Init => TypeInv
  <1> SUFFICES ASSUME Init PROVE TypeInv
    OBVIOUS
  <1>1. TypeOK
    <2>1. curMid \in Mid /\ rx \in 0 .. MaxRx
      BY ExchangeAssumption DEF Init
    <2>2. 0 \in 0 .. MaxWorkers /\ 0 \in 0 .. MaxRetransmit
      BY ExchangeAssumption
    <2> QED
      BY <2>1, <2>2 DEF Init, TypeOK
  <1>2. Addressed /\ RetriesLeft
    BY DEF Init, Addressed, RetriesLeft
  <1> QED
    BY <1>1, <1>2 DEF TypeInv

LEMMA StartWorkerType ==
  ASSUME TypeOK, NEW r \in Req, StartWorker(r)
  PROVE  /\ spawned[r] + 1 \in 1 .. MaxWorkers
         /\ <<r, spawned[r] + 1>> \in Worker
         /\ spawned' \in [Req -> 0 .. MaxWorkers]
  <1>1. spawned[r] \in 0 .. MaxWorkers /\ spawned[r] < MaxWorkers
    BY DEF TypeOK, StartWorker
  <1>2. spawned[r] + 1 \in 1 .. MaxWorkers
    BY <1>1, ExchangeAssumption
  <1> QED
    BY <1>2, ExchangeAssumption DEF TypeOK, StartWorker, Worker

LEMMA SendResponseType ==
  ASSUME TypeOK, NEW w \in Worker, SendResponseDatagram(w)
  PROVE  sentMids' \subseteq Mid /\ ackOut' \in [Req -> BOOLEAN]
  <1>1. w[1] \in Req /\ rmid[w] \in Mid \cup {NoMid}
    BY DEF TypeOK, Worker
  <1>2. CASE rmid[w] = NoMid
    BY <1>2 DEF SendResponseDatagram, wireVars, TypeOK
  <1>3. CASE rmid[w] # NoMid /\ rtype[w] = "ACK"
    BY <1>1, <1>3 DEF SendResponseDatagram, SendAck, TypeOK
  <1>4. CASE rmid[w] # NoMid /\ rtype[w] # "ACK"
    BY <1>1, <1>4 DEF SendResponseDatagram, TypeOK
  <1> QED
    BY <1>2, <1>3, <1>4

LEMMA SettersType ==
  ASSUME TypeOK, \/ \E w : SetAcknowledged(w) \/ SetRejected(w)
                 \/ UNCHANGED <<racked, rrej, gaveUp>>
  PROVE  /\ racked' \in [Worker -> BOOLEAN]
         /\ rrej' \in [Worker -> BOOLEAN]
         /\ gaveUp' \in [Worker -> BOOLEAN]
  BY DEF SetAcknowledged, SetRejected, TypeOK

LEMMA ListenerTypeInv ==
  TypeInv /\ (Deliver \/ ListenerInternal \/ Close) => TypeInv'
  <1> SUFFICES ASSUME TypeInv, Deliver \/ ListenerInternal \/ Close
               PROVE  TypeInv'
    OBVIOUS
  <1> USE DEF TypeInv, TypeOK, Addressed, RetriesLeft, Receiving,
              mVars, wireVars, lVars, tVars, respVars, rVars
  <1>1. ASSUME NEW r \in Req, ListenNew(r) PROVE TypeInv'
    <2>1. rx' \in 0 .. MaxRx /\ tbl' \in [Mid -> Req \cup {NoReq}]
      BY <1>1, ExchangeAssumption DEF ListenNew
    <2>2. StartWorker(r)
      BY <1>1 DEF ListenNew
    <2>3. /\ wpc' = [wpc EXCEPT ![<<r, spawned[r] + 1>>] = "lock"]
          /\ <<r, spawned[r] + 1>> \in Worker
          /\ spawned' \in [Req -> 0 .. MaxWorkers]
      BY <2>2, StartWorkerType DEF StartWorker
    <2> QED
      BY <1>1, <2>1, <2>3 DEF ListenNew
  <1>2. ASSUME NEW r \in Req, ListenDuplicate(r) PROVE TypeInv'
    BY <1>2, ExchangeAssumption DEF ListenDuplicate, Known
  <1>3. ASSUME NEW m \in Mid, ListenAck(m) PROVE TypeInv'
    <2>1. rx' \in 0 .. MaxRx /\ tbl[m] \in Req
      BY <1>3, ExchangeAssumption DEF ListenAck, MayReceiveEmpty
    <2>2. /\ acked' \in [Req -> BOOLEAN]
          /\ racked' \in [Worker -> BOOLEAN]
          /\ rrej' \in [Worker -> BOOLEAN]
          /\ gaveUp' \in [Worker -> BOOLEAN]
      BY <1>3, <2>1, SettersType DEF ListenAck
    <2> QED
      BY <1>3, <2>1, <2>2 DEF ListenAck, MayReceiveEmpty
  <1>4. ASSUME NEW m \in Mid, ListenRst(m) PROVE TypeInv'
    <2>1. rx' \in 0 .. MaxRx /\ tbl[m] \in Req
      BY <1>4, ExchangeAssumption DEF ListenRst, MayReceiveEmpty
    <2>2. /\ racked' \in [Worker -> BOOLEAN]
          /\ rrej' \in [Worker -> BOOLEAN]
          /\ gaveUp' \in [Worker -> BOOLEAN]
          /\ lpc' \in {"dead", "ifStop"}
      BY <1>4, <2>1, SettersType DEF ListenRst
    <2> QED
      BY <1>4, <2>1, <2>2 DEF ListenRst, MayReceiveEmpty
  <1>5. ASSUME NEW m \in Mid, NEW type \in {"CON", "NON"}, ListenOther(type, m)
        PROVE  TypeInv'
    BY <1>5, ExchangeAssumption DEF ListenOther, MayReceiveEmpty
  <1>6. CASE DupIfCompleted
    BY <1>6 DEF DupIfCompleted
  <1>7. CASE DupElifNotCompleted
    BY <1>7 DEF DupElifNotCompleted
  <1>8. CASE DupFallThrough
    <2>1. lreq \in Req /\ StartWorker(lreq)
      BY <1>8 DEF DupFallThrough
    <2>2. /\ wpc' = [wpc EXCEPT ![<<lreq, spawned[lreq] + 1>>] = "lock"]
          /\ <<lreq, spawned[lreq] + 1>> \in Worker
          /\ spawned' \in [Req -> 0 .. MaxWorkers]
      BY <2>1, StartWorkerType DEF StartWorker
    <2> QED
      BY <1>8, <2>2 DEF DupFallThrough
  <1>9. CASE DupResend
    <2> DEFINE w == <<lreq, cur[lreq]>>
    <2>1. UNCHANGED wireVars \/ (cur[lreq] # 0 /\ SendResponseDatagram(w))
      BY <1>9 DEF DupResend
    <2>2. cur[lreq] # 0 => w \in Worker
      BY <1>9, ExchangeAssumption DEF DupResend, Worker
    <2>3. sentMids' \subseteq Mid /\ ackOut' \in [Req -> BOOLEAN]
      <3>1. CASE UNCHANGED wireVars
        BY <3>1
      <3>2. CASE w \in Worker /\ SendResponseDatagram(w)
        BY <3>2, SendResponseType
      <3> QED
        BY <2>1, <2>2, <3>1, <3>2
    <2>4. lpc' \in {"recv", "dead"}
      BY <1>9 DEF DupResend
    <2> QED
      BY <1>9, <2>3, <2>4 DEF DupResend
  <1>10. CASE DupAck
    BY <1>10 DEF DupAck
  <1>11. CASE DupSetAck
    BY <1>11 DEF DupSetAck, AckRequest
  <1>12. CASE DupSendAck
    BY <1>12 DEF DupSendAck, SendAck
  <1>13. CASE EmptyIfStop
    BY <1>13 DEF EmptyIfStop
  <1>14. CASE EmptySetStop
    BY <1>14 DEF EmptySetStop
  <1>15. CASE EmptyObserve
    BY <1>15 DEF EmptyObserve
  <1>16. CASE ListenerStops
    BY <1>16 DEF ListenerStops
  <1>17. CASE Close
    BY <1>17 DEF Close
  <1>18. CASE ListenBadRequest
    BY <1>18, NextMidType, ExchangeAssumption DEF ListenBadRequest
  <1> QED
    BY <1>1, <1>2, <1>3, <1>4, <1>5, <1>6, <1>7, <1>8, <1>9, <1>10, <1>11,
       <1>12, <1>13, <1>14, <1>15, <1>16, <1>17, <1>18
       DEF Deliver, ListenerInternal

LEMMA WorkerTypeInv ==
  ASSUME TypeInv, NEW w \in Worker,
         WorkerStep(w) \/ HandlerSeparate(w) \/ HandlerEnds(w)
  PROVE  TypeInv'
  <1> USE DEF TypeInv, TypeOK, Addressed, RetriesLeft, WorkerAt, WorkerGoto,
              mVars, wireVars, lVars, tVars, respVars, rVars
  <1>0. w[1] \in Req /\ w[2] \in 1 .. MaxWorkers
    BY DEF Worker
  <1>1. CASE WorkerLock(w)
    BY <1>0, <1>1 DEF WorkerLock, Acquire
  <1>2. CASE WorkerDispatch(w)
    BY <1>0, <1>2, ExchangeAssumption DEF WorkerDispatch
  <1>3. CASE HandlerReturns(w)
    BY <1>0, <1>3 DEF HandlerReturns
  <1>4. CASE HandlerRaises(w)
    BY <1>0, <1>4 DEF HandlerRaises, Release
  <1>5. CASE HandlerSeparate(w)
    BY <1>0, <1>5 DEF HandlerSeparate
  <1>6. CASE SeparateSetAck(w)
    <2>1. /\ acked' = [acked EXCEPT ![w[1]] = TRUE]
          /\ completed' = completed
               \/ completed' = [completed EXCEPT ![w[1]] = TRUE]
          /\ \E to \in {"sendAck", "callback"} :
               wpc' = [wpc EXCEPT ![w] = to]
      BY <1>6 DEF SeparateSetAck, AckRequest
    <2>2. /\ acked' \in [Req -> BOOLEAN]
          /\ completed' \in [Req -> BOOLEAN]
      BY <1>0, <2>1
    <2> QED
      BY <1>0, <1>6, <2>1, <2>2, SMTT(30) DEF SeparateSetAck
  <1>7. CASE SeparateSendAck(w)
    BY <1>0, <1>7 DEF SeparateSendAck, SendAck
  <1>8. CASE WorkerStopTimer(w)
    BY <1>0, <1>8 DEF WorkerStopTimer
  <1>9. CASE WorkerDecide(w)
    BY <1>0, <1>9 DEF WorkerDecide
  <1>10. CASE WorkerPiggyback(w)
    <2>1. ReqMid[w[1]] \in Mid /\ ReqMid[w[1]] # NoMid
      BY <1>0, ExchangeAssumption, NoMidIsNoMid
    <2> QED
      BY <1>0, <1>10, <2>1 DEF WorkerPiggyback, AckRequest, SetAcknowledged
  <1>11. CASE WorkerFetchMid(w)
    BY <1>0, <1>11, NoMidIsNoMid DEF WorkerFetchMid
  <1>12. CASE WorkerRegister(w)
    BY <1>0, <1>12, NextMidType DEF WorkerRegister
  <1>13. CASE WorkerStartRetransmission(w)
    BY <1>0, <1>13 DEF WorkerStartRetransmission
  <1>14. CASE WorkerSend(w)
    <2>1. sentMids' \subseteq Mid /\ ackOut' \in [Req -> BOOLEAN]
      BY <1>14, SendResponseType DEF WorkerSend
    <2> QED
      BY <1>0, <1>14, <2>1 DEF WorkerSend, Release
  <1>15. CASE WorkerUnknownMethod(w)
    BY <1>0, <1>15, ExchangeAssumption DEF WorkerUnknownMethod, Release
  <1> QED
    BY <1>1, <1>2, <1>3, <1>4, <1>5, <1>6, <1>7, <1>8, <1>9, <1>10, <1>11,
       <1>12, <1>13, <1>14, <1>15 DEF WorkerStep, HandlerEnds

LEMMA TimerTypeInv ==
  ASSUME TypeInv, NEW w \in Worker, TimerStep(w)
  PROVE  TypeInv'
  <1> USE DEF TypeInv, TypeOK, Addressed, RetriesLeft, TimerAt,
              mVars, wireVars, lVars, tVars, respVars, rVars
  <1>0. w[1] \in Req
    BY DEF Worker
  <1>1. CASE TimerFires(w)
    BY <1>0, <1>1 DEF TimerFires
  <1>2. CASE TimerTests(w)
    BY <1>0, <1>2 DEF TimerTests
  <1>3. CASE TimerSetsAck(w)
    BY <1>0, <1>3 DEF TimerSetsAck, AckRequest
  <1>4. CASE TimerSendsAck(w)
    BY <1>0, <1>4 DEF TimerSendsAck, SendAck
  <1> QED
    BY <1>1, <1>2, <1>3, <1>4 DEF TimerStep

LEMMA RetransmitTypeInv ==
  ASSUME TypeInv, NEW w \in Worker, RetransmitStep(w)
  PROVE  TypeInv'
  <1> USE DEF TypeInv, TypeOK, Addressed, RetriesLeft,
              mVars, wireVars, lVars, tVars, respVars, rVars
  <1>0. w[1] \in Req
    BY DEF Worker
  <1>1. CASE RetransmitLock(w)
    BY <1>0, <1>1 DEF RetransmitLock, Acquire
  <1>2. CASE RetransmitWhile(w)
    BY <1>0, <1>2 DEF RetransmitWhile, MayRetry
  <1>3. CASE RetransmitWakes(w)
    <2>1. cnt[w] \in 0 .. MaxRetransmit /\ cnt[w] < MaxRetransmit
      BY <1>3 DEF RetransmitWakes
    <2>2. cnt[w] + 1 \in 0 .. MaxRetransmit
      BY <2>1, ExchangeAssumption
    <2>3. CASE Unanswered(w)
      BY <1>3, <2>2, <2>3 DEF RetransmitWakes, CountRetry
    <2>4. CASE ~Unanswered(w)
      BY <1>3, <2>4 DEF RetransmitWakes
    <2> QED
      BY <2>3, <2>4
  <1>4. CASE RetransmitSends(w)
    <2>1. sentMids' \subseteq Mid /\ ackOut' \in [Req -> BOOLEAN]
      BY <1>4, SendResponseType DEF RetransmitSends
    <2>2. late' \in [Worker -> Nat]
      BY <1>4 DEF RetransmitSends
    <2> QED
      BY <1>4, <2>1, <2>2 DEF RetransmitSends
  <1>5. CASE RetransmitEnds(w)
    BY <1>0, <1>5 DEF RetransmitEnds, DropEvent, Release
  <1>6. CASE RetransmitTests(w)
    <2>1. /\ \E to \in {"drop", "giveUp"} : rpc' = [rpc EXCEPT ![w] = to]
          /\ gaveUp' = gaveUp \/ gaveUp' = [gaveUp EXCEPT ![w] = FALSE]
          /\ rpc[w] = "end"
      BY <1>6 DEF RetransmitTests
    <2>2. TypeOK'
      <3>1. gaveUp' \in [Worker -> BOOLEAN]
        BY <2>1
      <3>2. PICK to \in {"drop", "giveUp"} : rpc' = [rpc EXCEPT ![w] = to]
        BY <2>1
      <3> QED
        BY <1>6, <3>1, <3>2 DEF RetransmitTests
    <2>3. Addressed' /\ RetriesLeft'
      BY <1>6, <2>1 DEF RetransmitTests
    <2> QED
      BY <2>2, <2>3
  <1>7. CASE RetransmitGivesUp(w)
    BY <1>0, <1>7 DEF RetransmitGivesUp
  <1>8. CASE RetransmitForgets(w)
    BY <1>0, <1>8 DEF RetransmitForgets
  <1> QED
    BY <1>1, <1>2, <1>3, <1>4, <1>5, <1>6, <1>7, <1>8 DEF RetransmitStep

(***************************************************************************)
(* Type correctness of the server's exchange state.                        *)
(***************************************************************************)
LEMMA StepTypeInv == TypeInv /\ [Next]_vars => TypeInv'
  <1> SUFFICES ASSUME TypeInv, [Next]_vars PROVE TypeInv'
    OBVIOUS
  <1>1. CASE UNCHANGED vars
    BY <1>1 DEF vars, TypeInv, TypeOK, Addressed, RetriesLeft, mVars,
                wireVars, lVars, tVars, respVars, rVars
  <1>2. CASE Quiet
    BY <1>1, <1>2 DEF Quiet
  <1> QED
    BY <1>1, <1>2, ListenerTypeInv, WorkerTypeInv, TimerTypeInv,
       RetransmitTypeInv DEF Next

\* A worker never registers or sends a response without an id, and a
\* retransmission that waits has copies left.
THEOREM TypeInvariant == Spec => []TypeInv
  BY InitTypeInv, StepTypeInv, PTL DEF Spec

\* Every variable of the server's exchanges keeps its type: the listener has a
\* transaction in hand whenever it is past its socket, the retransmissions of
\* _retransmit stay within MAX_RETRANSMIT and fetch_mid within the id space.
THEOREM TypeCorrect == Spec => []TypeOK
  <1>1. TypeInv => TypeOK
    BY DEF TypeInv
  <1> QED
    BY <1>1, TypeInvariant, PTL

-----------------------------------------------------------------------------
(***************************************************************************)
(* Executions.  The listener starts a second worker only from between its  *)
(* two tests of completed; there the transaction was still incomplete at   *)
(* the first test, so it had one worker, and it is complete at the second, *)
(* so it will never pass the first test that way again.                    *)
(***************************************************************************)
ExecutionInv ==
  /\ AtMostTwoExecutions
  /\ \A r \in Req : spawned[r] > 0 => Known(r)
  /\ \A m \in Mid : tbl[m] # NoReq => spawned[tbl[m]] > 0
  /\ \A w \in Worker : wpc[w] # "none" => w[2] <= spawned[w[1]]
  /\ lpc = "ifCompleted" => spawned[lreq] > 0
  /\ lpc = "elifNotCompleted" => spawned[lreq] = 1

\* What every step of a thread and most steps of the listener do to
\* the variables of ExecutionInv.
ExecutionFrame ==
  /\ spawned' = spawned
  /\ lpc' \in {"ifCompleted", "elifNotCompleted"} => lpc' = lpc /\ lreq' = lreq
  /\ \A r \in Req : completed[r] => completed'[r]
  /\ \A w \in Worker : wpc'[w] # "none" => wpc[w] # "none"
  /\ \A m \in Mid : \/ tbl'[m] = tbl[m]
                     \/ \E w \in Worker : wpc[w] # "none" /\ tbl'[m] = w[1]

LEMMA FrameKeepsExecutionInv ==
  TypeInv /\ ExecutionInv /\ ExecutionFrame => ExecutionInv'
  <1> SUFFICES ASSUME TypeInv, ExecutionInv, ExecutionFrame
               PROVE  ExecutionInv'
    OBVIOUS
  <1> USE DEF TypeInv, TypeOK, ExecutionInv, ExecutionFrame
  <1>1. AtMostTwoExecutions'
    BY DEF AtMostTwoExecutions
  <1>2. ASSUME NEW m \in Mid
        PROVE  /\ tbl[m] # NoReq => tbl'[m] # NoReq
               /\ tbl'[m] # NoReq => spawned[tbl'[m]] > 0
    <2>1. CASE tbl'[m] = tbl[m]
      BY <2>1
    <2>2. ASSUME NEW w \in Worker, wpc[w] # "none", tbl'[m] = w[1]
          PROVE  tbl'[m] # NoReq /\ spawned[tbl'[m]] > 0
      <3>1. w[1] \in Req /\ w[2] \in 1 .. MaxWorkers /\ w[2] <= spawned[w[1]]
        BY <2>2 DEF Worker
      <3>2. spawned[w[1]] \in 0 .. MaxWorkers
        BY <3>1
      <3> QED
        BY <2>2, <3>1, <3>2, ExchangeAssumption
    <2> QED
      BY <2>1, <2>2
  <1>3. \A r \in Req : Known(r) => Known(r)'
    BY <1>2, ExchangeAssumption DEF Known
  <1> QED
    BY <1>1, <1>2, <1>3

LEMMA ListenerExecutionFrame ==
  ASSUME TypeInv, Deliver \/ ListenerInternal \/ Close
  PROVE  \/ \E r \in Req : ListenNew(r)
         \/ \E r \in Req : ListenDuplicate(r)
         \/ DupFallThrough \/ DupIfCompleted
         \/ ExecutionFrame
  <1> USE DEF TypeInv, TypeOK, ExecutionFrame, mVars, lVars, tVars
  <1>2. ASSUME NEW m \in Mid, ListenAck(m) PROVE ExecutionFrame
    BY <1>2 DEF ListenAck
  <1>3. ASSUME NEW m \in Mid, ListenRst(m) PROVE ExecutionFrame
    BY <1>3 DEF ListenRst
  <1>4. ASSUME NEW m \in Mid, NEW type \in {"CON", "NON"}, ListenOther(type, m)
        PROVE  ExecutionFrame
    BY <1>4 DEF ListenOther
  <1>5. CASE DupElifNotCompleted \/ DupAck \/ DupSendAck \/ ListenerStops
    BY <1>5 DEF DupElifNotCompleted, DupAck, DupSendAck, ListenerStops
  <1>6. CASE DupResend
    BY <1>6 DEF DupResend
  <1>7. CASE DupSetAck
    BY <1>7 DEF DupSetAck, AckRequest
  <1>8. CASE EmptyIfStop \/ EmptySetStop
    BY <1>8 DEF EmptyIfStop, EmptySetStop
  <1>9. CASE EmptyObserve
    BY <1>9 DEF EmptyObserve
  <1>10. CASE Close
    BY <1>10 DEF Close
  <1>11. CASE ListenBadRequest
    BY <1>11 DEF ListenBadRequest
  <1> QED
    BY <1>2, <1>3, <1>4, <1>5, <1>6, <1>7, <1>8, <1>9, <1>10, <1>11
       DEF Deliver, ListenerInternal

LEMMA ThreadExecutionFrame ==
  ASSUME TypeInv, NEW w \in Worker,
         \/ WorkerStep(w) \/ HandlerSeparate(w) \/ HandlerEnds(w)
         \/ TimerStep(w) \/ RetransmitStep(w)
  PROVE  ExecutionFrame
  <1> USE DEF TypeInv, TypeOK, ExecutionFrame, mVars, lVars, tVars, AckRequest,
              WorkerAt, WorkerGoto
  <1>0. w[1] \in Req
    BY DEF Worker
  <1>1. CASE WorkerRegister(w)
    <2>1. /\ wpc[w] # "none"
          /\ \A m \in Mid : tbl'[m] = tbl[m] \/ tbl'[m] = w[1]
      BY <1>0, <1>1 DEF WorkerRegister
    <2> QED
      BY <1>1, <2>1 DEF WorkerRegister
  <1>2. CASE SeparateSetAck(w) \/ WorkerPiggyback(w) \/ TimerSetsAck(w)
    BY <1>0, <1>2 DEF SeparateSetAck, WorkerPiggyback, TimerSetsAck
  <1>3. CASE \/ WorkerLock(w) \/ WorkerDispatch(w) \/ SeparateSendAck(w)
             \/ WorkerStopTimer(w) \/ WorkerDecide(w) \/ WorkerFetchMid(w)
             \/ WorkerStartRetransmission(w) \/ WorkerSend(w)
             \/ WorkerUnknownMethod(w) \/ HandlerSeparate(w) \/ HandlerEnds(w)
    BY <1>3
       DEF WorkerLock, WorkerDispatch, WorkerUnknownMethod, SeparateSendAck, WorkerStopTimer,
           WorkerDecide, WorkerFetchMid, WorkerStartRetransmission,
           WorkerSend, HandlerSeparate, HandlerEnds, HandlerReturns,
           HandlerRaises
  <1>4. CASE TimerFires(w) \/ TimerTests(w) \/ TimerSendsAck(w)
    BY <1>4 DEF TimerFires, TimerTests, TimerSendsAck
  <1>5. CASE RetransmitStep(w)
    BY <1>5 DEF RetransmitStep, RetransmitLock, RetransmitWhile,
                RetransmitWakes, RetransmitSends, RetransmitTests,
                RetransmitGivesUp, RetransmitForgets, RetransmitEnds
  <1> QED
    BY <1>1, <1>2, <1>3, <1>4, <1>5 DEF WorkerStep, TimerStep

LEMMA StepExecutionInv == TypeInv /\ ExecutionInv /\ [Next]_vars => ExecutionInv'
  <1> SUFFICES ASSUME TypeInv, ExecutionInv, [Next]_vars PROVE ExecutionInv'
    OBVIOUS
  <1> USE DEF TypeInv, TypeOK
  <1>1. ASSUME NEW r \in Req, ListenNew(r) PROVE ExecutionInv'
    <2>1. spawned[r] = 0
      BY <1>1 DEF ListenNew, ExecutionInv
    <2>2. /\ spawned' = [spawned EXCEPT ![r] = 1]
          /\ wpc' = [wpc EXCEPT ![<<r, 1>>] = "lock"]
          /\ tbl' = [tbl EXCEPT ![ReqMid[r]] = r]
          /\ completed' = completed
          /\ lpc' = "recv"
      BY <1>1, <2>1 DEF ListenNew, StartWorker, Receiving, tVars, lVars
    <2>3. \A q \in Req : Known(q) \/ q = r => Known(q)'
      <3>1. \A m \in Mid : tbl'[m] = IF m = ReqMid[r] THEN r ELSE tbl[m]
        BY <2>2
      <3>2. \A q \in Req : ReqMid[q] \in Mid /\ r # NoReq
        BY ExchangeAssumption
      <3> SUFFICES ASSUME NEW q \in Req, Known(q) \/ q = r PROVE Known(q)'
        OBVIOUS
      <3>3. tbl'[ReqMid[q]] = IF ReqMid[q] = ReqMid[r] THEN r ELSE tbl[ReqMid[q]]
        BY <3>1, <3>2
      <3>4. Known(q)' <=> tbl'[ReqMid[q]] # NoReq
        BY DEF Known
      <3>5. ReqMid[q] # ReqMid[r] => tbl[ReqMid[q]] # NoReq
        BY DEF Known
      <3> QED
        BY <3>2, <3>3, <3>4, <3>5
    <2>4. \A w \in Worker : wpc'[w] # "none" => w[2] <= spawned'[w[1]]
      <3> TAKE w \in Worker
      <3>1. w[1] \in Req /\ w[2] \in 1 .. MaxWorkers /\ w = <<w[1], w[2]>>
        BY DEF Worker
      <3>2. CASE w = <<r, 1>>
        <4>1. w[1] = r /\ w[2] = 1
          BY <3>2
        <4>2. spawned'[r] = 1
          BY <2>2
        <4> QED
          BY <4>1, <4>2
      <3>3. CASE w # <<r, 1>>
        <4>1. wpc'[w] = wpc[w]
          BY <2>2, <3>3
        <4> QED
          BY <2>1, <2>2, <3>1, <4>1 DEF ExecutionInv
      <3> QED
        BY <3>2, <3>3
    <2>5. \A m \in Mid : tbl'[m] # NoReq => spawned'[tbl'[m]] > 0
      BY <2>2, ExchangeAssumption DEF ExecutionInv
    <2> QED
      BY <2>1, <2>2, <2>3, <2>4, <2>5 DEF ExecutionInv, AtMostTwoExecutions
  <1>2. CASE DupFallThrough
    <2>1. /\ spawned' = [spawned EXCEPT ![lreq] = 2]
          /\ wpc' = [wpc EXCEPT ![<<lreq, 2>>] = "lock"]
          /\ spawned[lreq] = 1
          /\ completed' = completed /\ completed[lreq]
          /\ lreq \in Req
          /\ tbl' = tbl /\ lpc' = "recv"
      BY <1>2 DEF DupFallThrough, StartWorker, ExecutionInv, tVars, mVars
    <2>2. \A w \in Worker : wpc'[w] # "none" => w[2] <= spawned'[w[1]]
      <3> TAKE w \in Worker
      <3>1. w[1] \in Req /\ w[2] \in 1 .. MaxWorkers /\ w = <<w[1], w[2]>>
        BY DEF Worker
      <3>2. CASE w = <<lreq, 2>>
        BY <2>1, <3>2
      <3>3. CASE w # <<lreq, 2>>
        <4>1. wpc'[w] = wpc[w]
          BY <2>1, <3>3
        <4> QED
          BY <2>1, <3>1, <4>1 DEF ExecutionInv
      <3> QED
        BY <3>2, <3>3
    <2>3. \A m \in Mid : tbl'[m] # NoReq => spawned'[tbl'[m]] > 0
      BY <2>1 DEF ExecutionInv
    <2> QED
      BY <2>1, <2>2, <2>3 DEF ExecutionInv, AtMostTwoExecutions, Known
  <1>3. CASE DupIfCompleted
    <2>1. /\ spawned' = spawned /\ completed' = completed /\ tbl' = tbl
          /\ wpc' = wpc /\ lreq' = lreq /\ lreq \in Req
          /\ lpc' # "ifCompleted"
          /\ lpc' = "elifNotCompleted" => ~completed[lreq] /\ spawned[lreq] > 0
      BY <1>3 DEF DupIfCompleted, ExecutionInv, mVars, tVars
    <2>2. /\ spawned[lreq] \in Nat /\ spawned[lreq] <= 2
          /\ spawned[lreq] = 2 => completed[lreq]
      BY <2>1, ExchangeAssumption DEF ExecutionInv, AtMostTwoExecutions
    <2>3. lpc' = "elifNotCompleted" => spawned[lreq] = 1
      <3> DEFINE n == spawned[lreq]
      <3>1. lpc' = "elifNotCompleted" => n > 0 /\ n # 2
        BY <2>1, <2>2
      <3>2. n \in Nat /\ n <= 2
        BY <2>2
      <3> HIDE DEF n
      <3>3. n > 0 /\ n # 2 => n = 1
        BY <3>2
      <3> QED
        BY <3>1, <3>3 DEF n
    <2> QED
      BY <2>1, <2>3 DEF ExecutionInv, AtMostTwoExecutions, Known
  <1>6. ASSUME NEW r \in Req, ListenDuplicate(r) PROVE ExecutionInv'
    BY <1>6, ExchangeAssumption
       DEF ListenDuplicate, ExecutionInv, AtMostTwoExecutions, Known, mVars,
           tVars
  <1>4. CASE ExecutionFrame
    BY <1>4, FrameKeepsExecutionInv
  <1>5. CASE UNCHANGED vars
    BY <1>4, <1>5 DEF vars, ExecutionFrame, mVars, lVars, tVars
  <1> QED
    BY <1>1, <1>2, <1>3, <1>4, <1>5, <1>6, ListenerExecutionFrame,
       ThreadExecutionFrame DEF Next, Quiet

LEMMA InitExecutionInv == Init => ExecutionInv
  BY DEF Init, ExecutionInv, AtMostTwoExecutions, Known

\* What the other proofs about the exchanges build on.
LEMMA ExecutionInvariant == Spec => [](TypeInv /\ ExecutionInv)
  BY InitExecutionInv, StepExecutionInv, TypeInvariant, PTL DEF Spec

\* However many duplicates of a request arrive, and whatever the threads do,
\* its handler is called at most twice (server/coap.py, listen).
THEOREM ExecutedAtMostTwice == Spec => []AtMostTwoExecutions
  <1>1. ExecutionInv => AtMostTwoExecutions
    BY DEF ExecutionInv
  <1> QED
    BY <1>1, ExecutionInvariant, PTL

\* A worker that is started was not there before.
LEMMA StartedWorker ==
  ASSUME TypeInv, ExecutionInv, NEW r \in Req, StartWorker(r)
  PROVE  \E n \in Worker :
           /\ n[1] = r /\ n[2] = spawned[r] + 1
           /\ wpc[n] = "none"
           /\ wpc' = [wpc EXCEPT ![n] = "lock"]
  <1> DEFINE n == <<r, spawned[r] + 1>>
  <1>1. n \in Worker /\ spawned[r] \in Nat
    BY StartWorkerType, ExchangeAssumption DEF TypeInv, TypeOK
  <1>2. wpc[n] = "none"
    BY <1>1 DEF ExecutionInv
  <1>3. wpc' = [wpc EXCEPT ![n] = "lock"]
    BY DEF StartWorker
  <1> QED
    BY <1>1, <1>2, <1>3

=============================================================================
