-------------------- MODULE CoapExchangeRefinementProofs --------------------
(***************************************************************************)
(* The threads of CoapExchange keep the promise of RequestReply, for any   *)
(* number of requests, ids, retransmissions, duplicates and answers, ids   *)
(* that run into each other and answers that come after the last           *)
(* retransmission was given up included.  The peer answers only what it    *)
(* was sent.                                                               *)
(***************************************************************************)
EXTENDS CoapExchangeRefinement, CoapExchangeThreads

LEMMA FirstIsWorker ==
  \A r \in Req : First(r) \in Worker /\ First(r)[1] = r /\ First(r)[2] = 1
  BY ExchangeAssumption DEF First, Worker

-----------------------------------------------------------------------------
(***************************************************************************)
(* The order of the executions.  A second worker is started only when the  *)
(* first one, or its timer, has completed the transaction: the first one   *)
(* has taken the lock before, and is gone when the second one gets it.     *)
(***************************************************************************)
SecondAfterFirst ==
  /\ \A r \in Req : spawned[r] = 2 => wpc[First(r)] \notin Outside
  /\ \A w \in Worker : w[2] = 2 /\ wpc[w] \notin Outside =>
                         wpc[First(w[1])] \in {"done", "failed"}

FirstCompletes ==
  lpc = "elifNotCompleted" /\ completed[lreq] => wpc[First(lreq)] \notin Outside

\* The transaction's response is not the first worker's any more once the second
\* one runs.
ResponseOfLast == \A w \in Worker : w[2] = 2 /\ Executed(w) => cur[w[1]] # 1

OrderInv == SecondAfterFirst /\ FirstCompletes /\ ResponseOfLast

OrderFrame ==
  /\ UNCHANGED <<spawned, cur>>
  /\ \A w \in Worker : wpc'[w] \in Outside <=> wpc[w] \in Outside
  /\ \A w \in Worker : wpc[w] \in {"done", "failed"} => wpc'[w] = wpc[w]
  /\ \A w \in Worker : Executed(w)' => Executed(w)
  /\ lpc' = "elifNotCompleted" => UNCHANGED <<lpc, lreq>>
  /\ lpc' = "elifNotCompleted" /\ completed'[lreq] =>
       \/ completed[lreq]
       \/ \E w \in Worker : w[1] = lreq /\ wpc[w] \notin Outside

LEMMA FrameKeepsOrderInv ==
  ASSUME TypeInv, ExecutionInv, OrderInv, OrderFrame
  PROVE  OrderInv'
  <1> USE FirstIsWorker
  <1>1. SecondAfterFirst'
    BY DEF OrderInv, SecondAfterFirst, OrderFrame, First, Worker
  <1>2. FirstCompletes'
    <2> SUFFICES ASSUME lpc' = "elifNotCompleted", completed'[lreq'],
                        ~completed[lreq]
                 PROVE  wpc'[First(lreq')] \notin Outside
      BY DEF FirstCompletes, OrderInv, OrderFrame, TypeInv, TypeOK
    <2>1. lpc = "elifNotCompleted" /\ lreq' = lreq /\ lreq \in Req
      BY DEF OrderFrame, TypeInv, TypeOK
    <2>2. PICK w \in Worker : w[1] = lreq /\ wpc[w] \notin Outside
      BY <2>1 DEF OrderFrame
    <2>3. w = First(lreq)
      <3>1. spawned[lreq] = 1 /\ w[2] <= spawned[lreq]
        BY <2>1, <2>2 DEF ExecutionInv, Outside
      <3>2. w[2] \in Nat /\ w[2] >= 1 /\ w = <<w[1], w[2]>>
        BY ExchangeAssumption DEF Worker
      <3>3. w[2] = 1
        BY <3>1, <3>2
      <3> QED
        BY <2>2, <3>2, <3>3 DEF First
    <2> QED
      BY <2>1, <2>2, <2>3 DEF OrderFrame
  <1>3. ResponseOfLast'
    BY DEF OrderInv, ResponseOfLast, OrderFrame
  <1> QED
    BY <1>1, <1>2, <1>3 DEF OrderInv

LEMMA ListenerOrderInv ==
  ASSUME TypeInv, ExecutionInv, OrderInv, Deliver \/ ListenerInternal \/ Close
  PROVE  OrderInv'
  <1> USE DEF tVars, lVars
  <1>1. ASSUME NEW r \in Req, ListenNew(r) PROVE OrderInv'
    <2>1. spawned[r] = 0 /\ spawned' = [spawned EXCEPT ![r] = 1]
      <3>1. ~(spawned[r] > 0)
        BY <1>1 DEF ListenNew, ExecutionInv
      <3>2. spawned[r] \in Nat
        BY ExchangeAssumption DEF TypeInv, TypeOK
      <3>3. spawned[r] = 0
        BY <3>1, <3>2
      <3> QED
        BY <1>1, <3>3 DEF ListenNew, StartWorker
    <2>2. PICK n \in Worker : /\ n[1] = r /\ n[2] = 1 /\ wpc[n] = "none"
                              /\ wpc' = [wpc EXCEPT ![n] = "lock"]
      BY <1>1, <2>1, StartedWorker DEF ListenNew
    <2>3. \A w \in Worker : w # n => wpc'[w] = wpc[w]
      BY <2>2
    <2>4. \A w \in Worker : w[1] = r => wpc[w] = "none"
      <3> SUFFICES ASSUME NEW w \in Worker, w[1] = r, wpc[w] # "none" PROVE FALSE
        OBVIOUS
      <3>1. w[2] <= 0 /\ w[2] \in 1 .. MaxWorkers
        BY <2>1 DEF ExecutionInv, Worker
      <3> QED
        BY <3>1, ExchangeAssumption
    <2>5. \A w \in Worker : w[2] = 2 => w # n /\ wpc'[w] = wpc[w]
      BY <2>2, <2>3
    <2>6. \A q \in Req : q # r => /\ spawned'[q] = spawned[q]
                                  /\ wpc'[First(q)] = wpc[First(q)]
      BY <2>1, <2>2, <2>3, FirstIsWorker DEF TypeInv, TypeOK
    <2>7. spawned'[r] = 1
      BY <2>1 DEF TypeInv, TypeOK
    <2>8. SecondAfterFirst'
      <3>1. \A q \in Req : spawned'[q] = 2 => wpc'[First(q)] \notin Outside
        BY <2>6, <2>7 DEF OrderInv, SecondAfterFirst
      <3>2. \A w \in Worker : w[2] = 2 /\ wpc'[w] \notin Outside =>
                                wpc'[First(w[1])] \in {"done", "failed"}
        BY <2>4, <2>5, <2>6 DEF OrderInv, SecondAfterFirst, Outside, Worker
      <3> QED
        BY <3>1, <3>2 DEF SecondAfterFirst
    <2>9. FirstCompletes'
      BY <1>1 DEF ListenNew, Receiving, FirstCompletes
    <2>10. ResponseOfLast'
      BY <1>1, <2>5 DEF ListenNew, OrderInv, ResponseOfLast, Executed
    <2> QED
      BY <2>8, <2>9, <2>10 DEF OrderInv
  <1>2. CASE DupFallThrough
    <2>1. /\ spawned[lreq] = 1 /\ spawned' = [spawned EXCEPT ![lreq] = 2]
          /\ lreq \in Req /\ wpc[First(lreq)] \notin Outside
      BY <1>2 DEF DupFallThrough, ExecutionInv, TypeInv, TypeOK, StartWorker,
                  OrderInv, FirstCompletes
    <2>2. PICK n \in Worker : /\ n[1] = lreq /\ n[2] = 2 /\ wpc[n] = "none"
                              /\ wpc' = [wpc EXCEPT ![n] = "lock"]
      BY <1>2, <2>1, StartedWorker DEF DupFallThrough
    <2>3. \A w \in Worker : w # n => wpc'[w] = wpc[w]
      BY <2>2
    <2>4. wpc'[n] = "lock"
      BY <2>2 DEF TypeInv, TypeOK
    <2>5. \A q \in Req : wpc'[First(q)] = wpc[First(q)]
      BY <2>2, <2>3, FirstIsWorker
    <2>6. \A q \in Req : q # lreq => spawned'[q] = spawned[q]
      BY <2>1 DEF TypeInv, TypeOK
    <2>7. SecondAfterFirst'
      <3>1. \A q \in Req : spawned'[q] = 2 => wpc'[First(q)] \notin Outside
        BY <2>1, <2>5, <2>6 DEF OrderInv, SecondAfterFirst
      <3>2. \A w \in Worker : w[2] = 2 /\ wpc'[w] \notin Outside =>
                                wpc'[First(w[1])] \in {"done", "failed"}
        BY <2>3, <2>4, <2>5 DEF OrderInv, SecondAfterFirst, Outside, Worker
      <3> QED
        BY <3>1, <3>2 DEF SecondAfterFirst
    <2>8. FirstCompletes'
      BY <1>2 DEF DupFallThrough, FirstCompletes
    <2>9. ResponseOfLast'
      BY <1>2, <2>3, <2>4 DEF DupFallThrough, OrderInv, ResponseOfLast, Executed
    <2> QED
      BY <2>7, <2>8, <2>9 DEF OrderInv
  <1>3. CASE DupIfCompleted
    <2>1. /\ UNCHANGED <<spawned, cur, wpc, completed, lreq>>
          /\ lpc' = "elifNotCompleted" => ~completed[lreq]
      BY <1>3 DEF DupIfCompleted
    <2> QED
      BY <2>1 DEF OrderInv, SecondAfterFirst, FirstCompletes, ResponseOfLast,
                  Executed
  <1> USE DEF OrderFrame, Executed
  <1>4. ASSUME NEW r \in Req, ListenDuplicate(r) PROVE OrderFrame
    BY <1>4 DEF ListenDuplicate
  <1>5. ASSUME NEW m \in Mid,
               \/ ListenAck(m) \/ ListenRst(m)
               \/ \E type \in {"CON", "NON"} : ListenOther(type, m)
        PROVE  OrderFrame
    BY <1>5 DEF ListenAck, ListenRst, ListenOther
  <1>6. ASSUME DupElifNotCompleted \/ DupAck \/ DupSetAck \/ DupSendAck
        PROVE  OrderFrame
    BY <1>6 DEF DupElifNotCompleted, DupAck, DupSetAck, DupSendAck
  <1>7. ASSUME DupResend PROVE OrderFrame
    BY <1>7 DEF DupResend
  <1>8. ASSUME \/ EmptyIfStop \/ EmptySetStop \/ EmptyObserve \/ ListenerStops
               \/ Close
        PROVE  OrderFrame
    BY <1>8 DEF EmptyIfStop, EmptySetStop, EmptyObserve, ListenerStops, Close
  <1>9. ASSUME ListenBadRequest PROVE OrderFrame
    BY <1>9 DEF ListenBadRequest
  <1> QED
    BY <1>1, <1>2, <1>3, <1>4, <1>5, <1>6, <1>7, <1>8, <1>9, FrameKeepsOrderInv
       DEF Deliver, ListenerInternal

LEMMA ThreadOrderFrame ==
  ASSUME TypeInv, ResponseInv, NEW w \in Worker,
         \/ WorkerStep(w) \/ HandlerSeparate(w) \/ HandlerEnds(w)
         \/ TimerStep(w) \/ RetransmitStep(w)
  PROVE  \/ WorkerLock(w) \/ WorkerDispatch(w) \/ WorkerUnknownMethod(w)
         \/ OrderFrame
  <1> USE DEF TypeInv, TypeOK, OrderFrame, Executed, Outside, WorkerAt,
              WorkerGoto, tVars, lVars
  <1>0. w[1] \in Req
    BY DEF Worker
  <1>1. CASE SeparateSetAck(w)
    <2>1. \A r \in Req : completed'[r] => completed[r] \/ w[1] = r
      BY <1>1 DEF SeparateSetAck, AckRequest
    <2>2. \E to \in {"sendAck", "callback"} : wpc' = [wpc EXCEPT ![w] = to]
      BY <1>1 DEF SeparateSetAck
    <2> QED
      BY <1>1, <2>1, <2>2 DEF SeparateSetAck
  <1>2. CASE WorkerPiggyback(w)
    <2>1. \A r \in Req : completed'[r] => completed[r] \/ w[1] = r
      BY <1>2 DEF WorkerPiggyback, AckRequest
    <2> QED
      BY <1>2, <2>1 DEF WorkerPiggyback
  <1>3. CASE TimerSetsAck(w)
    <2>1. \A r \in Req : completed'[r] => completed[r] \/ w[1] = r
      BY <1>3 DEF TimerSetsAck, AckRequest
    <2>2. wpc[w] \notin Outside
      BY <1>3 DEF TimerSetsAck, TimerAt, ResponseInv, TimerLater
    <2> QED
      BY <1>3, <2>1, <2>2 DEF TimerSetsAck
  <1>4. CASE \/ SeparateSendAck(w) \/ WorkerStopTimer(w) \/ WorkerDecide(w)
             \/ WorkerFetchMid(w) \/ WorkerRegister(w)
    BY <1>4 DEF SeparateSendAck, WorkerStopTimer, WorkerDecide, WorkerFetchMid,
                WorkerRegister
  <1>5. CASE \/ WorkerStartRetransmission(w) \/ WorkerSend(w)
             \/ HandlerSeparate(w) \/ HandlerEnds(w)
    BY <1>5 DEF WorkerStartRetransmission, WorkerSend, HandlerSeparate,
                HandlerEnds, HandlerReturns, HandlerRaises
  <1>6. CASE TimerFires(w) \/ TimerTests(w) \/ TimerSendsAck(w)
    BY <1>6 DEF TimerFires, TimerTests, TimerSendsAck
  <1>7. CASE RetransmitStep(w)
    BY <1>7 DEF RetransmitStep, RetransmitLock, RetransmitWhile,
                RetransmitWakes, RetransmitSends, RetransmitTests,
                RetransmitGivesUp, RetransmitForgets, RetransmitEnds
  <1> QED
    BY <1>1, <1>2, <1>3, <1>4, <1>5, <1>6, <1>7 DEF WorkerStep, TimerStep

\* A second worker gets the lock when the first one is gone ...
LEMMA LockKeepsOrderInv ==
  ASSUME TypeInv, ExecutionInv, LockInv, OrderInv, NEW w \in Worker, WorkerLock(w)
  PROVE  OrderInv'
  <1>1. /\ UNCHANGED <<spawned, cur, lpc, lreq, completed>>
        /\ wpc[w] = "lock" /\ wpc' = [wpc EXCEPT ![w] = "dispatch"]
        /\ ~lock[w[1]]
    BY DEF WorkerLock, WorkerAt, WorkerGoto, Acquire, tVars, lVars
  <1>2. \A v \in Worker : v # w => wpc'[v] = wpc[v]
    BY <1>1
  <1>3. wpc'[w] = "dispatch"
    BY <1>1 DEF TypeInv, TypeOK
  <1>4. \A v \in Worker : wpc[v] \notin Outside => wpc'[v] \notin Outside
    BY <1>1, <1>2 DEF Outside
  <1>5. w[2] = 2 => wpc[First(w[1])] \in {"done", "failed"}
    <2> SUFFICES ASSUME w[2] = 2 PROVE wpc[First(w[1])] \in {"done", "failed"}
      OBVIOUS
    <2>1. w[1] \in Req /\ 2 <= spawned[w[1]]
      BY <1>1 DEF ExecutionInv, Worker
    <2>2. spawned[w[1]] \in Nat /\ spawned[w[1]] <= 2
      BY <2>1, ExchangeAssumption DEF ExecutionInv, AtMostTwoExecutions, TypeInv,
                                      TypeOK
    <2>3. spawned[w[1]] = 2
      BY <2>1, <2>2
    <2>4. wpc[First(w[1])] \notin Outside
      BY <2>1, <2>3 DEF OrderInv, SecondAfterFirst
    <2>5. ~WorkerInside(First(w[1]))
      BY <1>1, <2>1, FirstIsWorker DEF LockInv, Holds
    <2> QED
      BY <2>4, <2>5 DEF Outside, WorkerInside
  <1>6. \A v \in Worker : v[2] = 2 => v # First(w[1])
    BY DEF First
  <1>7. SecondAfterFirst'
    <2>1. \A r \in Req : spawned'[r] = 2 => wpc'[First(r)] \notin Outside
      BY <1>1, <1>4, FirstIsWorker DEF OrderInv, SecondAfterFirst
    <2>2. \A v \in Worker : v[2] = 2 /\ wpc'[v] \notin Outside =>
                              wpc'[First(v[1])] \in {"done", "failed"}
      <3> SUFFICES ASSUME NEW v \in Worker, v[2] = 2, wpc'[v] \notin Outside
                   PROVE  wpc'[First(v[1])] \in {"done", "failed"}
        OBVIOUS
      <3>1. First(v[1]) \in Worker
        BY FirstIsWorker DEF Worker
      <3>2. wpc[First(v[1])] \in {"done", "failed"}
        BY <1>2, <1>5 DEF OrderInv, SecondAfterFirst
      <3> QED
        BY <1>1, <1>2, <3>1, <3>2
    <2> QED
      BY <2>1, <2>2 DEF SecondAfterFirst
  <1>8. FirstCompletes'
    BY <1>1, <1>4, FirstIsWorker DEF OrderInv, FirstCompletes, TypeInv, TypeOK
  <1>9. ResponseOfLast'
    BY <1>1, <1>2, <1>3 DEF OrderInv, ResponseOfLast, Executed
  <1> QED
    BY <1>7, <1>8, <1>9 DEF OrderInv

\* ... and replaces its response.
LEMMA DispatchKeepsOrderInv ==
  ASSUME TypeInv, OrderInv, NEW w \in Worker,
         WorkerDispatch(w) \/ WorkerUnknownMethod(w)
  PROVE  OrderInv'
  <1>1. /\ UNCHANGED <<spawned, lpc, lreq, completed>>
        /\ \E n \in {0, w[2]} : cur' = [cur EXCEPT ![w[1]] = n]
        /\ wpc[w] = "dispatch"
        /\ \E to \in {"handler", "failed"} : wpc' = [wpc EXCEPT ![w] = to]
        /\ w[1] \in Req
    BY DEF WorkerDispatch, WorkerUnknownMethod, WorkerAt, WorkerGoto, lVars, Worker
  <1>2. \A v \in Worker : /\ wpc'[v] \in Outside <=> wpc[v] \in Outside
                          /\ wpc[v] \in {"done", "failed"} => wpc'[v] = wpc[v]
    BY <1>1 DEF Outside, TypeInv, TypeOK
  <1>3. SecondAfterFirst'
    BY <1>1, <1>2, FirstIsWorker DEF OrderInv, SecondAfterFirst, Worker
  <1>4. FirstCompletes'
    BY <1>1, <1>2, FirstIsWorker DEF OrderInv, FirstCompletes, TypeInv, TypeOK
  <1>5. ResponseOfLast'
    <2> SUFFICES ASSUME NEW v \in Worker, v[2] = 2, Executed(v)',
                        cur'[v[1]] = 1
                 PROVE  FALSE
      BY DEF ResponseOfLast
    <2>1. CASE v[1] = w[1]
      <3>1. w[2] = 1
        BY <1>1, <2>1 DEF TypeInv, TypeOK
      <3>2. w = First(v[1])
        BY <2>1, <3>1 DEF First, Worker
      <3>3. wpc'[v] \notin Outside
        BY DEF Executed, Outside
      <3>4. wpc[w] \in {"done", "failed"}
        BY <1>2, <3>2, <3>3 DEF OrderInv, SecondAfterFirst
      <3> QED
        BY <1>1, <3>4
    <2>2. CASE v[1] # w[1]
      <3>1. cur'[v[1]] = cur[v[1]] /\ wpc'[v] = wpc[v]
        BY <1>1, <2>2 DEF TypeInv, TypeOK, Worker
      <3> QED
        BY <3>1 DEF OrderInv, ResponseOfLast, Executed
    <2> QED
      BY <2>1, <2>2
  <1> QED
    BY <1>3, <1>4, <1>5 DEF OrderInv

LEMMA StepOrderInv ==
  TypeInv /\ ExecutionInv /\ LockInv /\ ResponseInv /\ OrderInv /\ [Next]_vars
    => OrderInv'
  <1> SUFFICES ASSUME TypeInv, ExecutionInv, LockInv, ResponseInv, OrderInv,
                      [Next]_vars
               PROVE  OrderInv'
    OBVIOUS
  <1>1. CASE UNCHANGED vars
    <2>1. OrderFrame
      BY <1>1 DEF vars, OrderFrame, Executed, tVars, lVars
    <2> QED
      BY <2>1, FrameKeepsOrderInv
  <1> QED
    BY <1>1, ListenerOrderInv, ThreadOrderFrame, FrameKeepsOrderInv,
       LockKeepsOrderInv, DispatchKeepsOrderInv DEF Next, Quiet

LEMMA InitOrderInv == Init => OrderInv
  BY FirstIsWorker DEF Init, OrderInv, SecondAfterFirst, FirstCompletes,
                       ResponseOfLast, Outside, Executed

-----------------------------------------------------------------------------
(***************************************************************************)
(* The ids.  An empty ACK or RST of the peer carries an id that was sent,  *)
(* and the transaction found under it has a response with an id, even if   *)
(* another response has taken the entry over.                              *)
(***************************************************************************)
HasResponse(r) == \E w \in Worker : w[1] = r /\ rmid[w] # NoMid

IdInv ==
  /\ \A m \in sentMids : HasResponse(tbl[m])
  /\ \A w \in Worker : rmid[w] # NoMid /\ rtype[w] # "ACK"
                         => HasResponse(tbl[rmid[w]])

LEMMA AckFrameKeepsIdInv ==
  ASSUME TypeInv, TypeInv', AckInv, AckFrame, IdInv
  PROVE  IdInv'
  <1>1. \A r : HasResponse(r) => HasResponse(r)'
    BY DEF HasResponse, AckFrame
  <1>2. \A m \in Mid : OwesNoAck(m) => tbl'[m] = tbl[m]
    BY DEF OwesNoAck, AckFrame
  <1> HIDE DEF HasResponse
  <1>3. \A w \in Worker : rmid[w] # NoMid /\ rtype[w] # "ACK" =>
          rmid[w] \in Mid /\ tbl'[rmid[w]] = tbl[rmid[w]]
    BY <1>2 DEF AckInv, TypeInv, TypeOK
  <1>4. \A m \in sentMids : tbl'[m] = tbl[m]
    BY <1>2 DEF AckInv, TypeInv, TypeOK
  <1>5. \A w \in Worker : rmid'[w] # NoMid /\ rtype'[w] # "ACK"
                            => HasResponse(tbl[rmid[w]])'
    <2> SUFFICES ASSUME NEW w \in Worker, rmid'[w] # NoMid, rtype'[w] # "ACK"
                 PROVE  HasResponse(tbl[rmid[w]])'
      OBVIOUS
    <2>1. /\ HasResponse(tbl[rmid[w]])
          /\ tbl'[rmid'[w]] = tbl[rmid[w]]
      BY <1>3 DEF IdInv, AckFrame
    <2> QED
      BY <1>1, <2>1 DEF HasResponse
  <1>6. \A m \in sentMids' : HasResponse(tbl[m])'
    <2> SUFFICES ASSUME NEW m \in sentMids' PROVE HasResponse(tbl[m])'
      OBVIOUS
    <2>1. CASE m \in sentMids
      <3>1. HasResponse(tbl[m]) /\ tbl'[m] = tbl[m]
        BY <1>4, <2>1 DEF IdInv
      <3> QED
        BY <1>1, <3>1 DEF HasResponse
    <2>2. ASSUME NEW w \in Worker, rmid[w] = m, rtype[w] # "ACK", m \notin sentMids
          PROVE  HasResponse(tbl[m])'
      <3>1. m # NoMid
        BY NoMidIsNoMid, <2>2 DEF AckFrame, TypeInv, TypeOK
      <3>2. HasResponse(tbl[m]) /\ tbl'[m] = tbl[m]
        BY <1>3, <2>2, <3>1 DEF IdInv
      <3> QED
        BY <1>1, <3>2 DEF HasResponse
    <2> QED
      BY <2>1, <2>2 DEF AckFrame
  <1> QED
    BY <1>5, <1>6 DEF IdInv

LEMMA ResponseKeepsIdInv ==
  ASSUME TypeInv, ResponseInv, IdInv, NEW w \in Worker,
         WorkerDecide(w) \/ WorkerPiggyback(w) \/ WorkerRegister(w)
  PROVE  IdInv'
  <1>1. /\ \A v \in Worker : v # w => rmid'[v] = rmid[v] /\ rtype'[v] = rtype[v]
        /\ UNCHANGED sentMids
        /\ rmid[w] = NoMid
    BY DEF WorkerDecide, WorkerPiggyback, WorkerRegister, WorkerAt, ResponseInv,
           IdLast, respVars, wireVars, TypeInv, TypeOK
  <1>2. \A r : HasResponse(r) => HasResponse(r)'
    BY <1>1 DEF HasResponse
  <1>3. CASE WorkerDecide(w) \/ WorkerPiggyback(w)
    <2>1. /\ UNCHANGED tbl
          /\ rmid'[w] # NoMid => rtype'[w] = "ACK"
      BY <1>1, <1>3 DEF WorkerDecide, WorkerPiggyback, WorkerAt, ResponseInv,
                        TypeChosen, respVars, mVars, TypeInv, TypeOK
    <2>2. \A v \in Worker : rmid'[v] # NoMid /\ rtype'[v] # "ACK"
                              => HasResponse(tbl[rmid[v]])
      BY <1>1, <2>1 DEF IdInv
    <2>3. \A v \in Worker : rmid'[v] # NoMid /\ rtype'[v] # "ACK"
                              => rmid'[v] = rmid[v]
      BY <1>1, <2>1
    <2> HIDE DEF HasResponse
    <2>4. \A v \in Worker : rmid'[v] # NoMid /\ rtype'[v] # "ACK"
                              => HasResponse(tbl[rmid[v]])'
      <3> SUFFICES ASSUME NEW v \in Worker, rmid'[v] # NoMid, rtype'[v] # "ACK"
                   PROVE  HasResponse(tbl[rmid[v]])'
        OBVIOUS
      <3>1. HasResponse(tbl[rmid[v]])' \/ ~HasResponse(tbl[rmid[v]])
        BY <1>2, <2>1, <2>3 DEF HasResponse
      <3> QED
        BY <2>2, <3>1
    <2>5. \A m \in sentMids' : HasResponse(tbl[m])'
      BY <1>1, <1>2, <2>1 DEF IdInv, HasResponse
    <2> QED
      BY <2>4, <2>5 DEF IdInv
  <1>4. CASE WorkerRegister(w)
    <2>1. /\ tbl' = [tbl EXCEPT ![wmid[w]] = w[1]]
          /\ rmid'[w] = wmid[w] /\ wmid[w] \in Mid /\ wmid[w] # NoMid
      BY <1>4, NoMidIsNoMid
         DEF WorkerRegister, WorkerAt, TypeInv, TypeOK, Addressed
    <2>2. HasResponse(w[1])'
      BY <2>1 DEF HasResponse
    <2>3. \A m \in Mid : tbl'[m] = tbl[m] \/ tbl'[m] = w[1]
      BY <2>1 DEF TypeInv, TypeOK
    <2>4. \A m \in Mid : HasResponse(tbl[m]) => HasResponse(tbl[m])'
      BY <1>2, <2>2, <2>3 DEF HasResponse
    <2>5. \A v \in Worker : rmid'[v] # NoMid /\ rtype'[v] # "ACK"
                              => HasResponse(tbl[rmid[v]])'
      <3> SUFFICES ASSUME NEW v \in Worker, rmid'[v] # NoMid, rtype'[v] # "ACK"
                   PROVE  HasResponse(tbl[rmid[v]])'
        OBVIOUS
      <3>1. CASE v = w
        BY <2>1, <2>2, <3>1 DEF HasResponse, TypeInv, TypeOK
      <3>2. CASE v # w
        <4>1. rmid[v] \in Mid /\ rmid'[v] = rmid[v] /\ HasResponse(tbl[rmid[v]])
          BY <1>1, <3>2 DEF IdInv, TypeInv, TypeOK
        <4> QED
          BY <2>4, <4>1 DEF HasResponse
      <3> QED
        BY <3>1, <3>2
    <2>6. \A m \in sentMids' : HasResponse(tbl[m])'
      BY <1>1, <2>4 DEF IdInv, TypeInv, TypeOK
    <2> QED
      BY <2>5, <2>6 DEF IdInv
  <1> QED
    BY <1>3, <1>4

LEMMA StepIdInv ==
  ASSUME AnswersOnly
  PROVE  TypeInv /\ ExecutionInv /\ ResponseInv /\ AckInv /\ IdInv /\ [Next]_vars
           => IdInv'
  <1> SUFFICES ASSUME TypeInv, ExecutionInv, ResponseInv, AckInv, IdInv,
                      [Next]_vars
               PROVE  IdInv'
    OBVIOUS
  <1>1. AckGoesOn /\ TypeInv'
    BY NextAckGoesOn, StepTypeInv
  <1>2. CASE UNCHANGED vars
    BY <1>1, <1>2, AckFrameKeepsIdInv
       DEF vars, AckFrame, tVars, mVars, wireVars, respVars
  <1>3. CASE Deliver \/ ListenerInternal \/ Close
    BY <1>1, <1>3, ListenerAckFrame, AckFrameKeepsIdInv
  <1>4. ASSUME NEW w \in Worker,
               \/ WorkerStep(w) \/ HandlerSeparate(w) \/ HandlerEnds(w)
               \/ TimerStep(w) \/ RetransmitStep(w)
        PROVE  IdInv'
    BY <1>1, <1>4, ThreadAckFrame, AckFrameKeepsIdInv, ResponseKeepsIdInv
  <1> QED
    BY <1>2, <1>3, <1>4 DEF Next, Quiet

LEMMA InitIdInv == Init => IdInv
  BY DEF Init, IdInv

-----------------------------------------------------------------------------
(***************************************************************************)
(* The answers.  The first worker's response is marked acknowledged or     *)
(* rejected only when it has an id: an empty message that finds the        *)
(* transaction while its response is the first worker's answers that one.  *)
(***************************************************************************)
FirstUnanswered ==
  \A r \in Req : rmid[First(r)] = NoMid => ~Answered(First(r))

\* The setters work on one response.
LEMMA SettersMarkOne ==
  ASSUME TypeInv, NEW w, SetAcknowledged(w) \/ SetRejected(w)
  PROVE  /\ \A v \in Worker : v # w => racked'[v] = racked[v] /\ rrej'[v] = rrej[v]
         /\ \A v \in Worker : Answered(v) => Answered(v)'
  BY DEF SetAcknowledged, SetRejected, Answered, TypeInv, TypeOK

LEMMA EmptyMarksOne ==
  ASSUME TypeInv, NEW m \in Mid, ListenAck(m) \/ ListenRst(m)
  PROVE  /\ \A v \in Worker : v # <<tbl[m], cur[tbl[m]]>> =>
                                 racked'[v] = racked[v] /\ rrej'[v] = rrej[v]
         /\ \A v \in Worker : Answered(v) => Answered(v)'
  <1> DEFINE w == <<tbl[m], cur[tbl[m]]>>
  <1>1. SetAcknowledged(w) \/ SetRejected(w) \/ UNCHANGED <<racked, rrej, gaveUp>>
    BY DEF ListenAck, ListenRst
  <1>2. CASE UNCHANGED <<racked, rrej, gaveUp>>
    BY <1>2 DEF Answered
  <1> HIDE DEF w
  <1>3. CASE SetAcknowledged(w) \/ SetRejected(w)
    <2>1. /\ \A v \in Worker : v # w => racked'[v] = racked[v] /\ rrej'[v] = rrej[v]
          /\ \A v \in Worker : Answered(v) => Answered(v)'
      BY <1>3, SettersMarkOne
    <2> QED
      BY <2>1 DEF w
  <1> QED
    BY <1>1, <1>2, <1>3

LEMMA FirstWasSent ==
  ASSUME TypeInv, ExecutionInv, ResponseInv, OrderInv, IdInv,
         NEW m \in sentMids, tbl[m] \in Req, cur[tbl[m]] = 1
  PROVE  rmid[First(tbl[m])] # NoMid
  <1>1. PICK v \in Worker : v[1] = tbl[m] /\ rmid[v] # NoMid
    BY DEF IdInv, HasResponse
  <1>2. Executed(v)
    BY <1>1 DEF ResponseInv, IdLast, Executed
  <1>3. v[2] # 2
    BY <1>1, <1>2 DEF OrderInv, ResponseOfLast
  <1>4. v[2] <= spawned[tbl[m]] /\ spawned[tbl[m]] <= 2
    BY <1>1, <1>2 DEF ExecutionInv, AtMostTwoExecutions, Executed
  <1>5. v[2] \in Nat /\ 1 <= v[2] /\ v = <<v[1], v[2]>> /\ spawned[tbl[m]] \in Nat
    BY ExchangeAssumption DEF Worker, TypeInv, TypeOK
  <1>6. v[2] = 1
    BY <1>3, <1>4, <1>5
  <1> QED
    BY <1>1, <1>5, <1>6 DEF First

\* What the steps do to the marks.
MarksFirst ==
  /\ \A w \in Worker : rmid[w] # NoMid => rmid'[w] # NoMid
  /\ \A r \in Req : Answered(First(r))' =>
                      Answered(First(r)) \/ rmid'[First(r)] # NoMid

LEMMA StepMarksFirst ==
  ASSUME AnswersOnly, TypeInv, ExecutionInv, ResponseInv, OrderInv, IdInv,
         [Next]_vars
  PROVE  MarksFirst
  <1> USE DEF MarksFirst, Answered, respVars
  <1>1. CASE UNCHANGED vars
    BY <1>1 DEF vars
  <1>2. ASSUME NEW m \in Mid, ListenAck(m) \/ ListenRst(m) PROVE MarksFirst
    <2>1. /\ m \in sentMids /\ tbl[m] \in Req
          /\ UNCHANGED rmid
          /\ \A w \in Worker : w # <<tbl[m], cur[tbl[m]]>> =>
                                 racked'[w] = racked[w] /\ rrej'[w] = rrej[w]
      BY <1>2, EmptyMarksOne DEF ListenAck, ListenRst, MayReceiveEmpty, TypeInv,
                                 TypeOK, AnswersOnly
    <2>2. ASSUME NEW r \in Req, Answered(First(r))', ~Answered(First(r))
          PROVE  rmid'[First(r)] # NoMid
      <3>1. First(r) = <<tbl[m], cur[tbl[m]]>>
        BY <2>1, <2>2, FirstIsWorker
      <3>2. cur[tbl[m]] = 1 /\ r = tbl[m]
        BY <3>1 DEF First
      <3> QED
        BY <2>1, <3>2, FirstWasSent
    <2> QED
      BY <2>1, <2>2
  <1>3. ASSUME NEW r \in Req, ListenNew(r) \/ ListenDuplicate(r) PROVE MarksFirst
    BY <1>3 DEF ListenNew, ListenDuplicate
  <1>13. ASSUME ListenBadRequest PROVE MarksFirst
    BY <1>13 DEF ListenBadRequest
  <1>4. ASSUME NEW m \in Mid, NEW type \in {"CON", "NON"}, ListenOther(type, m)
        PROVE  MarksFirst
    BY <1>4 DEF ListenOther
  <1>5. ASSUME ListenerInternal \/ Close PROVE MarksFirst
    BY <1>5 DEF ListenerInternal, DupIfCompleted, DupElifNotCompleted,
                DupFallThrough, DupResend, DupAck, DupSetAck, DupSendAck,
                EmptyIfStop, EmptySetStop, EmptyObserve, ListenerStops, Close
  <1>6. ASSUME NEW w \in Worker, WorkerPiggyback(w) PROVE MarksFirst
    <2>1. ReqMid[w[1]] # NoMid
      BY NoMidIsNoMid, ExchangeAssumption DEF Worker
    <2> QED
      BY <1>6, <2>1 DEF WorkerPiggyback, SetAcknowledged, TypeInv, TypeOK
  <1>7. ASSUME NEW w \in Worker, WorkerRegister(w) PROVE MarksFirst
    BY <1>7 DEF WorkerRegister, WorkerAt, TypeInv, TypeOK, Addressed
  <1>8. ASSUME NEW w \in Worker, HandlerSeparate(w) \/ HandlerEnds(w)
        PROVE  MarksFirst
    BY <1>8 DEF HandlerSeparate, HandlerEnds, HandlerReturns, HandlerRaises
  <1>9. ASSUME NEW w \in Worker,
               \/ WorkerLock(w) \/ WorkerDispatch(w) \/ SeparateSetAck(w)
               \/ SeparateSendAck(w) \/ WorkerStopTimer(w) \/ WorkerDecide(w)
               \/ WorkerUnknownMethod(w)
        PROVE  MarksFirst
    BY <1>9 DEF WorkerLock, WorkerDispatch, SeparateSetAck, SeparateSendAck,
                WorkerStopTimer, WorkerDecide, WorkerUnknownMethod
  <1>10. ASSUME NEW w \in Worker,
                \/ WorkerFetchMid(w) \/ WorkerStartRetransmission(w)
                \/ WorkerSend(w)
         PROVE  MarksFirst
    BY <1>10 DEF WorkerFetchMid, WorkerStartRetransmission, WorkerSend
  <1>11. ASSUME NEW w \in Worker, TimerStep(w) PROVE MarksFirst
    BY <1>11 DEF TimerStep, TimerFires, TimerTests, TimerSetsAck, TimerSendsAck
  <1>12. ASSUME NEW w \in Worker, RetransmitStep(w) PROVE MarksFirst
    <2>1. UNCHANGED <<racked, rrej, rmid>> \/ RetransmitForgets(w)
      BY <1>12 DEF RetransmitStep, RetransmitLock, RetransmitWhile,
                   RetransmitWakes, RetransmitSends, RetransmitTests,
                   RetransmitGivesUp, RetransmitEnds
    <2>2. CASE UNCHANGED <<racked, rrej, rmid>>
      BY <2>2
    <2>3. CASE RetransmitForgets(w)
      BY <2>3, FirstIsWorker DEF RetransmitForgets, TypeInv, TypeOK
    <2> QED
      BY <2>1, <2>2, <2>3
  <1> QED
    BY <1>1, <1>2, <1>3, <1>4, <1>5, <1>6, <1>7, <1>8, <1>9, <1>10, <1>11,
       <1>12, <1>13 DEF Next, Deliver, WorkerStep, Quiet

LEMMA StepFirstUnanswered ==
  ASSUME AnswersOnly, TypeInv, ExecutionInv, ResponseInv, OrderInv, IdInv,
         FirstUnanswered, [Next]_vars
  PROVE  FirstUnanswered'
  BY StepMarksFirst, FirstIsWorker DEF FirstUnanswered, MarksFirst

LEMMA InitFirstUnanswered == Init => FirstUnanswered
  BY FirstIsWorker DEF Init, FirstUnanswered, Answered

-----------------------------------------------------------------------------
(***************************************************************************)
(* The refinement.  A step works on one worker.  If that is the first one  *)
(* of a request its phase moves on as RequestReply allows; the others do   *)
(* not show there.                                                         *)
(***************************************************************************)
SameAsBefore(w) ==
  /\ wpc'[w] = wpc[w]
  /\ rtype'[w] = rtype[w] /\ rmid'[w] = rmid[w]
  /\ Answered(w)' <=> Answered(w)
  /\ rpc'[w] = rpc[w] /\ cnt'[w] = cnt[w]

WorksOn(w) == stopped' = stopped /\ \A v \in Worker : v # w => SameAsBefore(v)

Moves(w, from, to) ==
  PhaseOf(w) = from /\ PhaseOf(w)' = to /\ cnt'[w] = cnt[w]

MovesOn(w) ==
  \/ PhaseOf(w)' = PhaseOf(w) /\ cnt'[w] = cnt[w]
  \/ ~stopped /\ Moves(w, "idle", "working")
  \/ Moves(w, "working", "failed")
  \/ Moves(w, "working", "replied")
  \/ Moves(w, "working", "waiting")
  \/ Moves(w, "waiting", "answered")
  \/ Moves(w, "abandoned", "answered")
  \/ (cnt[w] = MaxRetransmit \/ stopped) /\ Moves(w, "waiting", "abandoned")
  \/ /\ PhaseOf(w) = "waiting" /\ PhaseOf(w)' = "waiting"
     /\ cnt[w] < MaxRetransmit /\ ~stopped /\ cnt'[w] = cnt[w] + 1

LEMMA SamePhase == ASSUME NEW w, SameAsBefore(w) PROVE PhaseOf(w)' = PhaseOf(w)
  <1>1. Confirmable(w)' <=> Confirmable(w)
    BY DEF Confirmable, SameAsBefore
  <1> QED
    BY <1>1 DEF PhaseOf, SameAsBefore

LEMMA MoveIsAllowed ==
  ASSUME NEW w \in Worker, WorksOn(w), w = First(w[1]) => MovesOn(w)
  PROVE  [Promise!Next]_Promise!vars
  <1> DEFINE phase == [r \in Req |-> PhaseOf(First(r))]
             copies == [r \in Req |-> cnt[First(r)]]
  <1>1. \A v \in Worker : v # w => PhaseOf(v)' = PhaseOf(v) /\ cnt'[v] = cnt[v]
    BY SamePhase DEF WorksOn, SameAsBefore
  <1>2. stopped' = stopped
    BY DEF WorksOn
  <1>3. CASE w # First(w[1])
    <2>1. \A r \in Req : PhaseOf(First(r))' = PhaseOf(First(r))
                           /\ cnt'[First(r)] = cnt[First(r)]
      BY <1>1, <1>3, FirstIsWorker
    <2> QED
      BY <1>2, <2>1 DEF Promise!vars
  <1>4. CASE w = First(w[1])
    <2> DEFINE q == w[1]
    <2>1. q \in Req /\ w = First(q)
      BY <1>4 DEF Worker
    <2>2. \A r \in Req : r # q => PhaseOf(First(r))' = PhaseOf(First(r))
                                    /\ cnt'[First(r)] = cnt[First(r)]
      BY <1>1, <2>1, FirstIsWorker
    <2>3. MovesOn(First(q))
      BY <1>4, <2>1
    <2> HIDE DEF q
    <2>4. phase' = [phase EXCEPT ![q] = PhaseOf(First(q))']
      BY <2>1, <2>2
    <2>5. cnt'[First(q)] = cnt[First(q)] => copies' = copies
      BY <2>1, <2>2
    <2>6. cnt'[First(q)] = cnt[First(q)] + 1 =>
            copies' = [copies EXCEPT ![q] = @ + 1]
      BY <2>1, <2>2
    <2>7. phase[q] = PhaseOf(First(q)) /\ copies[q] = cnt[First(q)]
      BY <2>1
    <2>8. PhaseOf(First(q))' = PhaseOf(First(q)) => phase' = phase
      BY <2>1, <2>2
    <2> QED
      BY <1>2, <2>1, <2>3, <2>4, <2>5, <2>6, <2>7, <2>8
         DEF MovesOn, Moves, Promise!Next, Promise!vars, Promise!Take,
             Promise!Fail, Promise!Reply, Promise!ReplyConfirmable,
             Promise!Repeat, Promise!Answer, Promise!AnswerLate,
             Promise!Abandon, Promise!Move
  <1> QED
    BY <1>3, <1>4

NothingShows == stopped' = stopped /\ \A w \in Worker : SameAsBefore(w)

LEMMA NothingIsAllowed == ASSUME NothingShows PROVE UNCHANGED Promise!vars
  BY SamePhase, FirstIsWorker DEF NothingShows, SameAsBefore, Promise!vars

\* The listener takes a request, or marks a response.
LEMMA ListenerIsAllowed ==
  ASSUME TypeInv, ExecutionInv, ResponseInv, Deliver \/ ListenerInternal
  PROVE  [Promise!Next]_Promise!vars
  <1> USE DEF SameAsBefore, Answered, respVars, rVars
  <1>1. ASSUME NEW r \in Req, ListenNew(r)
        PROVE  \E w \in Worker : WorksOn(w) /\ MovesOn(w)
    <2>1. PICK w \in Worker : wpc[w] = "none" /\ wpc' = [wpc EXCEPT ![w] = "lock"]
      BY <1>1, StartedWorker DEF ListenNew
    <2>2. WorksOn(w)
      BY <1>1, <2>1 DEF ListenNew, WorksOn
    <2>3. ~stopped /\ cnt'[w] = cnt[w]
      BY <1>1 DEF ListenNew, Receiving
    <2>4. rtype'[w] = rtype[w] /\ rmid'[w] = rmid[w] /\ wpc'[w] = "lock"
      BY <1>1, <2>1 DEF ListenNew, TypeInv, TypeOK
    <2>5. ~Confirmable(w) /\ PhaseOf(w) = "idle"
      BY <2>1 DEF ResponseInv, IdLast, Confirmable, PhaseOf
    <2>6. PhaseOf(w)' = "working"
      BY <2>4, <2>5 DEF PhaseOf, Confirmable
    <2> QED
      BY <2>2, <2>3, <2>5, <2>6 DEF MovesOn, Moves
  <1>2. ASSUME DupFallThrough
        PROVE  \E w \in Worker : WorksOn(w) /\ w # First(w[1])
    <2>1. lreq \in Req /\ StartWorker(lreq) /\ spawned[lreq] = 1
      BY <1>2 DEF DupFallThrough, ExecutionInv, TypeInv, TypeOK
    <2>2. PICK w \in Worker : /\ w[1] = lreq /\ w[2] = 2
                              /\ wpc' = [wpc EXCEPT ![w] = "lock"]
      BY <2>1, StartedWorker
    <2> QED
      BY <1>2, <2>2 DEF DupFallThrough, WorksOn, First
  <1>3. ASSUME NEW r \in Req, ListenDuplicate(r) PROVE NothingShows
    BY <1>3 DEF ListenDuplicate, NothingShows
  <1>4. ASSUME NEW m \in Mid, ListenAck(m) \/ ListenRst(m)
        PROVE  NothingShows \/ \E w \in Worker : WorksOn(w) /\ MovesOn(w)
    <2>1. /\ UNCHANGED <<stopped, wpc, rtype, rmid, cnt, rpc>>
          /\ \A v \in Worker : v # <<tbl[m], cur[tbl[m]]>> =>
                                 racked'[v] = racked[v] /\ rrej'[v] = rrej[v]
      BY <1>4, EmptyMarksOne DEF ListenAck, ListenRst, MayReceiveEmpty
    <2>2. ASSUME NEW w \in Worker, w = <<tbl[m], cur[tbl[m]]>>
          PROVE  WorksOn(w) /\ MovesOn(w)
      <3>1. WorksOn(w)
        BY <2>1, <2>2 DEF WorksOn
      <3>2. Confirmable(w)' <=> Confirmable(w)
        BY <2>1 DEF Confirmable
      <3>3. Answered(w) => Answered(w)'
        BY <1>4, EmptyMarksOne
      <3>4. MovesOn(w)
        BY <2>1, <3>2, <3>3 DEF MovesOn, Moves, PhaseOf
      <3> QED
        BY <3>1, <3>4
    <2>3. CASE <<tbl[m], cur[tbl[m]]>> \notin Worker
      BY <2>1, <2>3 DEF NothingShows
    <2> QED
      BY <2>2, <2>3
  <1>5. ASSUME NEW m \in Mid, NEW type \in {"CON", "NON"}, ListenOther(type, m)
        PROVE  NothingShows
    BY <1>5 DEF ListenOther, NothingShows
  <1>6. ASSUME \/ DupIfCompleted \/ DupElifNotCompleted \/ DupResend \/ DupAck
               \/ DupSetAck \/ DupSendAck
        PROVE  NothingShows
    BY <1>6 DEF DupIfCompleted, DupElifNotCompleted, DupResend, DupAck,
                DupSetAck, DupSendAck, NothingShows
  <1>7. ASSUME EmptyIfStop \/ EmptySetStop \/ EmptyObserve \/ ListenerStops
        PROVE  NothingShows
    BY <1>7 DEF EmptyIfStop, EmptySetStop, EmptyObserve, ListenerStops,
                NothingShows
  <1>8. ASSUME ListenBadRequest PROVE NothingShows
    BY <1>8 DEF ListenBadRequest, NothingShows
  <1> QED
    BY <1>1, <1>2, <1>3, <1>4, <1>5, <1>6, <1>7, <1>8, MoveIsAllowed,
       NothingIsAllowed DEF Deliver, ListenerInternal

LEMMA CloseIsAllowed == ASSUME Close PROVE [Promise!Next]_Promise!vars
  <1>1. \A w \in Worker : SameAsBefore(w)
    BY DEF Close, SameAsBefore, Answered, respVars, rVars
  <1>2. stopped' = TRUE
    BY DEF Close
  <1> QED
    BY <1>1, <1>2, SamePhase, FirstIsWorker
       DEF SameAsBefore, Promise!Next, Promise!Close, Promise!vars

LEMMA ThreadIsAllowed ==
  ASSUME TypeInv, RetransmissionInv, ResponseInv, FirstUnanswered,
         NEW w \in Worker,
         \/ WorkerStep(w) \/ HandlerSeparate(w) \/ HandlerEnds(w)
         \/ TimerStep(w) \/ RetransmitStep(w)
  PROVE  [Promise!Next]_Promise!vars
  <1> USE DEF SameAsBefore, Answered, WorkerAt, WorkerGoto, respVars, rVars
  <1>1. CASE \/ WorkerLock(w) \/ WorkerDispatch(w) \/ SeparateSetAck(w)
             \/ SeparateSendAck(w) \/ WorkerStopTimer(w) \/ WorkerFetchMid(w)
             \/ WorkerStartRetransmission(w) \/ HandlerSeparate(w)
             \/ HandlerReturns(w)
    <2>1. /\ \E to \in {"dispatch", "handler", "separate", "sendAck", "callback",
                        "stopTimer", "decide", "register", "send"} :
               wpc' = [wpc EXCEPT ![w] = to]
          /\ wpc[w] \notin {"none", "failed", "done"}
          /\ UNCHANGED <<stopped, rtype, rmid, racked, rrej, cnt>>
          /\ \/ UNCHANGED rpc
             \/ wpc[w] = "retransmission" /\ rpc' = [rpc EXCEPT ![w] = "lock"]
      BY <1>1 DEF WorkerLock, WorkerDispatch, SeparateSetAck, SeparateSendAck,
                  WorkerStopTimer, WorkerFetchMid, WorkerStartRetransmission,
                  HandlerSeparate, HandlerReturns
    <2>2. WorksOn(w)
      BY <2>1 DEF WorksOn, TypeInv, TypeOK
    <2>3. /\ wpc'[w] \notin {"none", "failed", "done"}
          /\ rpc'[w] = rpc[w] \/ (rpc[w] = "none" /\ rpc'[w] = "lock")
      BY <2>1 DEF TypeInv, TypeOK, RetransmissionInv, RetransmitsLast
    <2>4. MovesOn(w)
      BY <2>1, <2>3 DEF MovesOn, PhaseOf, Confirmable
    <2> QED
      BY <2>2, <2>4, MoveIsAllowed
  <1>2. CASE HandlerRaises(w) \/ WorkerUnknownMethod(w)
    <2>1. rmid[w] = NoMid
      BY <1>2 DEF HandlerRaises, WorkerUnknownMethod, ResponseInv, IdLast
    <2>2. WorksOn(w)
      <3>1. CASE HandlerRaises(w)
        BY <3>1 DEF HandlerRaises, WorksOn
      <3>2. CASE WorkerUnknownMethod(w)
        BY <3>2 DEF WorkerUnknownMethod, WorksOn
      <3> QED
        BY <1>2, <3>1, <3>2
    <2>3. wpc'[w] = "failed"
      BY <1>2 DEF HandlerRaises, WorkerUnknownMethod, TypeInv, TypeOK
    <2>4. Moves(w, "working", "failed")
      BY <1>2, <2>1, <2>3 DEF HandlerRaises, WorkerUnknownMethod, Moves, PhaseOf,
                              Confirmable
    <2> QED
      BY <2>2, <2>4, MoveIsAllowed DEF MovesOn
  <1>3. CASE WorkerDecide(w) \/ WorkerPiggyback(w)
    <2>1. rmid[w] = NoMid /\ (WorkerPiggyback(w) => rtype[w] = "ACK")
      BY <1>3 DEF WorkerDecide, WorkerPiggyback, ResponseInv, IdLast, TypeChosen
    <2>2. WorksOn(w)
      <3>1. CASE WorkerDecide(w)
        BY <3>1 DEF WorkerDecide, WorksOn
      <3>2. CASE WorkerPiggyback(w)
        <4>1. \A v \in Worker : v # w => Answered(v)' = Answered(v)
          BY <3>2 DEF WorkerPiggyback, SetAcknowledged, TypeInv, TypeOK
        <4> QED
          BY <3>2, <4>1 DEF WorkerPiggyback, WorksOn
      <3> QED
        BY <1>3, <3>1, <3>2
    <2>3. ~Confirmable(w) /\ ~Confirmable(w)'
      BY <1>3, <2>1 DEF WorkerDecide, WorkerPiggyback, Confirmable
    <2>4. wpc'[w] \in {"piggyback", "fetchMid", "send"}
      BY <1>3 DEF WorkerDecide, WorkerPiggyback, TypeInv, TypeOK
    <2>5. MovesOn(w)
      BY <1>3, <2>3, <2>4 DEF WorkerDecide, WorkerPiggyback, MovesOn, PhaseOf
    <2> QED
      BY <2>2, <2>5, MoveIsAllowed
  <1>4. CASE WorkerRegister(w)
    <2>1. /\ UNCHANGED <<stopped, rtype, racked, rrej, cnt, rpc>>
          /\ wpc[w] = "register"
      BY <1>4 DEF WorkerRegister
    <2>2. rmid[w] = NoMid /\ rpc[w] = "none"
      BY <2>1 DEF ResponseInv, IdLast, RetransmissionInv, RetransmitsLast
    <2>3. WorksOn(w)
      BY <1>4 DEF WorkerRegister, WorksOn
    <2>4. wpc'[w] \in {"retransmission", "send"}
      BY <1>4 DEF WorkerRegister, TypeInv, TypeOK
    <2>5. ASSUME w = First(w[1]) PROVE MovesOn(w)
      <3>1. ~Answered(w)
        BY <2>2, <2>5 DEF FirstUnanswered, Worker
      <3>2. PhaseOf(w) = "working"
        BY <2>1, <2>2 DEF PhaseOf, Confirmable
      <3>3. PhaseOf(w)' \in {"working", "waiting"}
        BY <2>1, <2>2, <2>4, <3>1 DEF PhaseOf
      <3> QED
        BY <2>1, <3>2, <3>3 DEF MovesOn, Moves
    <2> QED
      BY <2>3, <2>5, MoveIsAllowed
  <1>5. CASE WorkerSend(w)
    <2>1. /\ UNCHANGED <<stopped, rtype, rmid, racked, rrej, cnt, rpc>>
          /\ wpc[w] = "send" /\ wpc' = [wpc EXCEPT ![w] = "done"]
      BY <1>5 DEF WorkerSend
    <2>2. WorksOn(w)
      BY <2>1 DEF WorksOn
    <2>3. wpc'[w] = "done"
      BY <2>1 DEF TypeInv, TypeOK
    <2>4. MovesOn(w)
      BY <2>1, <2>3 DEF MovesOn, Moves, PhaseOf, Confirmable
    <2> QED
      BY <2>2, <2>4, MoveIsAllowed
  <1>6. CASE TimerStep(w)
    <2>1. NothingShows
      BY <1>6 DEF TimerStep, TimerFires, TimerTests, TimerSetsAck,
                  TimerSendsAck, NothingShows
    <2> QED
      BY <2>1, NothingIsAllowed
  <1>7. ASSUME RetransmitStep(w) PROVE Confirmable(w)
    BY <1>7 DEF Confirmable, TypeInv, Addressed, ResponseInv, TypeChosen,
                RetransmitStep, RetransmitLock, RetransmitWhile,
                RetransmitWakes, RetransmitSends, RetransmitTests,
                RetransmitGivesUp, RetransmitForgets, RetransmitEnds
  <1>8. CASE RetransmitLock(w) \/ RetransmitWhile(w) \/ RetransmitSends(w)
    <2>1. /\ UNCHANGED <<stopped, wpc, rtype, rmid, racked, rrej, cnt>>
          /\ rpc[w] \in {"lock", "while", "send"}
          /\ \E to \in {"while", "wait", "end"} : rpc' = [rpc EXCEPT ![w] = to]
      BY <1>8 DEF RetransmitLock, RetransmitWhile, RetransmitSends
    <2>2. WorksOn(w)
      BY <2>1 DEF WorksOn
    <2>3. rpc'[w] \in {"while", "wait", "end"}
      BY <2>1 DEF TypeInv, TypeOK
    <2>4. MovesOn(w)
      BY <2>1, <2>3 DEF MovesOn, PhaseOf, Confirmable
    <2> QED
      BY <2>2, <2>4, MoveIsAllowed
  <1>9. CASE RetransmitWakes(w)
    <2>1. /\ UNCHANGED <<stopped, wpc, rtype, rmid, racked, rrej>>
          /\ rpc[w] = "wait"
          /\ \E to \in {"send", "while"} : rpc' = [rpc EXCEPT ![w] = to]
          /\ \/ Unanswered(w) /\ cnt' = [cnt EXCEPT ![w] = @ + 1]
             \/ cnt' = cnt
      BY <1>9 DEF RetransmitWakes, CountRetry
    <2>2. Confirmable(w) /\ cnt[w] < MaxRetransmit
      BY <1>7, <1>9, <2>1 DEF RetransmitStep, TypeInv, RetriesLeft
    <2>3. WorksOn(w)
      BY <2>1 DEF WorksOn, TypeInv, TypeOK
    <2>4. rpc'[w] \in {"send", "while"}
      BY <2>1 DEF TypeInv, TypeOK
    <2>5. PhaseOf(w)' = PhaseOf(w)
      BY <2>1, <2>4 DEF PhaseOf, Confirmable
    <2>6. Unanswered(w) => PhaseOf(w) = "waiting" /\ ~stopped
      BY <2>1, <2>2 DEF PhaseOf, Unanswered
    <2>7. cnt' = cnt \/ cnt'[w] = cnt[w] + 1
      BY <2>1 DEF TypeInv, TypeOK
    <2>8. MovesOn(w)
      BY <2>1, <2>2, <2>5, <2>6, <2>7 DEF MovesOn
    <2> QED
      BY <2>3, <2>8, MoveIsAllowed
  <1>10. CASE RetransmitTests(w)
    <2>1. /\ UNCHANGED <<stopped, wpc, rtype, rmid, racked, rrej, cnt>>
          /\ rpc[w] = "end"
          /\ rpc' = [rpc EXCEPT ![w] = IF Answered(w) THEN "drop" ELSE "giveUp"]
      BY <1>10 DEF RetransmitTests
    <2>2. Confirmable(w) /\ Confirmable(w)'
      BY <1>7, <1>10, <2>1 DEF Confirmable, RetransmitStep
    <2>3. WorksOn(w)
      BY <2>1 DEF WorksOn
    <2>4. CASE Answered(w)
      <3>1. rpc'[w] = "drop"
        BY <2>1, <2>4 DEF TypeInv, TypeOK
      <3>2. PhaseOf(w) = "answered" /\ PhaseOf(w)' = "answered"
        BY <2>1, <2>2, <2>4, <3>1 DEF PhaseOf
      <3> QED
        BY <2>1, <2>3, <3>2, MoveIsAllowed DEF MovesOn
    <2>5. CASE ~Answered(w)
      <3>1. rpc'[w] = "giveUp"
        BY <2>1, <2>5 DEF TypeInv, TypeOK
      <3>2. PhaseOf(w) = "waiting" /\ PhaseOf(w)' = "abandoned"
        BY <2>1, <2>2, <2>5, <3>1 DEF PhaseOf
      <3>3. cnt[w] = MaxRetransmit \/ stopped
        BY <2>1, <2>5 DEF RetransmissionInv, EndsForAReason
      <3> QED
        BY <2>1, <2>3, <3>2, <3>3, MoveIsAllowed DEF MovesOn, Moves
    <2> QED
      BY <2>4, <2>5
  <1>11. CASE RetransmitGivesUp(w) \/ RetransmitForgets(w)
    <2>1. /\ UNCHANGED <<stopped, wpc, rtype, rmid, cnt>>
          /\ rpc[w] \in {"giveUp", "forget"}
          /\ \E to \in {"forget", "drop"} : rpc' = [rpc EXCEPT ![w] = to]
          /\ \A v \in Worker : v # w => racked'[v] = racked[v] /\ rrej'[v] = rrej[v]
      BY <1>11 DEF RetransmitGivesUp, RetransmitForgets, TypeInv, TypeOK
    <2>2. WorksOn(w)
      BY <2>1 DEF WorksOn
    <2>3. rpc'[w] = "forget" \/ (rpc'[w] = "drop" /\ ~Answered(w)')
      BY <1>11 DEF RetransmitGivesUp, RetransmitForgets, TypeInv, TypeOK
    <2>4. Confirmable(w) /\ Confirmable(w)'
      BY <1>7, <1>11, <2>1 DEF Confirmable, RetransmitStep
    <2>5. PhaseOf(w) = "abandoned" /\ PhaseOf(w)' = "abandoned"
      BY <2>1, <2>3, <2>4 DEF PhaseOf
    <2> QED
      BY <2>1, <2>2, <2>5, MoveIsAllowed DEF MovesOn
  <1>12. CASE RetransmitEnds(w)
    <2>1. /\ UNCHANGED <<stopped, wpc, rtype, rmid, racked, rrej, cnt>>
          /\ rpc[w] = "drop" /\ rpc' = [rpc EXCEPT ![w] = "done"]
      BY <1>12 DEF RetransmitEnds
    <2>2. WorksOn(w)
      BY <2>1 DEF WorksOn
    <2>3. rpc'[w] = "done"
      BY <2>1 DEF TypeInv, TypeOK
    <2>4. MovesOn(w)
      BY <2>1, <2>3 DEF MovesOn, PhaseOf, Confirmable
    <2> QED
      BY <2>2, <2>4, MoveIsAllowed
  <1> QED
    BY <1>1, <1>2, <1>3, <1>4, <1>5, <1>6, <1>8, <1>9, <1>10, <1>11, <1>12
       DEF WorkerStep, HandlerEnds, RetransmitStep

LEMMA StepIsAllowed ==
  ASSUME TypeInv, ExecutionInv, RetransmissionInv, ResponseInv, FirstUnanswered,
         [Next]_vars
  PROVE  [Promise!Next]_Promise!vars
  <1>1. CASE UNCHANGED vars
    <2>1. NothingShows
      BY <1>1 DEF vars, NothingShows, SameAsBefore, Answered, respVars, rVars
    <2> QED
      BY <2>1, NothingIsAllowed
  <1> QED
    BY <1>1, ListenerIsAllowed, CloseIsAllowed, ThreadIsAllowed DEF Next, Quiet

LEMMA InitIsAllowed == Init => Promise!Init
  BY FirstIsWorker DEF Init, Promise!Init, PhaseOf, Confirmable

LEMMA RefinementInvariant ==
  ASSUME AnswersOnly
  PROVE  Spec => [](TypeInv /\ ExecutionInv /\ RetransmissionInv /\ ResponseInv
                      /\ FirstUnanswered)
  <1> DEFINE Inv == /\ TypeInv /\ ExecutionInv /\ RetransmissionInv /\ ResponseInv
                    /\ LockInv /\ OrderInv /\ AckInv /\ IdInv /\ FirstUnanswered
  <1>1. Init => Inv
    BY InitTypeInv, InitExecutionInv, InitRetransmissionInv, InitResponseInv,
       InitLockInv, InitOrderInv, InitAckInv, InitIdInv, InitFirstUnanswered
  <1>2. Inv /\ [Next]_vars => Inv'
    BY StepTypeInv, StepExecutionInv, StepRetransmissionInv, StepResponseInv,
       StepLockInv, StepOrderInv, StepAckInv, StepIdInv, StepFirstUnanswered
  <1>3. Inv => /\ TypeInv /\ ExecutionInv /\ RetransmissionInv /\ ResponseInv
               /\ FirstUnanswered
    OBVIOUS
  <1> HIDE DEF Inv
  <1> QED
    BY <1>1, <1>2, <1>3, PTL DEF Spec

\* Whatever a peer sends that answers only what it was sent, and however the
\* listener, the workers, the timers and the retransmission threads interleave,
\* the first execution of a request is taken up once, fails or produces one
\* reply, and a reply that needs an answer is repeated at most MAX_RETRANSMIT
\* times and abandoned only after that or because the server was closed; an
\* answer that comes then still counts (server/coap.py, receive_request and
\* _retransmit; messages/message.py, the setters).
THEOREM ThreadsKeepPromise ==
  ASSUME AnswersOnly
  PROVE  Spec => KeepsPromise
  BY StepIsAllowed, InitIsAllowed, RefinementInvariant, PTL
     DEF Spec, KeepsPromise, Promise!Spec

=============================================================================
