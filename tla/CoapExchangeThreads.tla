------------------------ MODULE CoapExchangeThreads ------------------------
(***************************************************************************)
(* Proofs about the threads of a transaction in CoapExchange: who is       *)
(* inside its lock, what its retransmission threads may do, and that       *)
(* nobody takes a request for acknowledged before an ACK has left, or is   *)
(* about to leave, the server.                                             *)
(***************************************************************************)
EXTENDS CoapExchangeProofs

-----------------------------------------------------------------------------
(***************************************************************************)
(* The lock.  A step takes the lock of a transaction for one thread, gives *)
(* it back from the one thread that is inside, or leaves all locks alone.  *)
(* A worker that has started its retransmission is still inside while that *)
(* thread waits; it is the same w that holds the lock before and after.    *)
(***************************************************************************)
Holds(w) == WorkerInside(w) \/ RetransmitInside(w)

LockInv ==
  /\ \A w \in Worker : Holds(w) => lock[w[1]]
  /\ \A r \in Req : lock[r] => \E w \in Worker : w[1] = r /\ Holds(w)
  /\ \A v, w \in Worker : v[1] = w[1] /\ Holds(v) /\ Holds(w) => v = w
  /\ \A w \in Worker : ~(WorkerInside(w) /\ RetransmitInside(w))

HoldsAsBefore(w) ==
  /\ WorkerInside(w)' <=> WorkerInside(w)
  /\ RetransmitInside(w)' <=> RetransmitInside(w)

OthersHoldAsBefore(w) == \A v \in Worker : v # w => HoldsAsBefore(v)

LocksKept == lock' = lock /\ \A w \in Worker : HoldsAsBefore(w)

LockTaken(w) ==
  /\ Acquire(w[1])
  /\ Holds(w)' /\ ~(WorkerInside(w) /\ RetransmitInside(w))'
  /\ OthersHoldAsBefore(w)

LockGiven(w) ==
  /\ Holds(w) /\ Release(w[1])
  /\ ~Holds(w)'
  /\ OthersHoldAsBefore(w)

LEMMA LockStep ==
  ASSUME TypeInv, LockInv,
         LocksKept \/ \E w \in Worker : LockTaken(w) \/ LockGiven(w)
  PROVE  LockInv'
  <1> USE DEF TypeInv, TypeOK, LockInv, OthersHoldAsBefore, HoldsAsBefore
  <1>0. \A w \in Worker : w[1] \in Req
    BY DEF Worker
  <1>1. CASE LocksKept
    BY <1>1 DEF LocksKept, Holds
  <1>2. ASSUME NEW w \in Worker, LockTaken(w) PROVE LockInv'
    <2>1. ~lock[w[1]] /\ lock' = [lock EXCEPT ![w[1]] = TRUE]
      BY <1>2 DEF LockTaken, Acquire
    <2>2. \A v \in Worker : v[1] = w[1] => ~Holds(v)
      BY <2>1
    <2>3. \A v \in Worker : v # w => (Holds(v)' <=> Holds(v))
      BY <1>2 DEF LockTaken, Holds
    <2>4. \A v \in Worker : Holds(v)' /\ v[1] = w[1] => v = w
      BY <2>2, <2>3
    <2>5. \A v \in Worker : Holds(v)' => lock'[v[1]]
      BY <1>0, <2>1, <2>3
    <2>6. \A r \in Req : lock'[r] => \E v \in Worker : v[1] = r /\ Holds(v)'
      <3> TAKE r \in Req
      <3>1. CASE r = w[1]
        BY <1>2, <3>1 DEF LockTaken
      <3>2. CASE r # w[1]
        BY <2>1, <2>3, <3>2
      <3> QED
        BY <3>1, <3>2
    <2>7. \A v \in Worker : ~(WorkerInside(v) /\ RetransmitInside(v))'
      BY <1>2 DEF LockTaken
    <2>8. \A u, v \in Worker : u[1] = v[1] /\ Holds(u)' /\ Holds(v)' => u = v
      BY <2>3, <2>4
    <2> QED
      BY <2>5, <2>6, <2>7, <2>8
  <1>3. ASSUME NEW w \in Worker, LockGiven(w) PROVE LockInv'
    <2>1. lock' = [lock EXCEPT ![w[1]] = FALSE]
      BY <1>3 DEF LockGiven, Release
    <2>2. \A v \in Worker : v # w => (Holds(v)' <=> Holds(v))
      BY <1>3 DEF LockGiven, Holds
    <2>3. \A v \in Worker : v[1] = w[1] => ~Holds(v)'
      BY <1>3, <2>2 DEF LockGiven
    <2>4. \A v \in Worker : Holds(v)' => lock'[v[1]]
      BY <1>0, <2>1, <2>2, <2>3
    <2>5. \A r \in Req : lock'[r] => \E v \in Worker : v[1] = r /\ Holds(v)'
      BY <2>1, <2>2
    <2>6. \A v \in Worker : ~(WorkerInside(v) /\ RetransmitInside(v))'
      BY <1>3, <2>3 DEF LockGiven, Holds
    <2>7. \A u, v \in Worker : u[1] = v[1] /\ Holds(u)' /\ Holds(v)' => u = v
      BY <2>2, <2>3
    <2> QED
      BY <2>4, <2>5, <2>6, <2>7
  <1> QED
    BY <1>1, <1>2, <1>3

\* The listener starts workers, which wait for the lock first.
LEMMA StartedWorkerIsOutside ==
  ASSUME TypeInv, ExecutionInv, NEW r \in Req, StartWorker(r)
  PROVE  \A w \in Worker : WorkerInside(w)' <=> WorkerInside(w)
  <1>1. PICK n \in Worker : wpc[n] = "none" /\ wpc' = [wpc EXCEPT ![n] = "lock"]
    BY StartedWorker
  <1> QED
    BY <1>1 DEF TypeInv, TypeOK, WorkerInside

LEMMA ListenerKeepsLocks ==
  ASSUME TypeInv, ExecutionInv, Deliver \/ ListenerInternal \/ Close
  PROVE  LocksKept
  <1> USE DEF LocksKept, HoldsAsBefore, WorkerInside, RetransmitInside, rVars
  <1>1. ASSUME NEW r \in Req, ListenNew(r) PROVE LocksKept
    BY <1>1, StartedWorkerIsOutside DEF ListenNew
  <1>2. CASE DupFallThrough
    <2>1. lreq \in Req /\ StartWorker(lreq)
      BY <1>2 DEF DupFallThrough, TypeInv, TypeOK
    <2> QED
      BY <1>2, <2>1, StartedWorkerIsOutside DEF DupFallThrough
  <1>3. ASSUME NEW r \in Req, ListenDuplicate(r) PROVE LocksKept
    BY <1>3 DEF ListenDuplicate
  <1>4. ASSUME NEW m \in Mid,
               \/ ListenAck(m) \/ ListenRst(m)
               \/ \E type \in {"CON", "NON"} : ListenOther(type, m)
        PROVE  LocksKept
    BY <1>4 DEF ListenAck, ListenRst, ListenOther
  <1>5. CASE \/ DupIfCompleted \/ DupElifNotCompleted \/ DupResend \/ DupAck
             \/ DupSetAck \/ DupSendAck
    BY <1>5 DEF DupIfCompleted, DupElifNotCompleted, DupResend, DupAck,
                DupSetAck, DupSendAck
  <1>6. CASE \/ EmptyIfStop \/ EmptySetStop \/ EmptyObserve \/ ListenerStops
             \/ ListenBadRequest \/ Close
    BY <1>6 DEF EmptyIfStop, EmptySetStop, EmptyObserve, ListenerStops,
                ListenBadRequest, Close
  <1> QED
    BY <1>1, <1>2, <1>3, <1>4, <1>5, <1>6 DEF Deliver, ListenerInternal

LEMMA ThreadLocks ==
  ASSUME TypeInv, LockInv, NEW w \in Worker,
         \/ WorkerStep(w) \/ HandlerSeparate(w) \/ HandlerEnds(w)
         \/ TimerStep(w) \/ RetransmitStep(w)
  PROVE  LocksKept \/ LockTaken(w) \/ LockGiven(w)
  <1> USE DEF TypeInv, TypeOK, Holds, HoldsAsBefore, OthersHoldAsBefore,
              WorkerInside, RetransmitInside, WorkerAt, WorkerGoto, rVars
  <1>1. CASE WorkerLock(w)
    <2>1. ~Holds(w)
      BY <1>1 DEF WorkerLock, Acquire, LockInv
    <2> QED
      BY <1>1, <2>1 DEF WorkerLock, LockTaken
  <1>2. CASE HandlerRaises(w)
    BY <1>2 DEF HandlerRaises, LockGiven, LockInv
  <1>3. CASE WorkerSend(w)
    BY <1>3 DEF WorkerSend, LockGiven, LockInv
  <1>4. CASE RetransmitLock(w)
    <2>1. ~Holds(w)
      BY <1>4 DEF RetransmitLock, Acquire, LockInv
    <2> QED
      BY <1>4, <2>1 DEF RetransmitLock, LockTaken
  <1>5. CASE RetransmitEnds(w)
    BY <1>5 DEF RetransmitEnds, LockGiven, LockInv
  <1>6. CASE \/ RetransmitWhile(w) \/ RetransmitWakes(w) \/ RetransmitSends(w)
             \/ RetransmitTests(w) \/ RetransmitGivesUp(w)
             \/ RetransmitForgets(w)
    BY <1>6 DEF RetransmitWhile, RetransmitWakes, RetransmitSends,
                RetransmitTests, RetransmitGivesUp, RetransmitForgets, LocksKept
  <1>7. CASE \/ WorkerDispatch(w) \/ SeparateSetAck(w) \/ SeparateSendAck(w)
             \/ WorkerStopTimer(w) \/ WorkerDecide(w) \/ WorkerPiggyback(w)
             \/ WorkerFetchMid(w) \/ WorkerRegister(w) \/ HandlerReturns(w)
             \/ HandlerSeparate(w)
    BY <1>7
       DEF WorkerDispatch, SeparateSetAck, SeparateSendAck, WorkerStopTimer,
           WorkerDecide, WorkerPiggyback, WorkerFetchMid, WorkerRegister,
           HandlerReturns, HandlerSeparate, LocksKept
  <1>8. CASE WorkerStartRetransmission(w)
    <2>1. ~RetransmitInside(w)
      BY <1>8 DEF WorkerStartRetransmission, LockInv
    <2> QED
      BY <1>8, <2>1 DEF WorkerStartRetransmission, LocksKept
  <1>9. CASE TimerStep(w)
    BY <1>9 DEF TimerStep, TimerFires, TimerTests, TimerSetsAck, TimerSendsAck,
                LocksKept
  <1>10. CASE WorkerUnknownMethod(w)
    BY <1>10 DEF WorkerUnknownMethod, LockGiven, LockInv
  <1> QED
    BY <1>1, <1>2, <1>3, <1>4, <1>5, <1>6, <1>7, <1>8, <1>9, <1>10
       DEF WorkerStep, HandlerEnds, RetransmitStep

LEMMA StepLockInv ==
  TypeInv /\ ExecutionInv /\ LockInv /\ [Next]_vars => LockInv'
  <1> SUFFICES ASSUME TypeInv, ExecutionInv, LockInv, [Next]_vars
               PROVE  LockInv'
    OBVIOUS
  <1>1. CASE UNCHANGED vars
    BY <1>1, LockStep
       DEF vars, LocksKept, HoldsAsBefore, WorkerInside, RetransmitInside, rVars
  <1> QED
    BY <1>1, LockStep, ListenerKeepsLocks, ThreadLocks DEF Next, Quiet

LEMMA LockInvDiscipline == LockInv => LockDiscipline
  <1> SUFFICES ASSUME LockInv, NEW r \in Req
               PROVE  LET inside == {w \in Worker : w[1] = r /\ WorkerInside(w)}
                          resending ==
                            {w \in Worker : w[1] = r /\ RetransmitInside(w)}
                      IN  /\ lock[r] <=> (inside \cup resending # {})
                          /\ \A v, w \in inside \cup resending : v = w
                          /\ inside \cap resending = {}
    BY DEF LockDiscipline
  <1> QED
    BY DEF LockInv, Holds

LEMMA InitLockInv == Init => LockInv
  BY DEF Init, LockInv, Holds, WorkerInside, RetransmitInside

\* At most one thread of a transaction is between `with transaction` and its
\* end, and nobody leaves it behind locked, whichever way it ends
\* (server/coap.py, receive_request and _retransmit).
THEOREM LocksAreDisciplined == Spec => []LockDiscipline
  BY InitLockInv, StepLockInv, LockInvDiscipline, ExecutionInvariant, PTL DEF Spec

-----------------------------------------------------------------------------
(***************************************************************************)
(* The retransmissions.  A worker starts its retransmission thread last,   *)
(* so that a thread that was ever started belongs to a worker that was; a  *)
(* copy that was late was the last one; and whoever stops has a reason.    *)
(* Only a thread that gives up forgets an answer, and none that was late   *)
(* gives up.                                                               *)
(***************************************************************************)
RetransmitsLast ==
  \A w \in Worker : wpc[w] \notin {"send", "done"} => rpc[w] = "none"

LateIsLast ==
  \A w \in Worker :
    late[w] # 0 => /\ late[w] = 1 /\ Answered(w)
                   /\ rpc[w] \in {"while", "end", "drop", "done"}

EndsForAReason ==
  \A w \in Worker :
    /\ rpc[w] = "end" => Answered(w) \/ cnt[w] = MaxRetransmit \/ stopped
    /\ rpc[w] = "giveUp" => cnt[w] = MaxRetransmit \/ stopped

GaveUpForAReason ==
  \A w \in Worker :
    gaveUp[w] => /\ rpc[w] \in {"forget", "drop", "done"}
                 /\ cnt[w] = MaxRetransmit \/ stopped

EventWhileAlive ==
  \A r \in Req :
    spawned[r] <= 1 =>
      (stop[r] # "none" <=> rpc[<<r, 1>>] \notin {"none", "done"})

RetransmissionInv ==
  RetransmitsLast /\ LateIsLast /\ EndsForAReason /\ GaveUpForAReason
    /\ EventWhileAlive

\* What every step that is not one of a retransmission thread, or its start,
\* does to the variables of RetransmissionInv.
RetransmissionFrame ==
  /\ UNCHANGED <<rpc, cnt, late>>
  /\ \A w \in Worker : gaveUp'[w] => gaveUp[w]
  /\ stopped => stopped'
  /\ \A w \in Worker : Answered(w) => Answered(w)'
  /\ \A w \in Worker : wpc[w] \in {"send", "done"} => wpc'[w] \in {"send", "done"}
  /\ \A r \in Req : stop'[r] # "none" <=> stop[r] # "none"
  /\ \A r \in Req : spawned'[r] <= 1 => spawned[r] <= 1

LEMMA FrameKeepsRetransmissionInv ==
  TypeInv /\ RetransmissionInv /\ RetransmissionFrame => RetransmissionInv'
  BY DEF RetransmissionInv, RetransmissionFrame, RetransmitsLast, LateIsLast,
         EndsForAReason, GaveUpForAReason, EventWhileAlive, rVars

LEMMA StartWorkerRetransmissionFrame ==
  ASSUME TypeInv, ExecutionInv, NEW r \in Req, StartWorker(r)
  PROVE  /\ \A w \in Worker :
              wpc[w] \in {"send", "done"} => wpc'[w] \in {"send", "done"}
         /\ \A q \in Req : spawned'[q] <= 1 => spawned[q] <= 1
  <1>1. PICK n \in Worker : wpc[n] = "none" /\ wpc' = [wpc EXCEPT ![n] = "lock"]
    BY StartedWorker
  <1>2. \A w \in Worker :
          wpc[w] \in {"send", "done"} => wpc'[w] \in {"send", "done"}
    BY <1>1 DEF TypeInv, TypeOK
  <1>3. spawned \in [Req -> Nat] /\ spawned' = [spawned EXCEPT ![r] = @ + 1]
    BY ExchangeAssumption DEF TypeInv, TypeOK, StartWorker
  <1>4. \A q \in Req : spawned'[q] <= 1 => spawned[q] <= 1
    BY <1>3
  <1> QED
    BY <1>2, <1>4

\* The setters of an answer take no answer back.
LEMMA SettersAnswer ==
  ASSUME TypeInv,
         \/ \E w : SetAcknowledged(w) \/ SetRejected(w)
         \/ UNCHANGED <<racked, rrej, gaveUp>>
  PROVE  /\ \A v \in Worker : Answered(v) => Answered(v)'
         /\ \A v \in Worker : gaveUp'[v] => gaveUp[v]
  BY DEF SetAcknowledged, SetRejected, Answered, TypeInv, TypeOK

LEMMA ListenerRetransmissionFrame ==
  ASSUME TypeInv, ExecutionInv, Deliver \/ ListenerInternal \/ Close
  PROVE  RetransmissionFrame
  <1> USE DEF RetransmissionFrame, respVars, tVars, rVars
  <1>4. ASSUME NEW m \in Mid, ListenAck(m) PROVE RetransmissionFrame
    <2>1. (\E w : SetAcknowledged(w)) \/ UNCHANGED <<racked, rrej, gaveUp>>
      BY <1>4 DEF ListenAck
    <2>2. /\ \A v \in Worker : Answered(v) => Answered(v)'
          /\ \A v \in Worker : gaveUp'[v] => gaveUp[v]
      BY <2>1, SettersAnswer
    <2> QED
      BY <1>4, <2>2 DEF ListenAck
  <1>5. ASSUME NEW m \in Mid, ListenRst(m) PROVE RetransmissionFrame
    <2>1. (\E w : SetRejected(w)) \/ UNCHANGED <<racked, rrej, gaveUp>>
      BY <1>5 DEF ListenRst
    <2>2. /\ \A v \in Worker : Answered(v) => Answered(v)'
          /\ \A v \in Worker : gaveUp'[v] => gaveUp[v]
      BY <2>1, SettersAnswer
    <2> QED
      BY <1>5, <2>2 DEF ListenRst
  <1> USE DEF Answered
  <1>1. ASSUME NEW r \in Req, ListenNew(r) PROVE RetransmissionFrame
    BY <1>1, StartWorkerRetransmissionFrame DEF ListenNew
  <1>2. CASE DupFallThrough
    <2>1. lreq \in Req /\ StartWorker(lreq)
      BY <1>2 DEF DupFallThrough, TypeInv, TypeOK
    <2> QED
      BY <1>2, <2>1, StartWorkerRetransmissionFrame DEF DupFallThrough
  <1>3. ASSUME NEW r \in Req, ListenDuplicate(r) PROVE RetransmissionFrame
    BY <1>3 DEF ListenDuplicate
  <1>6. ASSUME NEW m \in Mid, NEW type \in {"CON", "NON"}, ListenOther(type, m)
        PROVE  RetransmissionFrame
    BY <1>6 DEF ListenOther
  <1>7. CASE \/ DupIfCompleted \/ DupElifNotCompleted \/ DupResend \/ DupAck
             \/ DupSetAck \/ DupSendAck
    BY <1>7 DEF DupIfCompleted, DupElifNotCompleted, DupResend, DupAck,
                DupSetAck, DupSendAck
  <1>8. CASE EmptyIfStop \/ EmptySetStop \/ EmptyObserve \/ ListenerStops
    BY <1>8 DEF EmptyIfStop, EmptySetStop, EmptyObserve, ListenerStops, TypeInv,
                TypeOK
  <1>10. CASE ListenBadRequest
    BY <1>10 DEF ListenBadRequest
  <1>9. CASE Close
    BY <1>9 DEF Close, TypeInv, TypeOK
  <1> QED
    BY <1>1, <1>2, <1>3, <1>4, <1>5, <1>6, <1>7, <1>8, <1>9, <1>10
       DEF Deliver, ListenerInternal

LEMMA ThreadRetransmissionFrame ==
  ASSUME TypeInv, NEW w \in Worker,
         \/ WorkerStep(w) \/ HandlerSeparate(w) \/ HandlerEnds(w) \/ TimerStep(w)
  PROVE  WorkerStartRetransmission(w) \/ RetransmissionFrame
  <1> USE DEF TypeInv, TypeOK, RetransmissionFrame, respVars, tVars, rVars,
              WorkerAt, WorkerGoto
  <1>5. CASE WorkerPiggyback(w)
    <2>1. /\ \A v \in Worker : Answered(v) => Answered(v)'
          /\ \A v \in Worker : gaveUp'[v] => gaveUp[v]
      <3>1. \E v : SetAcknowledged(v)
        BY <1>5 DEF WorkerPiggyback
      <3> QED
        BY <3>1, SettersAnswer
    <2> QED
      BY <1>5, <2>1 DEF WorkerPiggyback
  <1> USE DEF Answered
  <1>1. CASE \/ WorkerLock(w) \/ WorkerDispatch(w) \/ SeparateSetAck(w)
             \/ SeparateSendAck(w) \/ WorkerStopTimer(w)
    BY <1>1 DEF WorkerLock, WorkerDispatch, SeparateSetAck, SeparateSendAck,
                WorkerStopTimer
  <1>2. CASE \/ WorkerDecide(w) \/ WorkerFetchMid(w) \/ WorkerRegister(w)
             \/ WorkerSend(w) \/ WorkerUnknownMethod(w)
    BY <1>2 DEF WorkerDecide, WorkerFetchMid, WorkerRegister, WorkerSend,
                WorkerUnknownMethod
  <1>3. CASE HandlerSeparate(w) \/ HandlerEnds(w)
    BY <1>3 DEF HandlerSeparate, HandlerEnds, HandlerReturns, HandlerRaises
  <1>4. CASE TimerStep(w)
    BY <1>4 DEF TimerStep, TimerFires, TimerTests, TimerSetsAck, TimerSendsAck
  <1> QED
    BY <1>1, <1>2, <1>3, <1>4, <1>5 DEF WorkerStep

\* The start and the end of a retransmission thread: while its request has one
\* worker, the event is this thread's.
LEMMA OnlyWorker ==
  ASSUME TypeInv, ExecutionInv, RetransmitsLast, NEW w \in Worker,
         wpc[w] # "none" \/ rpc[w] # "none", spawned[w[1]] <= 1
  PROVE  w = <<w[1], 1>>
  <1>1. /\ w[1] \in Req /\ w[2] \in 1 .. MaxWorkers /\ w = <<w[1], w[2]>>
        /\ spawned[w[1]] \in Nat
    BY ExchangeAssumption DEF Worker, TypeInv, TypeOK
  <1>2. wpc[w] # "none"
    BY DEF RetransmitsLast
  <1>3. w[2] <= spawned[w[1]]
    BY <1>2 DEF ExecutionInv
  <1> DEFINE k == w[2]
  <1>4. k \in Nat /\ 1 <= k /\ k <= 1
    BY <1>1, <1>3, ExchangeAssumption
  <1> HIDE DEF k
  <1>5. k = 1
    BY <1>4
  <1> QED
    BY <1>1, <1>5 DEF k

LEMMA StartKeepsRetransmissionInv ==
  ASSUME TypeInv, ExecutionInv, RetransmissionInv, NEW w \in Worker,
         WorkerStartRetransmission(w)
  PROVE  RetransmissionInv'
  <1> USE DEF TypeInv, TypeOK, RetransmissionInv, WorkerStartRetransmission,
              WorkerAt, WorkerGoto, respVars, Answered
  <1>1. rpc[w] = "none"
    BY DEF RetransmitsLast
  <1>2. RetransmitsLast' /\ LateIsLast' /\ EndsForAReason' /\ GaveUpForAReason'
    BY <1>1 DEF RetransmitsLast, LateIsLast, EndsForAReason, GaveUpForAReason
  <1>3. EventWhileAlive'
    <2> SUFFICES ASSUME NEW r \in Req, spawned[r] <= 1
                 PROVE  stop'[r] # "none"
                          <=> rpc'[<<r, 1>>] \notin {"none", "done"}
      BY DEF EventWhileAlive
    <2>1. CASE r = w[1]
      BY <2>1, OnlyWorker
    <2>2. CASE r # w[1]
      <3>1. <<r, 1>> # w
        BY <2>2
      <3> QED
        BY <2>2, <3>1 DEF EventWhileAlive
    <2> QED
      BY <2>1, <2>2
  <1> QED
    BY <1>2, <1>3

LEMMA RetransmitKeepsRetransmissionInv ==
  ASSUME TypeInv, ExecutionInv, RetransmissionInv, NEW w \in Worker,
         RetransmitStep(w)
  PROVE  RetransmissionInv'
  <1> USE DEF TypeInv, TypeOK, RetransmissionInv, respVars, tVars, Answered
  <1>0. rpc[w] # "none" => wpc[w] \in {"send", "done"}
    BY DEF RetransmitsLast
  <1>1. CASE RetransmitLock(w)
    BY <1>0, <1>1 DEF RetransmitLock, RetransmitsLast, LateIsLast, EndsForAReason,
                GaveUpForAReason, EventWhileAlive
  <1>2. CASE RetransmitWhile(w)
    <2>1. cnt[w] \in 0 .. MaxRetransmit
      OBVIOUS
    <2>2. rpc'[w] = "end" => Answered(w) \/ cnt[w] = MaxRetransmit \/ stopped
      BY <1>2, <2>1, ExchangeAssumption
         DEF RetransmitWhile, MayRetry, Unanswered
    <2>3. rpc'[w] = "wait" => ~Answered(w)
      BY <1>2 DEF RetransmitWhile, MayRetry, Unanswered
    <2> QED
      BY <1>0, <1>2, <2>2, <2>3
         DEF RetransmitWhile, RetransmitsLast, LateIsLast, EndsForAReason,
             GaveUpForAReason, EventWhileAlive
  <1>3. CASE RetransmitWakes(w)
    <2>1. rpc[w] = "wait" /\ late[w] = 0 /\ ~gaveUp[w]
      BY <1>3 DEF RetransmitWakes, LateIsLast, GaveUpForAReason
    <2>2. /\ \E to \in {"send", "while"} : rpc' = [rpc EXCEPT ![w] = to]
          /\ \A v \in Worker : v # w => cnt'[v] = cnt[v]
          /\ UNCHANGED <<stopped, spawned, stop, wpc, racked, rrej, gaveUp, late>>
      BY <1>3 DEF RetransmitWakes, CountRetry
    <2>3. RetransmitsLast' /\ LateIsLast'
      BY <1>0, <2>1, <2>2 DEF RetransmitsLast, LateIsLast
    <2>4. EndsForAReason' /\ GaveUpForAReason'
      BY <2>1, <2>2 DEF EndsForAReason, GaveUpForAReason
    <2>5. EventWhileAlive'
      BY <2>1, <2>2 DEF EventWhileAlive
    <2> QED
      BY <2>3, <2>4, <2>5
  <1>4. CASE RetransmitSends(w)
    <2>1. late[w] = 0
      BY <1>4 DEF RetransmitSends, LateIsLast
    <2> QED
      BY <1>0, <1>4, <2>1
         DEF RetransmitSends, RetransmitsLast, LateIsLast, EndsForAReason,
             GaveUpForAReason, EventWhileAlive
  <1>5. CASE RetransmitEnds(w)
    <2>1. RetransmitsLast' /\ LateIsLast' /\ EndsForAReason' /\ GaveUpForAReason'
      BY <1>0, <1>5
         DEF RetransmitEnds, RetransmitsLast, LateIsLast, EndsForAReason,
             GaveUpForAReason
    <2>2. EventWhileAlive'
      <3> SUFFICES ASSUME NEW r \in Req, spawned[r] <= 1
                   PROVE  stop'[r] # "none"
                            <=> rpc'[<<r, 1>>] \notin {"none", "done"}
        BY <1>5 DEF EventWhileAlive, RetransmitEnds
      <3>1. CASE r = w[1]
        <4>1. w = <<r, 1>>
          <5>1. rpc[w] # "none" /\ spawned[w[1]] <= 1
            BY <1>5, <3>1 DEF RetransmitEnds
          <5> QED
            BY <3>1, <5>1, OnlyWorker DEF RetransmissionInv
        <4>2. stop'[r] = "none" /\ rpc'[w] = "done"
          BY <1>5, <3>1 DEF RetransmitEnds, DropEvent
        <4> QED
          BY <4>1, <4>2
      <3>2. CASE r # w[1]
        <4>1. <<r, 1>> # w
          BY <3>2
        <4> QED
          BY <1>5, <3>2, <4>1 DEF RetransmitEnds, DropEvent, EventWhileAlive
      <3> QED
        BY <3>1, <3>2
    <2> QED
      BY <2>1, <2>2
  <1>6. CASE RetransmitTests(w)
    <2>1. late[w] # 0 => rpc'[w] = "drop" /\ Answered(w)
      BY <1>6 DEF RetransmitTests, LateIsLast
    <2>2. rpc'[w] = "giveUp" => cnt[w] = MaxRetransmit \/ stopped
      BY <1>6 DEF RetransmitTests, EndsForAReason
    <2>3. /\ rpc[w] = "end"
          /\ \E to \in {"drop", "giveUp"} : rpc' = [rpc EXCEPT ![w] = to]
          /\ \A v \in Worker : gaveUp'[v] => gaveUp[v]
          /\ UNCHANGED <<stopped, spawned, stop, wpc, racked, rrej, cnt, late>>
      BY <1>6 DEF RetransmitTests
    <2>4. RetransmitsLast' /\ LateIsLast'
      BY <1>0, <2>1, <2>3 DEF RetransmitsLast, LateIsLast
    <2>5. EndsForAReason' /\ GaveUpForAReason'
      BY <2>2, <2>3 DEF EndsForAReason, GaveUpForAReason
    <2>6. EventWhileAlive'
      BY <2>3 DEF EventWhileAlive
    <2> QED
      BY <2>4, <2>5, <2>6
  <1>7. CASE RetransmitGivesUp(w)
    BY <1>0, <1>7 DEF RetransmitGivesUp, RetransmitsLast, LateIsLast,
                      EndsForAReason, GaveUpForAReason, EventWhileAlive
  <1>8. CASE RetransmitForgets(w)
    BY <1>0, <1>8 DEF RetransmitForgets, RetransmitsLast, LateIsLast,
                      EndsForAReason, GaveUpForAReason, EventWhileAlive
  <1> QED
    BY <1>1, <1>2, <1>3, <1>4, <1>5, <1>6, <1>7, <1>8 DEF RetransmitStep

LEMMA StepRetransmissionInv ==
  TypeInv /\ ExecutionInv /\ RetransmissionInv /\ [Next]_vars
    => RetransmissionInv'
  <1> SUFFICES ASSUME TypeInv, ExecutionInv, RetransmissionInv, [Next]_vars
               PROVE  RetransmissionInv'
    OBVIOUS
  <1>1. CASE UNCHANGED vars
    BY <1>1, FrameKeepsRetransmissionInv
       DEF vars, RetransmissionFrame, Answered, respVars, tVars, rVars
  <1> QED
    BY <1>1, FrameKeepsRetransmissionInv, ListenerRetransmissionFrame,
       ThreadRetransmissionFrame, StartKeepsRetransmissionInv,
       RetransmitKeepsRetransmissionInv DEF Next, Quiet

LEMMA InitRetransmissionInv == Init => RetransmissionInv
  BY ExchangeAssumption
     DEF Init, RetransmissionInv, RetransmitsLast, LateIsLast, EndsForAReason,
         GaveUpForAReason, EventWhileAlive, Worker

LEMMA RetransmissionInvIsSound ==
  TypeInv /\ RetransmissionInv => RetransmissionIsSound
  <1> SUFFICES ASSUME TypeInv, RetransmissionInv PROVE RetransmissionIsSound
    OBVIOUS
  <1>1. AtMostOneLateCopy
    BY DEF AtMostOneLateCopy, RetransmissionInv, LateIsLast, TypeInv, TypeOK
  <1>2. GiveUpOnlyWhenExhausted
    BY DEF GiveUpOnlyWhenExhausted, RetransmissionInv, GaveUpForAReason
  <1>3. EventWhileRetransmitting
    BY DEF EventWhileRetransmitting, RetransmissionInv, EventWhileAlive
  <1> QED
    BY <1>1, <1>2, <1>3 DEF RetransmissionIsSound

\* A retransmission thread sends at most one copy after the answer, gives up only
\* after MAX_RETRANSMIT copies or because the server was closed, and as long as
\* its request was executed once the listener has an event to wake it with
\* (server/coap.py, _start_retransmission and _retransmit).
THEOREM RetransmissionsAreSound == Spec => []RetransmissionIsSound
  BY InitRetransmissionInv, StepRetransmissionInv, RetransmissionInvIsSound,
     ExecutionInvariant, PTL DEF Spec

-----------------------------------------------------------------------------
(***************************************************************************)
(* The responses.  A worker takes the lock, then starts its timer; it      *)
(* chooses the type of its response, then gives it an id, then starts to   *)
(* retransmit it.                                                          *)
(***************************************************************************)
Answering ==
  {"piggyback", "fetchMid", "register", "retransmission", "send", "done"}

Outside == {"none", "lock"}

TimerLater(w) == wpc[w] \in Outside => timer[w] = "none"

TypeChosen(w) ==
  /\ wpc[w] = "piggyback" => rtype[w] = "ACK"
  /\ wpc[w] \in {"fetchMid", "register"} =>
       rtype[w] = "CON" \/ (rtype[w] = "NON" /\ w[1] \notin ConReq)
  /\ wpc[w] = "retransmission" \/ rpc[w] # "none" => rtype[w] = "CON"

IdLast(w) == rmid[w] # NoMid => wpc[w] \in {"retransmission", "send", "done"}

ResponseInv == \A w \in Worker : TimerLater(w) /\ TypeChosen(w) /\ IdLast(w)

\* What the steps do that do not work on a response.
ResponseFrame ==
  /\ UNCHANGED <<rtype, rmid>>
  /\ \A w \in Worker : rpc'[w] # "none" => rpc[w] # "none"
  /\ \A w \in Worker :
       wpc'[w] \in Outside => wpc[w] \in Outside /\ timer'[w] = timer[w]
  /\ \A w \in Worker : \/ wpc'[w] = wpc[w]
                       \/ wpc[w] \notin Answering /\ wpc'[w] \notin Answering
                       \/ wpc[w] = "send" /\ wpc'[w] = "done"

LEMMA FrameKeepsResponseInv == ResponseInv /\ ResponseFrame => ResponseInv'
  BY DEF ResponseInv, ResponseFrame, TimerLater, TypeChosen, IdLast, Answering

LEMMA StartWorkerResponseFrame ==
  ASSUME TypeInv, ExecutionInv, NEW r \in Req, StartWorker(r)
  PROVE  /\ \A w \in Worker :
              \/ wpc'[w] = wpc[w]
              \/ wpc[w] \notin Answering /\ wpc'[w] \notin Answering
         /\ \A w \in Worker : wpc'[w] \in Outside => wpc[w] \in Outside
  <1>1. PICK n \in Worker : wpc[n] = "none" /\ wpc' = [wpc EXCEPT ![n] = "lock"]
    BY StartedWorker
  <1> QED
    BY <1>1 DEF TypeInv, TypeOK, Answering, Outside

LEMMA ListenerResponseFrame ==
  ASSUME TypeInv, ExecutionInv, Deliver \/ ListenerInternal \/ Close
  PROVE  ResponseFrame
  <1> USE DEF ResponseFrame, respVars, rVars
  <1>1. ASSUME NEW r \in Req, ListenNew(r) PROVE ResponseFrame
    BY <1>1, StartWorkerResponseFrame DEF ListenNew
  <1>2. CASE DupFallThrough
    <2>1. lreq \in Req /\ StartWorker(lreq)
      BY <1>2 DEF DupFallThrough, TypeInv, TypeOK
    <2> QED
      BY <1>2, <2>1, StartWorkerResponseFrame DEF DupFallThrough
  <1>3. ASSUME NEW r \in Req, ListenDuplicate(r) PROVE ResponseFrame
    BY <1>3 DEF ListenDuplicate
  <1>4. ASSUME NEW m \in Mid,
               \/ ListenAck(m) \/ ListenRst(m)
               \/ \E type \in {"CON", "NON"} : ListenOther(type, m)
        PROVE  ResponseFrame
    BY <1>4 DEF ListenAck, ListenRst, ListenOther
  <1>5. CASE \/ DupIfCompleted \/ DupElifNotCompleted \/ DupResend \/ DupAck
             \/ DupSetAck \/ DupSendAck
    BY <1>5 DEF DupIfCompleted, DupElifNotCompleted, DupResend, DupAck,
                DupSetAck, DupSendAck
  <1>6. CASE \/ EmptyIfStop \/ EmptySetStop \/ EmptyObserve \/ ListenerStops
             \/ ListenBadRequest \/ Close
    BY <1>6 DEF EmptyIfStop, EmptySetStop, EmptyObserve, ListenerStops,
                ListenBadRequest, Close
  <1> QED
    BY <1>1, <1>2, <1>3, <1>4, <1>5, <1>6 DEF Deliver, ListenerInternal

LEMMA ThreadResponseInv ==
  ASSUME TypeInv, RetransmissionInv, ResponseInv, NEW w \in Worker,
         \/ WorkerStep(w) \/ HandlerSeparate(w) \/ HandlerEnds(w)
         \/ TimerStep(w) \/ RetransmitStep(w)
  PROVE  ResponseInv'
  <1> USE DEF TypeInv, TypeOK, WorkerAt, WorkerGoto, respVars, rVars
  <1>1. CASE \/ WorkerLock(w) \/ WorkerDispatch(w) \/ SeparateSetAck(w)
             \/ SeparateSendAck(w) \/ WorkerStopTimer(w) \/ HandlerSeparate(w)
             \/ HandlerEnds(w) \/ WorkerSend(w) \/ WorkerUnknownMethod(w)
    <2>1. ResponseFrame
      BY <1>1 DEF WorkerUnknownMethod, WorkerLock, WorkerDispatch, SeparateSetAck, SeparateSendAck,
                  WorkerStopTimer, HandlerSeparate, HandlerEnds, HandlerReturns,
                  HandlerRaises, WorkerSend, ResponseFrame, Answering, Outside
    <2> QED
      BY <2>1, FrameKeepsResponseInv
  <1>2. CASE TimerStep(w)
    <2>1. wpc[w] \notin Outside /\ \A v \in Worker : v # w => timer'[v] = timer[v]
      BY <1>2 DEF TimerStep, TimerFires, TimerTests, TimerSetsAck, TimerSendsAck,
                  TimerAt, ResponseInv, TimerLater
    <2>2. ResponseFrame
      BY <1>2, <2>1
         DEF TimerStep, TimerFires, TimerTests, TimerSetsAck, TimerSendsAck,
             ResponseFrame
    <2> QED
      BY <2>2, FrameKeepsResponseInv
  <1>3. CASE RetransmitStep(w)
    <2>1. ResponseFrame
      BY <1>3 DEF RetransmitStep, RetransmitLock, RetransmitWhile,
                  RetransmitWakes, RetransmitSends, RetransmitTests,
                  RetransmitGivesUp, RetransmitForgets, RetransmitEnds,
                  ResponseFrame
    <2> QED
      BY <2>1, FrameKeepsResponseInv
  <1>4. CASE WorkerDecide(w)
    <2>1. rpc[w] = "none" /\ rmid[w] = NoMid
      BY <1>4 DEF WorkerDecide, RetransmissionInv, RetransmitsLast, ResponseInv,
                  IdLast
    <2> QED
      BY <1>4, <2>1 DEF WorkerDecide, ResponseInv, TimerLater, TypeChosen, IdLast, Outside
  <1>5. CASE WorkerPiggyback(w)
    BY <1>5 DEF WorkerPiggyback, ResponseInv, TimerLater, TypeChosen, IdLast, Outside
  <1>6. CASE WorkerFetchMid(w)
    BY <1>6 DEF WorkerFetchMid, ResponseInv, TimerLater, TypeChosen, IdLast, Outside
  <1>7. CASE WorkerRegister(w)
    BY <1>7 DEF WorkerRegister, ResponseInv, TimerLater, TypeChosen, IdLast, Outside
  <1>8. CASE WorkerStartRetransmission(w)
    BY <1>8 DEF WorkerStartRetransmission, ResponseInv, TimerLater, TypeChosen, IdLast, Outside
  <1> QED
    BY <1>1, <1>2, <1>3, <1>4, <1>5, <1>6, <1>7, <1>8 DEF WorkerStep

LEMMA StepResponseInv ==
  TypeInv /\ ExecutionInv /\ RetransmissionInv /\ ResponseInv /\ [Next]_vars
    => ResponseInv'
  <1> SUFFICES ASSUME TypeInv, ExecutionInv, RetransmissionInv, ResponseInv,
                      [Next]_vars
               PROVE  ResponseInv'
    OBVIOUS
  <1>1. CASE UNCHANGED vars
    BY <1>1, FrameKeepsResponseInv DEF vars, ResponseFrame, respVars, rVars
  <1> QED
    BY <1>1, FrameKeepsResponseInv, ListenerResponseFrame, ThreadResponseInv
       DEF Next, Quiet

LEMMA InitResponseInv == Init => ResponseInv
  BY DEF Init, ResponseInv, TimerLater, TypeChosen, IdLast, Outside

-----------------------------------------------------------------------------
(***************************************************************************)
(* An ACK that is under way stays so until it has left: the thread that is *)
(* about to send it does so in its next step.                              *)
(***************************************************************************)
Gone(r) == stopped \/ ackOut'[r]

AckGoesOn ==
  /\ stopped => stopped'
  /\ \A r \in Req : ackOut[r] => ackOut'[r]
  /\ lpc = "sendAck" => UNCHANGED <<lpc, lreq>> \/ Gone(lreq)
  /\ \A w \in Worker :
       /\ timer[w] = "sendAck" => timer'[w] = timer[w] \/ Gone(w[1])
       /\ wpc[w] = "sendAck" => wpc'[w] = wpc[w] \/ Gone(w[1])
       /\ wpc[w] = "send" /\ rtype[w] = "ACK" =>
            (wpc'[w] = wpc[w] /\ rtype'[w] = rtype[w]) \/ Gone(w[1])

LEMMA AckGoesOnUnderWay ==
  ASSUME TypeInv, AckGoesOn, NEW r \in Req, AckUnderWay(r)
  PROVE  AckUnderWay(r)'
  <1>1. CASE stopped \/ ackOut[r] \/ Gone(r)
    BY <1>1 DEF AckGoesOn, AckUnderWay, Gone
  <1>2. CASE lpc = "sendAck" /\ lreq = r
    BY <1>1, <1>2 DEF AckGoesOn, AckUnderWay
  <1>3. ASSUME NEW w \in Worker, w[1] = r,
               \/ timer[w] = "sendAck" \/ wpc[w] = "sendAck"
               \/ wpc[w] = "send" /\ rtype[w] = "ACK"
        PROVE  AckUnderWay(r)'
    BY <1>1, <1>3 DEF AckGoesOn, AckUnderWay
  <1> QED
    BY <1>1, <1>2, <1>3 DEF AckUnderWay

\* What a datagram does to the ACKs: those that were out stay out.
LEMMA SendsKeepAcks ==
  ASSUME TypeInv, NEW w, SendResponseDatagram(w) \/ SendAck(w[1])
  PROVE  \A r \in Req : ackOut[r] => ackOut'[r]
  BY DEF SendResponseDatagram, SendAck, wireVars, TypeInv, TypeOK

LEMMA SendAckSends ==
  ASSUME TypeInv, NEW r \in Req, SendAck(r)
  PROVE  Gone(r) /\ \A q \in Req : ackOut[q] => ackOut'[q]
  BY DEF SendAck, TypeInv, TypeOK, Gone

LEMMA ListenerAckGoesOn ==
  ASSUME TypeInv, ExecutionInv, Deliver \/ ListenerInternal \/ Close
  PROVE  AckGoesOn
  <1> USE DEF AckGoesOn, wireVars, respVars
  <1>1. ASSUME NEW r \in Req, ListenNew(r) PROVE AckGoesOn
    <2>1. PICK n \in Worker : wpc[n] = "none" /\ wpc' = [wpc EXCEPT ![n] = "lock"]
      BY <1>1, StartedWorker DEF ListenNew
    <2>2. \A w \in Worker : wpc[w] \in {"sendAck", "send"} => wpc'[w] = wpc[w]
      BY <2>1 DEF TypeInv, TypeOK
    <2> QED
      BY <1>1, <2>2 DEF ListenNew, Receiving
  <1>2. CASE DupFallThrough
    <2>1. PICK n \in Worker : wpc[n] = "none" /\ wpc' = [wpc EXCEPT ![n] = "lock"]
      BY <1>2, StartedWorker DEF DupFallThrough, TypeInv, TypeOK
    <2>2. \A w \in Worker : wpc[w] \in {"sendAck", "send"} => wpc'[w] = wpc[w]
      BY <2>1 DEF TypeInv, TypeOK
    <2> QED
      BY <1>2, <2>2 DEF DupFallThrough
  <1>3. ASSUME NEW r \in Req, ListenDuplicate(r) PROVE AckGoesOn
    BY <1>3 DEF ListenDuplicate, Receiving
  <1>4. ASSUME NEW m \in Mid,
               \/ ListenAck(m) \/ ListenRst(m)
               \/ \E type \in {"CON", "NON"} : ListenOther(type, m)
        PROVE  AckGoesOn
    BY <1>4 DEF ListenAck, ListenRst, ListenOther, MayReceiveEmpty, Receiving
  <1>5. CASE \/ DupIfCompleted \/ DupElifNotCompleted \/ DupAck \/ DupSetAck
    BY <1>5 DEF DupIfCompleted, DupElifNotCompleted, DupAck, DupSetAck
  <1>6. CASE DupResend
    <2>1. \A r \in Req : ackOut[r] => ackOut'[r]
      BY <1>6, SendsKeepAcks DEF DupResend
    <2> QED
      BY <1>6, <2>1 DEF DupResend
  <1>7. CASE DupSendAck
    <2>1. Gone(lreq) /\ \A q \in Req : ackOut[q] => ackOut'[q]
      BY <1>7, SendAckSends DEF DupSendAck, TypeInv, TypeOK
    <2> QED
      BY <1>7, <2>1 DEF DupSendAck
  <1>8. CASE \/ EmptyIfStop \/ EmptySetStop \/ EmptyObserve \/ ListenerStops
             \/ ListenBadRequest \/ Close
    BY <1>8 DEF EmptyIfStop, EmptySetStop, EmptyObserve, ListenerStops,
                ListenBadRequest, Close, lVars
  <1> QED
    BY <1>1, <1>2, <1>3, <1>4, <1>5, <1>6, <1>7, <1>8
       DEF Deliver, ListenerInternal

LEMMA ThreadAckGoesOn ==
  ASSUME TypeInv, ResponseInv, NEW w \in Worker,
         \/ WorkerStep(w) \/ HandlerSeparate(w) \/ HandlerEnds(w)
         \/ TimerStep(w) \/ RetransmitStep(w)
  PROVE  AckGoesOn
  <1> USE DEF TypeInv, TypeOK, AckGoesOn, WorkerAt, WorkerGoto, TimerAt,
              wireVars, lVars, respVars
  <1>0. w[1] \in Req
    BY DEF Worker
  <1>1. CASE SeparateSendAck(w)
    <2>1. Gone(w[1]) /\ \A q \in Req : ackOut[q] => ackOut'[q]
      BY <1>0, <1>1, SendAckSends DEF SeparateSendAck
    <2> QED
      BY <1>1, <2>1 DEF SeparateSendAck
  <1>2. CASE TimerSendsAck(w)
    <2>1. Gone(w[1]) /\ \A q \in Req : ackOut[q] => ackOut'[q]
      BY <1>0, <1>2, SendAckSends DEF TimerSendsAck
    <2> QED
      BY <1>2, <2>1 DEF TimerSendsAck
  <1>3. CASE WorkerSend(w)
    <2>1. \A r \in Req : ackOut[r] => ackOut'[r]
      BY <1>3, SendsKeepAcks DEF WorkerSend
    <2>2. rtype[w] = "ACK" => Gone(w[1])
      BY <1>0, <1>3, SendAckSends
         DEF WorkerSend, SendResponseDatagram, TypeInv, Addressed
    <2> QED
      BY <1>3, <2>1, <2>2 DEF WorkerSend
  <1>4. CASE RetransmitSends(w)
    <2>1. \A r \in Req : ackOut[r] => ackOut'[r]
      BY <1>4, SendsKeepAcks DEF RetransmitSends
    <2> QED
      BY <1>4, <2>1 DEF RetransmitSends
  <1>5. CASE \/ RetransmitLock(w) \/ RetransmitWhile(w) \/ RetransmitWakes(w)
             \/ RetransmitTests(w) \/ RetransmitGivesUp(w)
             \/ RetransmitForgets(w) \/ RetransmitEnds(w)
    BY <1>5 DEF RetransmitLock, RetransmitWhile, RetransmitWakes,
                RetransmitTests, RetransmitGivesUp, RetransmitForgets,
                RetransmitEnds
  <1>6. CASE WorkerDispatch(w) \/ WorkerUnknownMethod(w) \/ WorkerStopTimer(w)
    BY <1>6 DEF WorkerDispatch, WorkerUnknownMethod, WorkerStopTimer
  <1>7. CASE \/ WorkerDecide(w) \/ WorkerPiggyback(w) \/ WorkerFetchMid(w)
             \/ WorkerRegister(w) \/ WorkerStartRetransmission(w)
    BY <1>7 DEF WorkerDecide, WorkerPiggyback, WorkerFetchMid, WorkerRegister,
                WorkerStartRetransmission
  <1>8. CASE TimerFires(w) \/ TimerTests(w) \/ TimerSetsAck(w)
    BY <1>8 DEF TimerFires, TimerTests, TimerSetsAck
  <1>9. CASE SeparateSetAck(w)
    BY <1>9 DEF SeparateSetAck
  <1>10. CASE HandlerSeparate(w) \/ HandlerEnds(w)
    BY <1>10 DEF HandlerSeparate, HandlerEnds, HandlerReturns, HandlerRaises
  <1>11. CASE WorkerLock(w)
    <2>1. timer[w] = "none"
      BY <1>11 DEF WorkerLock, ResponseInv, TimerLater, Outside
    <2> QED
      BY <1>11, <2>1 DEF WorkerLock
  <1> QED
    BY <1>1, <1>2, <1>3, <1>4, <1>5, <1>6, <1>7, <1>8, <1>9, <1>10, <1>11
       DEF WorkerStep, TimerStep, RetransmitStep

LEMMA NextAckGoesOn ==
  ASSUME TypeInv, ExecutionInv, ResponseInv, [Next]_vars
  PROVE  AckGoesOn
  <1>1. CASE UNCHANGED vars
    BY <1>1 DEF vars, AckGoesOn, wireVars, lVars, respVars
  <1> QED
    BY <1>1, ListenerAckGoesOn, ThreadAckGoesOn DEF Next, Quiet

-----------------------------------------------------------------------------
(***************************************************************************)
(* A request is marked acknowledged by the thread that is about to send    *)
(* the ACK, or because of an empty message of the peer: then a response    *)
(* with that message's id was registered for it, and that response was     *)
(* confirmable only because the request was acknowledged before.  An id    *)
(* that is in the table, and is no request's, or was sent, is a response's.*)
(* A peer that acknowledges its own request would spoil this.              *)
(***************************************************************************)
\* The peer acknowledges and rejects only what it was sent.
AnswersOnly == StrayIds = {}

OwesNoAck(m) ==
  tbl[m] # NoReq /\ (tbl[m] \in ConReq => AckUnderWay(tbl[m]))

AckInv ==
  /\ \A r \in ConReq : acked[r] => AckUnderWay(r)
  /\ \A w \in Worker : rtype[w] = "CON" => AckUnderWay(w[1])
  /\ \A w \in Worker : rmid[w] # NoMid /\ rtype[w] # "ACK" => OwesNoAck(rmid[w])
  /\ \A m \in sentMids : OwesNoAck(m)
  /\ \A m \in Mid :
       tbl[m] # NoReq /\ (\A r \in Req : m # ReqMid[r]) => OwesNoAck(m)

\* The marks that are set are justified, and no response changes.
AckFrame ==
  /\ \A r \in ConReq : acked'[r] => acked[r] \/ AckUnderWay(r)'
  /\ UNCHANGED <<rtype, rmid>>
  /\ \A m \in Mid : tbl'[m] = tbl[m]
                     \/ (tbl[m] = NoReq /\ \E r \in Req : m = ReqMid[r])
  /\ \A m \in sentMids' : \/ m \in sentMids
                          \/ \E w \in Worker : rmid[w] = m /\ rtype[w] # "ACK"

LEMMA FrameKeepsAckInv ==
  ASSUME TypeInv, TypeInv', AckGoesOn, AckInv, AckFrame
  PROVE  AckInv'
  <1>0. \A r \in Req : AckUnderWay(r) => AckUnderWay(r)'
    BY AckGoesOnUnderWay
  <1> HIDE DEF AckUnderWay
  <1>1. \A r \in ConReq : acked'[r] => AckUnderWay(r)'
    BY <1>0, ExchangeAssumption DEF AckInv, AckFrame
  <1>2. \A w \in Worker : rtype'[w] = "CON" => AckUnderWay(w[1])'
    BY <1>0 DEF AckInv, AckFrame, Worker
  <1>3. \A m \in Mid : OwesNoAck(m) => OwesNoAck(m)'
    BY <1>0, ExchangeAssumption DEF OwesNoAck, AckFrame, TypeInv, TypeOK
  <1>4. \A w \in Worker :
          rmid'[w] # NoMid /\ rtype'[w] # "ACK" => OwesNoAck(rmid[w])'
    BY <1>3 DEF AckInv, AckFrame, TypeInv, TypeOK
  <1>5. \A m \in sentMids' : OwesNoAck(m)'
    <2> TAKE m \in sentMids'
    <2>1. m \in Mid /\ m # NoMid
      BY NoMidIsNoMid DEF TypeInv, TypeOK
    <2>2. OwesNoAck(m)
      BY <2>1 DEF AckInv, AckFrame
    <2> QED
      BY <1>3, <2>1, <2>2
  <1>6. \A m \in Mid :
          tbl'[m] # NoReq /\ (\A r \in Req : m # ReqMid[r]) => OwesNoAck(m)'
    BY <1>3 DEF AckInv, AckFrame
  <1>7. UNCHANGED rmid
    BY DEF AckFrame
  <1> QED
    BY <1>1, <1>2, <1>4, <1>5, <1>6, <1>7 DEF AckInv

\* Sending a response adds its id to the wire's.
LEMMA SentIds ==
  ASSUME TypeInv, NEW w \in Worker, SendResponseDatagram(w)
  PROVE  \A m \in sentMids' :
           m \in sentMids \/ \E v \in Worker : rmid[v] = m /\ rtype[v] # "ACK"
  BY DEF SendResponseDatagram, wireVars

LEMMA ListenerAckFrame ==
  ASSUME AnswersOnly, TypeInv, ExecutionInv, AckInv, AckGoesOn,
         Deliver \/ ListenerInternal \/ Close
  PROVE  AckFrame
  <1>0. \A r \in Req : AckUnderWay(r) => AckUnderWay(r)'
    BY AckGoesOnUnderWay
  <1> USE DEF AckFrame, wireVars, respVars, tVars, mVars
  <1>1. ASSUME NEW r \in Req, ListenNew(r) PROVE AckFrame
    <2>1. \A m \in Mid : tbl'[m] = tbl[m] \/ (tbl[m] = NoReq /\ m = ReqMid[r])
      BY <1>1 DEF ListenNew, Known, TypeInv, TypeOK
    <2> QED
      BY <1>1, <2>1 DEF ListenNew
  <1>2. ASSUME NEW r \in Req, ListenDuplicate(r) PROVE AckFrame
    BY <1>2 DEF ListenDuplicate
  <1>3. ASSUME NEW m \in Mid, ListenAck(m) PROVE AckFrame
    <2>1. OwesNoAck(m) /\ tbl[m] \in Req
      BY <1>3 DEF AnswersOnly, ListenAck, MayReceiveEmpty, AckInv, TypeInv, TypeOK
    <2>2. \A r \in ConReq : acked'[r] => acked[r] \/ AckUnderWay(r)'
      BY <1>0, <1>3, <2>1, ExchangeAssumption
         DEF ListenAck, OwesNoAck, TypeInv, TypeOK
    <2> QED
      BY <1>3, <2>2 DEF ListenAck
  <1>4. ASSUME NEW m \in Mid, ListenRst(m) PROVE AckFrame
    BY <1>4 DEF ListenRst
  <1>5. ASSUME NEW m \in Mid, NEW type \in {"CON", "NON"}, ListenOther(type, m)
        PROVE  AckFrame
    <2>1. OwesNoAck(m) /\ tbl[m] \in Req
      BY <1>5 DEF ListenOther, MayReceiveEmpty, AckInv, TypeInv, TypeOK
    <2>2. \A r \in ConReq : acked'[r] => acked[r] \/ AckUnderWay(r)'
      BY <1>0, <1>5, <2>1, ExchangeAssumption
         DEF ListenOther, OwesNoAck, TypeInv, TypeOK
    <2> QED
      BY <1>5, <2>2 DEF ListenOther
  <1>6. CASE DupFallThrough
    BY <1>6 DEF DupFallThrough
  <1>7. CASE DupResend
    <2> DEFINE w == <<lreq, cur[lreq]>>
    <2>1. UNCHANGED wireVars \/ (cur[lreq] # 0 /\ SendResponseDatagram(w))
      BY <1>7 DEF DupResend
    <2>2. cur[lreq] # 0 => w \in Worker
      BY <1>7, ExchangeAssumption DEF DupResend, Worker, TypeInv, TypeOK
    <2>3. \A m \in sentMids' :
            m \in sentMids \/ \E v \in Worker : rmid[v] = m /\ rtype[v] # "ACK"
      BY <2>1, <2>2, SentIds
    <2> QED
      BY <1>7, <2>3 DEF DupResend
  <1>8. CASE DupSetAck
    <2>1. AckUnderWay(lreq)'
      BY <1>8 DEF DupSetAck, AckUnderWay
    <2> QED
      BY <1>8, <2>1, ExchangeAssumption
         DEF DupSetAck, AckRequest, TypeInv, TypeOK
  <1>9. CASE DupIfCompleted \/ DupElifNotCompleted \/ DupAck \/ DupSendAck
    BY <1>9 DEF DupIfCompleted, DupElifNotCompleted, DupAck, DupSendAck
  <1>10. CASE \/ EmptyIfStop \/ EmptySetStop \/ EmptyObserve \/ ListenerStops
              \/ ListenBadRequest \/ Close
    BY <1>10 DEF EmptyIfStop, EmptySetStop, EmptyObserve, ListenerStops,
                 ListenBadRequest, Close
  <1> QED
    BY <1>1, <1>2, <1>3, <1>4, <1>5, <1>6, <1>7, <1>8, <1>9, <1>10
       DEF Deliver, ListenerInternal

\* The steps of a thread, but the two that change a response.
LEMMA ThreadAckFrame ==
  ASSUME TypeInv, AckInv, AckGoesOn, ResponseInv, NEW w \in Worker,
         \/ WorkerStep(w) \/ HandlerSeparate(w) \/ HandlerEnds(w)
         \/ TimerStep(w) \/ RetransmitStep(w)
  PROVE  \/ WorkerDecide(w) \/ WorkerPiggyback(w) \/ WorkerRegister(w)
         \/ AckFrame
  <1> USE DEF AckFrame, wireVars, respVars, tVars, mVars
  <1>0. w[1] \in Req
    BY DEF Worker
  <1>1. CASE SeparateSetAck(w)
    <2>1. wpc'[w] = "sendAck" => AckUnderWay(w[1])'
      BY DEF AckUnderWay
    <2>2. acked' = [acked EXCEPT ![w[1]] = TRUE]
      BY <1>1 DEF SeparateSetAck, AckRequest
    <2>3. w[1] \in ConReq => acked[w[1]] \/ wpc'[w] = "sendAck"
      BY <1>1 DEF SeparateSetAck, WorkerGoto, TypeInv, TypeOK
    <2>4. \A r \in ConReq : acked'[r] => acked[r] \/ AckUnderWay(r)'
      BY <1>0, <2>1, <2>2, <2>3, ExchangeAssumption DEF TypeInv, TypeOK
    <2> QED
      BY <1>1, <2>4 DEF SeparateSetAck
  <1>2. CASE TimerSetsAck(w)
    <2>1. AckUnderWay(w[1])'
      BY <1>2 DEF TimerSetsAck, TimerAt, AckUnderWay, TypeInv, TypeOK
    <2> QED
      BY <1>0, <1>2, <2>1 DEF TimerSetsAck, AckRequest, TypeInv, TypeOK
  <1>3. CASE WorkerSend(w) \/ RetransmitSends(w)
    BY <1>3, SentIds DEF WorkerSend, RetransmitSends
  <1>4. CASE \/ WorkerLock(w) \/ WorkerDispatch(w) \/ SeparateSendAck(w)
             \/ WorkerStopTimer(w) \/ WorkerFetchMid(w)
             \/ WorkerStartRetransmission(w) \/ WorkerUnknownMethod(w)
             \/ HandlerSeparate(w) \/ HandlerEnds(w)
    BY <1>4 DEF WorkerUnknownMethod, WorkerLock, WorkerDispatch, SeparateSendAck, WorkerStopTimer,
                WorkerFetchMid, WorkerStartRetransmission, HandlerSeparate,
                HandlerEnds, HandlerReturns, HandlerRaises
  <1>5. CASE TimerFires(w) \/ TimerTests(w) \/ TimerSendsAck(w)
    BY <1>5 DEF TimerFires, TimerTests, TimerSendsAck
  <1>6. CASE \/ RetransmitLock(w) \/ RetransmitWhile(w) \/ RetransmitWakes(w)
             \/ RetransmitTests(w) \/ RetransmitGivesUp(w)
             \/ RetransmitForgets(w) \/ RetransmitEnds(w)
    BY <1>6 DEF RetransmitLock, RetransmitWhile, RetransmitWakes,
                RetransmitTests, RetransmitGivesUp, RetransmitForgets,
                RetransmitEnds
  <1> QED
    BY <1>1, <1>2, <1>3, <1>4, <1>5, <1>6
       DEF WorkerStep, TimerStep, RetransmitStep

\* A response is chosen to be confirmable because the request is acknowledged.
LEMMA DecideKeepsAckInv ==
  ASSUME TypeInv, AckGoesOn, AckInv, ResponseInv, NEW w \in Worker, WorkerDecide(w)
  PROVE  AckInv'
  <1>0. \A r \in Req : AckUnderWay(r) => AckUnderWay(r)'
    BY AckGoesOnUnderWay
  <1>1. /\ UNCHANGED <<acked, rmid, tbl, sentMids>>
        /\ \A v \in Worker : v # w => rtype'[v] = rtype[v]
        /\ rtype'[w] = "CON" => w[1] \in ConReq /\ acked[w[1]]
        /\ rmid[w] = NoMid
    BY DEF WorkerDecide, WorkerAt, ResponseInv, IdLast, TypeInv, TypeOK, respVars,
           tVars, mVars, wireVars
  <1>2. \A m \in Mid : OwesNoAck(m) => OwesNoAck(m)'
    BY <1>0, <1>1, ExchangeAssumption DEF OwesNoAck, TypeInv, TypeOK
  <1>3. \A v \in Worker : rtype'[v] = "CON" => AckUnderWay(v[1])'
    BY <1>0, <1>1 DEF AckInv, Worker
  <1>4. \A r \in ConReq : acked'[r] => AckUnderWay(r)'
    BY <1>0, <1>1, ExchangeAssumption DEF AckInv
  <1>5. \A v \in Worker :
          rmid'[v] # NoMid /\ rtype'[v] # "ACK" => OwesNoAck(rmid[v])'
    BY <1>1, <1>2 DEF AckInv, TypeInv, TypeOK
  <1>6. \A m \in sentMids' : OwesNoAck(m)'
    BY <1>1, <1>2 DEF AckInv, TypeInv, TypeOK
  <1>7. \A m \in Mid :
          tbl'[m] # NoReq /\ (\A r \in Req : m # ReqMid[r]) => OwesNoAck(m)'
    BY <1>1, <1>2 DEF AckInv
  <1> QED
    BY <1>1, <1>3, <1>4, <1>5, <1>6, <1>7 DEF AckInv

\* A piggybacked response is the ACK.
LEMMA PiggybackKeepsAckInv ==
  ASSUME TypeInv, AckGoesOn, AckInv, ResponseInv, NEW w \in Worker,
         WorkerPiggyback(w)
  PROVE  AckInv'
  <1>0. \A r \in Req : AckUnderWay(r) => AckUnderWay(r)'
    BY AckGoesOnUnderWay
  <1>1. /\ UNCHANGED <<rtype, tbl, sentMids>>
        /\ \A v \in Worker : v # w => rmid'[v] = rmid[v]
        /\ acked' = [acked EXCEPT ![w[1]] = TRUE]
        /\ rtype[w] = "ACK" /\ wpc'[w] = "send"
    BY DEF WorkerPiggyback, WorkerAt, WorkerGoto, AckRequest, ResponseInv,
           TypeChosen, TypeInv, TypeOK, mVars, wireVars
  <1>2. AckUnderWay(w[1])'
    BY <1>1 DEF AckUnderWay
  <1>3. \A m \in Mid : OwesNoAck(m) => OwesNoAck(m)'
    BY <1>0, <1>1, ExchangeAssumption DEF OwesNoAck, TypeInv, TypeOK
  <1>4. \A v \in Worker : rtype'[v] = "CON" => AckUnderWay(v[1])'
    BY <1>0, <1>1 DEF AckInv, Worker
  <1>5. \A r \in ConReq : acked'[r] => AckUnderWay(r)'
    BY <1>0, <1>1, <1>2, ExchangeAssumption DEF AckInv, TypeInv, TypeOK
  <1>6. \A v \in Worker :
          rmid'[v] # NoMid /\ rtype'[v] # "ACK" => OwesNoAck(rmid[v])'
    <2> SUFFICES ASSUME NEW v \in Worker, rmid'[v] # NoMid, rtype'[v] # "ACK"
                 PROVE  OwesNoAck(rmid[v])'
      OBVIOUS
    <2>1. PICK m \in Mid : m = rmid'[v] /\ m = rmid[v] /\ OwesNoAck(m)
      BY <1>1 DEF AckInv, TypeInv, TypeOK
    <2> QED
      BY <1>3, <2>1 DEF OwesNoAck
  <1>7. \A m \in sentMids' : OwesNoAck(m)'
    BY <1>1, <1>3 DEF AckInv, TypeInv, TypeOK
  <1>8. \A m \in Mid :
          tbl'[m] # NoReq /\ (\A r \in Req : m # ReqMid[r]) => OwesNoAck(m)'
    BY <1>1, <1>3 DEF AckInv
  <1> QED
    BY <1>4, <1>5, <1>6, <1>7, <1>8 DEF AckInv

\* The id of a response becomes a key of a request that owes no ACK.
LEMMA RegisterKeepsAckInv ==
  ASSUME TypeInv, AckGoesOn, AckInv, ResponseInv, NEW w \in Worker,
         WorkerRegister(w)
  PROVE  AckInv'
  <1>0. \A r \in Req : AckUnderWay(r) => AckUnderWay(r)'
    BY AckGoesOnUnderWay
  <1>1. /\ UNCHANGED <<rtype, sentMids>>
        /\ rmid' = [rmid EXCEPT ![w] = wmid[w]]
        /\ tbl' = [tbl EXCEPT ![wmid[w]] = w[1]]
        /\ acked' = [acked EXCEPT ![w[1]] = TRUE]
        /\ w[1] \in Req /\ wmid[w] \in Mid
        /\ w[1] \in ConReq => rtype[w] = "CON"
    BY DEF WorkerRegister, WorkerAt, ResponseInv, TypeChosen, TypeInv, TypeOK,
           Addressed, wireVars, Worker
  <1>2. w[1] \in ConReq => AckUnderWay(w[1])'
    BY <1>0, <1>1 DEF AckInv
  <1>3. \A m \in Mid : OwesNoAck(m) \/ m = wmid[w] => OwesNoAck(m)'
    <2> SUFFICES ASSUME NEW m \in Mid, OwesNoAck(m) \/ m = wmid[w]
                 PROVE  OwesNoAck(m)'
      OBVIOUS
    <2>1. CASE m = wmid[w]
      <3>1. tbl'[m] = w[1]
        BY <1>1, <2>1 DEF TypeInv, TypeOK
      <3> QED
        BY <1>1, <1>2, <3>1, ExchangeAssumption DEF OwesNoAck
    <2>2. CASE m # wmid[w]
      <3>1. tbl'[m] = tbl[m] /\ OwesNoAck(m) /\ tbl[m] \in Req
        BY <1>1, <2>2 DEF TypeInv, TypeOK, OwesNoAck
      <3> QED
        BY <1>0, <3>1 DEF OwesNoAck
    <2> QED
      BY <2>1, <2>2
  <1>4. \A v \in Worker : rtype'[v] = "CON" => AckUnderWay(v[1])'
    BY <1>0, <1>1 DEF AckInv, Worker
  <1>5. \A r \in ConReq : acked'[r] => AckUnderWay(r)'
    BY <1>0, <1>1, <1>2, ExchangeAssumption DEF AckInv, TypeInv, TypeOK
  <1>6. \A v \in Worker :
          rmid'[v] # NoMid /\ rtype'[v] # "ACK" => OwesNoAck(rmid[v])'
    <2> SUFFICES ASSUME NEW v \in Worker, rmid'[v] # NoMid, rtype'[v] # "ACK"
                 PROVE  OwesNoAck(rmid[v])'
      OBVIOUS
    <2>1. PICK m \in Mid : m = rmid'[v] /\ (OwesNoAck(m) \/ m = wmid[w])
      BY <1>1 DEF AckInv, TypeInv, TypeOK
    <2> QED
      BY <1>3, <2>1 DEF OwesNoAck
  <1>7. \A m \in sentMids' : OwesNoAck(m)'
    BY <1>1, <1>3 DEF AckInv, TypeInv, TypeOK
  <1>8. \A m \in Mid :
          tbl'[m] # NoReq /\ (\A r \in Req : m # ReqMid[r]) => OwesNoAck(m)'
    <2> SUFFICES ASSUME NEW m \in Mid, tbl'[m] # NoReq,
                        \A r \in Req : m # ReqMid[r]
                 PROVE  OwesNoAck(m)'
      OBVIOUS
    <2>1. m = wmid[w] \/ tbl[m] # NoReq
      BY <1>1 DEF TypeInv, TypeOK
    <2> QED
      BY <1>3, <2>1 DEF AckInv
  <1> QED
    BY <1>4, <1>5, <1>6, <1>7, <1>8 DEF AckInv

LEMMA StepAckInv ==
  ASSUME AnswersOnly
  PROVE  TypeInv /\ ExecutionInv /\ ResponseInv /\ AckInv /\ [Next]_vars
           => AckInv'
  <1> SUFFICES ASSUME TypeInv, ExecutionInv, ResponseInv, AckInv, [Next]_vars
               PROVE  AckInv'
    OBVIOUS
  <1>1. AckGoesOn /\ TypeInv'
    BY NextAckGoesOn, StepTypeInv
  <1>2. CASE UNCHANGED vars
    <2>1. AckFrame
      BY <1>2 DEF vars, AckFrame, tVars, mVars, wireVars, respVars
    <2> QED
      BY <1>1, <2>1, FrameKeepsAckInv
  <1>3. CASE Deliver \/ ListenerInternal \/ Close
    BY <1>1, <1>3, ListenerAckFrame, FrameKeepsAckInv
  <1>4. ASSUME NEW w \in Worker,
               \/ WorkerStep(w) \/ HandlerSeparate(w) \/ HandlerEnds(w)
               \/ TimerStep(w) \/ RetransmitStep(w)
        PROVE  AckInv'
    BY <1>1, <1>4, ThreadAckFrame, FrameKeepsAckInv, DecideKeepsAckInv,
       PiggybackKeepsAckInv, RegisterKeepsAckInv
  <1> QED
    BY <1>2, <1>3, <1>4 DEF Next, Quiet

LEMMA InitAckInv == Init => AckInv
  BY ExchangeAssumption DEF Init, AckInv

LEMMA AnswersInvariant ==
  Spec => [](TypeInv /\ ExecutionInv /\ RetransmissionInv /\ ResponseInv)
  BY InitRetransmissionInv, StepRetransmissionInv, InitResponseInv,
     StepResponseInv, ExecutionInvariant, PTL DEF Spec

\* From a peer that answers only what it was sent, a confirmable request gets a
\* confirmable response of its own only when an ACK for it has left the server,
\* or the thread that took the request for acknowledged is about to send it
\* (layers/messagelayer.py, send_response and receive_empty; server/coap.py,
\* _send_ack).
THEOREM SeparateFollowsAck ==
  ASSUME AnswersOnly
  PROVE  Spec => []SeparateOnlyAfterAck
  <1>1. AckInv => SeparateOnlyAfterAck
    BY DEF AckInv, SeparateOnlyAfterAck
  <1> QED
    BY <1>1, InitAckInv, StepAckInv, AnswersInvariant, PTL DEF Spec

=============================================================================
