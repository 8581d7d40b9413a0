----------------------- MODULE CoapExchangeRefinement -----------------------
(***************************************************************************)
(* The first execution of every request in CoapExchange implements         *)
(* RequestReply, whatever duplicates, further executions and answers there *)
(* are besides: it is worked on from the moment its worker is started, its *)
(* reply waits for an answer from the moment it has an id and is           *)
(* confirmable, it is answered when the listener marks it acknowledged or  *)
(* rejected, and abandoned when the retransmission thread finds that it is *)
(* not.  What the listener marks while that thread writes timeouted is     *)
(* lost, what it marks later is a late answer.                             *)
(***************************************************************************)
EXTENDS CoapExchange

First(r) == <<r, 1>>

Confirmable(w) == rtype[w] = "CON" /\ rmid[w] # NoMid

PhaseOf(w) ==
  IF Confirmable(w)
    THEN IF rpc[w] \in {"giveUp", "forget"} THEN "abandoned"
         ELSE IF Answered(w) THEN "answered"
         ELSE IF rpc[w] \in {"drop", "done"} THEN "abandoned"
         ELSE "waiting"
    ELSE CASE wpc[w] = "none" -> "idle"
           [] wpc[w] = "failed" -> "failed"
           [] wpc[w] = "done" -> "replied"
           [] OTHER -> "working"

Promise == INSTANCE RequestReply WITH
             MaxRepeat <- MaxRetransmit,
             phase <- [r \in Req |-> PhaseOf(First(r))],
             copies <- [r \in Req |-> cnt[First(r)]],
             closed <- stopped

\* The threads keep the promise of RequestReply.
KeepsPromise == Promise!Spec

\* If handlers end, every request comes to an end, and with it its threads.
EveryRequestSettles == HandlersEnd => Promise!EverySettles /\ ThreadsEnd

=============================================================================
