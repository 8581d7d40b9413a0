---------------------------- MODULE RequestReply ----------------------------
(***************************************************************************)
(* What the CoAP server promises for a request, with no threads, locks,    *)
(* timers or message ids: it is taken up once, its handler then fails or   *)
(* produces one reply, and a reply that needs an answer is repeated a      *)
(* bounded number of times until it is answered, and abandoned only when   *)
(* the repetitions are used up or the server is closed.  An answer that    *)
(* comes after that still counts; an answered request stays answered.      *)
(***************************************************************************)
EXTENDS Naturals

CONSTANTS Req,         \* the requests
          MaxRepeat    \* repetitions of a reply

VARIABLES phase,   \* where each request is
          copies,  \* copies of its reply sent beyond the first
          closed   \* was the server closed?

vars == <<phase, copies, closed>>

Phases == {"idle", "working", "failed", "replied", "waiting", "answered",
           "abandoned"}

TypeOK ==
  /\ phase \in [Req -> Phases]
  /\ copies \in [Req -> 0 .. MaxRepeat]
  /\ closed \in BOOLEAN

Init ==
  /\ phase = [r \in Req |-> "idle"]
  /\ copies = [r \in Req |-> 0]
  /\ closed = FALSE

Move(r, from, to) == phase[r] = from /\ phase' = [phase EXCEPT ![r] = to]

Take(r) == ~closed /\ Move(r, "idle", "working") /\ UNCHANGED <<copies, closed>>

Fail(r) == Move(r, "working", "failed") /\ UNCHANGED <<copies, closed>>

\* A reply that needs no answer ...
Reply(r) == Move(r, "working", "replied") /\ UNCHANGED <<copies, closed>>

\* ... and one that does.
ReplyConfirmable(r) ==
  Move(r, "working", "waiting") /\ UNCHANGED <<copies, closed>>

Repeat(r) ==
  /\ phase[r] = "waiting"
  /\ copies[r] < MaxRepeat
  /\ ~closed
  /\ copies' = [copies EXCEPT ![r] = @ + 1]
  /\ UNCHANGED <<phase, closed>>

Answer(r) == Move(r, "waiting", "answered") /\ UNCHANGED <<copies, closed>>

AnswerLate(r) == Move(r, "abandoned", "answered") /\ UNCHANGED <<copies, closed>>

Abandon(r) ==
  /\ copies[r] = MaxRepeat \/ closed
  /\ Move(r, "waiting", "abandoned")
  /\ UNCHANGED <<copies, closed>>

Close == closed' = TRUE /\ UNCHANGED <<phase, copies>>

Next ==
  \/ \E r \in Req : \/ Take(r) \/ Fail(r) \/ Reply(r) \/ ReplyConfirmable(r)
                    \/ Repeat(r) \/ Answer(r) \/ Abandon(r)
                    \/ AnswerLate(r)
  \/ Close

Spec == Init /\ [][Next]_vars

\* Every request that is taken up comes to an end.
Settled(r) == phase[r] \in {"failed", "replied", "answered", "abandoned"}

EverySettles == \A r \in Req : (phase[r] = "working") ~> Settled(r)

=============================================================================
