--------------------------- MODULE MCHtcpcpServer ---------------------------
(* Instances of HtcpcpServer for TLC. *)
EXTENDS HtcpcpServer, TLC

CONSTANTS c1, c2, c3

Ask(m) == [method |-> m, pot |-> 0, units |-> 2, form |-> "full"]

\* Every method, and a request for a pot there is none of, with no additions.
MCRequests ==
  {Ask(m) : m \in {"BREW", "PUT", "WHEN", "GET"}}
    \cup {[Ask("GET") EXCEPT !.pot = 1, !.form = "bare"]}

MCPour == {Ask(m) : m \in {"BREW", "PUT", "GET"}}

\* BREW and GET; a broken request for a pot before the first, which is got
\* through with when another thread takes its lines away, and one that is read.
MCBrewGet ==
  {Ask(m) : m \in {"BREW", "GET"}}
    \cup {[Ask("GET") EXCEPT !.pot = -1, !.form = form] :
            form \in {"broken", "full"}}

MCBrews == {Ask("BREW")}

EmptyPot ==
  [finBrew |-> 0, cupWaiting |-> FALSE, additionsAdded |-> FALSE,
   addUnitsPerSec |-> 0, startPour |-> 0, waitingAdditions |-> NoConn]

\* A cup an earlier client brewed, whose additions are being poured in since
\* the start, and one that can be served.
Cup == [EmptyPot EXCEPT !.finBrew = 10, !.cupWaiting = TRUE, !.startPour = 10,
                        !.waitingAdditions = Before]
FullCup == [Cup EXCEPT !.additionsAdded = TRUE]

MCEmpty == {EmptyPot}
MCBrewed == {FullCup}
MCUsed == {EmptyPot, Cup}

Symmetry == Permutations(Conn)
=============================================================================
