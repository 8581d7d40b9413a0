----------------------------- MODULE CoffeePot -----------------------------
(***************************************************************************)
(* A pot of the HTCPCP server (htcpcp_server/pot.c): its fields and what   *)
(* getState makes of them at a given time.  BREW fills a cup that is ready *)
(* BrewSecs later, PUT starts pouring additions, WHEN stops it, GET serves *)
(* the coffee; a cup nobody serves gets cold after ColdSecs.               *)
(***************************************************************************)
EXTENDS Integers

CONSTANTS BrewSecs,   \* 15 in brew
          ColdSecs,   \* SECS_TO_COLD
          FreeUnits   \* FREE_UNITS_FOR_ADDS

ASSUME PotAssumption ==
  BrewSecs \in Nat \ {0} /\ ColdSecs \in Nat \ {0} /\ FreeUnits \in Nat

States == {"READY", "BREWING", "CUP_WAITING_NO_ADDS", "CUP_WAITING_ADDS",
           "POURING", "CUP_OVERFLOW", "CUP_COLD"}

\* What getState returns when it falls off its end: whatever is in the
\* register, a state or none of them.
Garbage == States \cup {"ERROR"}

\* The states a status may be, given the fields and the time they are
\* compared with.
PouringState(startPour, additionsAdded, rate, t) ==
  IF (t - startPour) * rate > FreeUnits THEN "CUP_OVERFLOW"
  ELSE IF additionsAdded THEN "CUP_WAITING_ADDS" ELSE "POURING"

\* getState once cupWaiting was found set and finBrew passed.
CupState(finBrew, startPour, additionsAdded, rate, t) ==
  IF t - finBrew >= ColdSecs THEN {"CUP_COLD"}
  ELSE IF startPour = 0 THEN {"CUP_WAITING_NO_ADDS"}
  ELSE IF startPour <= t THEN {PouringState(startPour, additionsAdded, rate, t)}
  ELSE Garbage

\* getState with nothing changing underneath it.
getState(pot, t) ==
  IF ~pot.cupWaiting THEN {"READY"}
  ELSE IF pot.finBrew > t THEN {"BREWING"}
  ELSE CupState(pot.finBrew, pot.startPour, pot.additionsAdded,
                pot.addUnitsPerSec, t)

\* The return in calcAddPerSec is not governed by the if above it, and ends
\* the loop in its first pass.
calcAddPerSec(units) == 0

=============================================================================
