--------------------------- MODULE MCCoapExchange ---------------------------
(* Instances of CoapExchange for TLC. *)
EXTENDS CoapExchangeRefinement, TLC

CONSTANTS r1, r2, r3

MCOneMid == r1 :> 2
\* The peer's first id is r1's or r2's, whichever it sends.
MCManyMids == r1 :> 2 @@ r2 :> 2 @@ r3 :> 3
\* Out of reach of the server's counter.
MCApartMids == r1 :> 6 @@ r2 :> 7
=============================================================================
