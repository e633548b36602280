------------------------------ MODULE MCTraces ------------------------------
(***************************************************************************)
(* Traces for TLC: two requests, so that one is in its handler while the   *)
(* other enters the filter, and while stop runs.                           *)
(***************************************************************************)
EXTENDS Traces

CONSTANTS r1, r2

MCRequests == {r1, r2}
=============================================================================
