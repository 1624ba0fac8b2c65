--------------------------- MODULE MCApiShutdown ---------------------------
(***************************************************************************)
(* Values of the constants of ApiShutdown for TLC.                         *)
(***************************************************************************)
EXTENDS ApiShutdown

CONSTANTS r1, r2, r3

Requests == {r1, r2, r3}
=============================================================================
