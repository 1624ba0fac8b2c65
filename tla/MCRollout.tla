----------------------------- MODULE MCRollout -----------------------------
(***************************************************************************)
(* Values of the constants of Rollout for TLC.                             *)
(***************************************************************************)
EXTENDS Rollout

CONSTANTS r1, r2

Requests == {r1, r2}
=============================================================================
