----------------------------- MODULE MCLookups -----------------------------
(***************************************************************************)
(* Values of the constants of Lookups for TLC: IDs of two characters, of   *)
(* which one is printed, so that two of the three are printed alike.       *)
(***************************************************************************)
EXTENDS Lookups

CONSTANTS u1, u2

Ids   == {<<0, 0>>, <<0, 1>>, <<1, 0>>}
Users == {u1, u2}
=============================================================================
