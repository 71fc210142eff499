---------------------------- MODULE MCAccountKeys ----------------------------
(* Instances of AccountKeys for TLC. *)
EXTENDS AccountKeys, TLC

CONSTANTS k1, k2
=============================================================================
