---------------------------- MODULE MCAccountSync ----------------------------
(* Instances of AccountSync for TLC. *)
EXTENDS AccountSync, TLC

CONSTANTS received, sent, s1, s2

\* The syncs are alike and no liveness is checked with this.
SyncSymmetry == Permutations(Syncs)
=============================================================================
