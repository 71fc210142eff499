------------------------------ MODULE MCLandline ------------------------------
(* Instances of LandlineTransfers for TLC. *)
EXTENDS LandlineTransfers, TLC

CONSTANTS d1, w1, s1, s2

SyncSymmetry == Permutations(Syncs)
=============================================================================
