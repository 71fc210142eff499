---------------------------- MODULE MCOnboarding ----------------------------
(* Instances of Onboarding for TLC. *)
EXTENDS Onboarding, TLC

CONSTANTS p1, p2, stranger, i1, i2, alice, bob, base, sepolia
=============================================================================
