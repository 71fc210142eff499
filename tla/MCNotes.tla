------------------------------- MODULE MCNotes -------------------------------
(* Instances of NoteNotifications, and so of EphemeralNotes, for TLC. *)
EXTENDS NoteNotifications, TLC

CONSTANTS o1, alice, bob
=============================================================================
