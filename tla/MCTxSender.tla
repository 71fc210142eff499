----------------------------- MODULE MCTxSender -----------------------------
(* Instances of TxSender for TLC. *)
EXTENDS TxSender, TLC

CONSTANTS c1, c2, c3
=============================================================================
