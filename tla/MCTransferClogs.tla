-------------------------- MODULE MCTransferClogs --------------------------
(* Instances of TransferClogs for TLC. *)
EXTENDS TransferClogs, TLC

CONSTANTS a1, a2, usdc, eth, dai

\* Two amounts of one token, one of the others.
SomeAmounts == [k \in {usdc, eth, dai} |-> IF k = eth THEN {1, 2} ELSE {1}]
=============================================================================
