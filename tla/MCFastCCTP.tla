----------------------------- MODULE MCFastCCTP -----------------------------
(* Instances of FastCCTP for TLC. *)
EXTENDS FastCCTP, TLC

CONSTANTS alice, bob, lp

\* One transfer with a tip, alice to bob.
Tipped == [from |-> alice, to |-> bob, fromAmount |-> 2, toAmount |-> 1, nonce |-> 0]
\* The same amount sent home twice through the bridger.
Bridged == {[from |-> Bridger, to |-> alice, fromAmount |-> 1, toAmount |-> 1, nonce |-> k] :
               k \in 1..2}

MCTransfers == {Tipped} \cup Bridged
MCFunds == (alice :> 3) @@ (bob :> 0) @@ (lp :> 2)
=============================================================================
