----------------------------- MODULE ChainCalls -----------------------------
(***************************************************************************)
(* What the API's callers of writeContractAndGetReceipt may rely on.  A    *)
(* call may be executed more than once, and after it has failed, but one   *)
(* that returns has been executed, and is executed no more.                *)
(***************************************************************************)
CONSTANTS Calls

VARIABLES
    result,   \* result[c]: "none" before the call, then "open", then its outcome
    executed  \* calls that the chain has executed at least once

vars == <<result, executed>>

Init == result = [c \in Calls |-> "none"] /\ executed = {}

Begin(c) ==
    /\ result[c] = "none"
    /\ result' = [result EXCEPT ![c] = "open"] /\ UNCHANGED executed

\* The chain executes a call, again perhaps.
Execute(c) ==
    /\ result[c] \in {"open", "failed"}
    /\ executed' = executed \cup {c} /\ UNCHANGED result

Return(c) ==
    /\ result[c] = "open" /\ c \in executed
    /\ result' = [result EXCEPT ![c] = "done"] /\ UNCHANGED executed

\* Calls fail: one, or all that are under way when the API stops.
Fail ==
    /\ \E some \in SUBSET {c \in Calls : result[c] = "open"} :
         result' = [c \in Calls |-> IF c \in some THEN "failed" ELSE result[c]]
    /\ UNCHANGED executed

Next == Fail \/ \E c \in Calls : Begin(c) \/ Execute(c) \/ Return(c)

Spec == Init /\ [][Next]_vars
=============================================================================
