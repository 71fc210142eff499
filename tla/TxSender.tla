------------------------------ MODULE TxSender ------------------------------
(***************************************************************************)
(* ViemClient.writeContractAndGetReceipt: every transaction of the API is  *)
(* sent from one wallet, one call at a time under a lock, each with the    *)
(* nonce the chain gives at the time, and is sent again when it does not   *)
(* confirm.  The sequencer keeps one transaction for each nonce and may    *)
(* mine it long after the API has given up on it.  Fees are left out but   *)
(* for what they decide: a call outbids its own earlier tries, and may be  *)
(* refused where the transaction of another waits.  A definition           *)
(* introduced as a slip is a wrong form of the one after it and not part   *)
(* of the specification.                                                   *)
(***************************************************************************)
EXTENDS Naturals, Sequences, FiniteSets

CONSTANTS
    Calls,         \* calls of writeContractAndGetReceipt
    Once,          \* those whose simulation reverts once they have been executed
    MaxAttempts,   \* maxWriteContractAttempts
    MaxTxs,        \* bound: nonces of the wallet
    MaxRestarts,   \* bound: restarts of the API
    None           \* no call

ASSUME SenderAssumption ==
    /\ Once \subseteq Calls /\ None \notin Calls
    /\ MaxAttempts \in Nat \ {0} /\ MaxTxs \in Nat /\ MaxRestarts \in Nat

VARIABLES
    mined,         \* the calls whose transactions are mined, by nonce
    pool,          \* pool[n]: the call whose transaction waits with nonce n
    executed,      \* calls that have been executed, whether or not they reverted
    pc,            \* pc[c]: where the call is
    attempt,       \* attempt[c]: the attempt it is at
    nonce,         \* nonce[c]: args.nonce
    txLock,        \* the call that holds the lock
    restarts

chainVars == <<mined, pool, executed>>
vars == <<chainVars, pc, attempt, nonce, txLock, restarts>>

Nonces == 0 .. MaxTxs
Where == {"idle", "waiting", "params", "submit", "receipt", "done", "failed"}
Working == {"params", "submit", "receipt"}

TypeOK ==
    /\ mined \in Seq(Calls) /\ Len(mined) <= MaxTxs
    /\ pool \in [Nonces -> Calls \cup {None}]
    /\ executed \subseteq Calls
    /\ pc \in [Calls -> Where]
    /\ attempt \in [Calls -> 1..MaxAttempts]
    /\ nonce \in [Calls -> Nonces]
    /\ txLock \in Calls \cup {None}
    /\ restarts \in 0..MaxRestarts

Init ==
    /\ mined = <<>> /\ executed = {}
    /\ pool = [n \in Nonces |-> None]
    /\ pc = [c \in Calls |-> "idle"]
    /\ attempt = [c \in Calls |-> 1]
    /\ nonce = [c \in Calls |-> 0]
    /\ txLock = None
    /\ restarts = 0

Go(c, where) == pc' = [pc EXCEPT ![c] = where]
\* The call leaves, and the lock is released.
Leave(c, where) == Go(c, where) /\ txLock' = None

\* The function is called and waits for the lock ...
Begin(c) ==
    /\ pc[c] = "idle"
    /\ Go(c, "waiting")
    /\ UNCHANGED <<chainVars, attempt, nonce, txLock, restarts>>

Free == txLock = None

\* ... and gets it.
Acquire(c) ==
    /\ pc[c] = "waiting" /\ Free
    /\ Go(c, "params") /\ txLock' = c
    /\ UNCHANGED <<chainVars, attempt, nonce, restarts>>

\* The nonce at the latest block, according to a node that may be a block behind.
LatestNonces == {n \in Nonces : n <= Len(mined) /\ n + 1 >= Len(mined)}

\* setOverrideParams, with a simulation of the call that does not revert.
SetParams(c) ==
    /\ pc[c] = "params"
    /\ \E n \in LatestNonces :
         /\ c \in Once => \A i \in 1..n : mined[i] # c
         /\ nonce' = [nonce EXCEPT ![c] = n]
    /\ Go(c, "submit")
    /\ UNCHANGED <<chainVars, attempt, txLock, restarts>>

\* It throws after its retries, as it does when the simulation reverts.
ParamsFail(c) ==
    /\ pc[c] = "params"
    /\ Leave(c, "failed")
    /\ UNCHANGED <<chainVars, attempt, nonce, restarts>>

\* The transaction reaches the sequencer, and takes the place of one with its nonce.
Broadcast(c) ==
    /\ nonce[c] >= Len(mined) /\ nonce[c] < MaxTxs
    /\ pool' = [pool EXCEPT ![nonce[c]] = c]

Submit(c) ==
    /\ pc[c] = "submit" /\ Broadcast(c)
    /\ Go(c, "receipt")
    /\ UNCHANGED <<mined, executed, attempt, nonce, txLock, restarts>>

\* Slip: one attempt too many.
RetryMore(c) ==
    IF attempt[c] <= MaxAttempts
    THEN Go(c, "params") /\ attempt' = [attempt EXCEPT ![c] = @ + 1] /\ UNCHANGED txLock
    ELSE Leave(c, "failed") /\ UNCHANGED attempt
\* Slip: a call returns what it has after its attempts.
RetryReturning(c) ==
    IF attempt[c] < MaxAttempts
    THEN Go(c, "params") /\ attempt' = [attempt EXCEPT ![c] = @ + 1] /\ UNCHANGED txLock
    ELSE Leave(c, "done") /\ UNCHANGED attempt
\* Slip: the lock is kept when the attempts are used up.
RetryHolding(c) ==
    IF attempt[c] < MaxAttempts
    THEN Go(c, "params") /\ attempt' = [attempt EXCEPT ![c] = @ + 1] /\ UNCHANGED txLock
    ELSE Go(c, "failed") /\ UNCHANGED <<attempt, txLock>>
\* An error of the kinds that are retried.
Retry(c) ==
    IF attempt[c] < MaxAttempts
    THEN Go(c, "params") /\ attempt' = [attempt EXCEPT ![c] = @ + 1] /\ UNCHANGED txLock
    ELSE Leave(c, "failed") /\ UNCHANGED attempt

\* The nonce is used, or the fee too low to replace the transaction of another call; with
\* several nodes behind the client, one may have passed the transaction on nevertheless.
Refused(c) ==
    /\ pc[c] = "submit"
    /\ \/ (nonce[c] < Len(mined) \/ pool[nonce[c]] \notin {c, None}) /\ UNCHANGED pool
       \/ Broadcast(c)
    /\ Retry(c)
    /\ UNCHANGED <<mined, executed, nonce, restarts>>

\* Any other error; the transaction may have been passed on.
SubmitFails(c) ==
    /\ pc[c] = "submit"
    /\ UNCHANGED pool \/ Broadcast(c)
    /\ Leave(c, "failed")
    /\ UNCHANGED <<mined, executed, attempt, nonce, restarts>>

\* The receipt of the transaction with that nonce, or of the one that replaced it;
\* its status is not looked at.
Receipt(c) ==
    /\ pc[c] = "receipt" /\ nonce[c] < Len(mined)
    /\ Leave(c, "done")
    /\ UNCHANGED <<chainVars, attempt, nonce, restarts>>

\* It does not come in a minute, even if the transaction is mined in the meantime.
TimesOut(c) ==
    /\ pc[c] = "receipt"
    /\ Retry(c)
    /\ UNCHANGED <<chainVars, nonce, restarts>>

ReceiptFails(c) ==
    /\ pc[c] = "receipt"
    /\ Leave(c, "failed")
    /\ UNCHANGED <<chainVars, attempt, nonce, restarts>>

\* The transaction that is next is mined.
Mine ==
    /\ pool[Len(mined)] # None
    /\ mined' = Append(mined, pool[Len(mined)])
    /\ pool' = [pool EXCEPT ![Len(mined)] = None]
    /\ executed' = executed \cup {pool[Len(mined)]}
    /\ UNCHANGED <<pc, attempt, nonce, txLock, restarts>>

\* The API starts again: its calls are gone, their transactions are not.
Restart ==
    /\ restarts < MaxRestarts
    /\ restarts' = restarts + 1
    /\ pc' = [c \in Calls |-> IF pc[c] \in Working \cup {"waiting"} THEN "failed" ELSE pc[c]]
    /\ txLock' = None
    /\ UNCHANGED <<chainVars, attempt, nonce>>

Try(c) ==
    \/ SetParams(c) \/ ParamsFail(c)
    \/ Submit(c) \/ Refused(c) \/ SubmitFails(c)
    \/ Receipt(c) \/ TimesOut(c) \/ ReceiptFails(c)

Next ==
    \/ \E c \in Calls : Begin(c) \/ Acquire(c) \/ Try(c)
    \/ Mine \/ Restart

Spec == Init /\ [][Next]_vars

\* Every step of a call answers or times out, and the lock is fair.
FairSpec == Spec /\ \A c \in Calls : WF_vars(Try(c)) /\ SF_vars(Acquire(c))

------------------------------------------------------------------------------
(* Properties *)

\* Every call returns or throws, so the lock never stays with one.
EveryCallEnds == \A c \in Calls : pc[c] = "waiting" ~> pc[c] \in {"done", "failed"}

\* What the caller of a call has seen of it.
Result(where) == CASE where = "idle" -> "none"
                   [] where \in {"done", "failed"} -> where
                   [] OTHER -> "open"
Results == [c \in Calls |-> Result(pc[c])]

\* The sender gives its callers what ChainCalls promises.
Promise == INSTANCE ChainCalls WITH result <- Results
KeepsPromise == Promise!Spec

=============================================================================
