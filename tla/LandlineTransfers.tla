--------------------------- MODULE LandlineTransfers ---------------------------
(***************************************************************************)
(* Bank transfers to and from an account, in the history of the phone.     *)
(* Landline, a service outside this repository, knows the bank's side of   *)
(* them, the chain the other; landlineClogMatcher.ts joins the two in the  *)
(* API, for the blocks the phone asks for, and syncLandline.ts joins the   *)
(* answer to what the phone has kept, with what it shows as pending.       *)
(* Block numbers and times are one: the code computes each from the other. *)
(* A definition introduced as a slip is a wrong form of the one after it.  *)
(***************************************************************************)
EXTENDS Integers, FiniteSets

CONSTANTS
    Deposits,     \* transfers from a bank, each with its transaction
    Withdrawals,  \* transfers to a bank, each with its transaction
    Syncs,        \* bound: syncs under way at once
    Deadline,     \* SEND_DEADLINE_SECS, in blocks
    MaxTransfers, \* bound: transfers begun
    MaxLag,       \* bound: blocks a node is behind with what is finalized
    MaxBlock      \* bound: blocks

ASSUME LandlineAssumption ==
    /\ Deposits \cap Withdrawals = {}
    /\ Deadline \in Nat \ {0} /\ MaxBlock \in Nat \ {0}
    /\ MaxTransfers \in Nat /\ MaxLag \in Nat

VARIABLES
    tip,        \* the last block of the chain, and the time
    final,      \* the last finalized block
    minedAt,    \* minedAt[x]: block of the transaction of x, 0 if there is none
    indexed,    \* the last block the API has loaded
    bank,       \* what Landline tells of each transfer
    signed,     \* signed[w]: when the phone signed withdrawal w, 0 before
    depositing, \* deposits whose call has not been answered
    recent,     \* the phone's recentTransfers
    lastBlock, lastFinalized,   \* of the phone's account
    sync,       \* sync[s]: one call of resync
    behind      \* history: see StaleAnswer

blockVars == <<tip, final, minedAt, indexed>>
phoneVars == <<signed, depositing, recent, lastBlock, lastFinalized>>
syncVars == <<sync, behind>>
landlineVars == <<blockVars, bank, phoneVars, syncVars>>

Bank == Deposits \cup Withdrawals
Blocks == 0..MaxBlock

\* LandlineTransferStatus; "none" before Landline knows of the transfer.  One that is
\* returned is shown as one that failed.
Settled == {"completed", "failed"}
Status == {"none", "processing"} \cup Settled

\* LandlineTransfer: created at a time, with or without txHash.
Record == [created : Blocks, hash : BOOLEAN, status : Status]
Unknown == [created |-> 0, hash |-> FALSE, status |-> "none"]

\* A TransferClog: of an op that is pending, of a Transfer log, or of a bank transfer.
Clog == [of : Bank, kind : {"op", "log", "bank"}, hash : BOOLEAN, time : 1..MaxBlock,
         mark : {"pending", "confirmed", "finalized"},
         offchain : Status]      \* status of offchainTransfer, "none" if there is none

Sync == [pc : {"idle", "sent", "read", "answered"}, fromScratch : BOOLEAN, since : Blocks,
         lastBlock : Blocks, fin : Blocks, logs : SUBSET Clog]

Idle == [pc |-> "idle", fromScratch |-> FALSE, since |-> 0, lastBlock |-> 0, fin |-> 0,
         logs |-> {}]

LandlineTypeOK ==
    /\ tip \in 1..MaxBlock /\ final \in 0..tip /\ indexed \in 0..tip
    /\ minedAt \in [Bank -> 0..tip]
    /\ bank \in [Bank -> Record]
    /\ \A x \in Bank : bank[x].created <= tip /\ (bank[x].created = 0 <=> bank[x] = Unknown)
    /\ signed \in [Withdrawals -> 0..tip]
    /\ depositing \subseteq Deposits
    /\ recent \subseteq Clog
    /\ \A c \in recent : /\ c.kind = "op" => c.of \in Withdrawals /\ c.mark = "pending"
                         /\ c.kind = "log" => c.hash /\ c.time = minedAt[c.of]
                         /\ c.kind = "bank" => c.offchain # "none"
    /\ lastBlock \in 0..indexed /\ lastFinalized \in 0..final
    /\ sync \in [Syncs -> Sync]
    /\ behind \in BOOLEAN

LandlineInit ==
    /\ tip = 1 /\ final = 0 /\ indexed = 0
    /\ minedAt = [x \in Bank |-> 0]
    /\ bank = [x \in Bank |-> Unknown]
    /\ signed = [w \in Withdrawals |-> 0]
    /\ depositing = {}
    /\ recent = {} /\ lastBlock = 0 /\ lastFinalized = 0
    /\ sync = [s \in Syncs |-> Idle]
    /\ behind = FALSE

-----------------------------------------------------------------------------
(* The chain and its index *)

\* Landline sends the transaction of a deposit it is processing; a withdrawal is an op
\* that the entry point accepts until its deadline.
MayMine(x) ==
    /\ minedAt[x] = 0
    /\ \/ x \in Deposits /\ bank[x].status = "processing"
       \/ x \in Withdrawals /\ signed[x] # 0 /\ tip + 1 <= signed[x] + Deadline

NewBlock ==
    /\ tip < MaxBlock
    /\ tip' = tip + 1
    /\ \E S \in SUBSET {x \in Bank : MayMine(x)} :
          minedAt' = [x \in Bank |-> IF x \in S THEN tip + 1 ELSE minedAt[x]]
    /\ UNCHANGED <<final, indexed, bank, phoneVars, syncVars>>

\* The L1 finalizes a block minutes after it was made, later than an op's deadline.
Finalize ==
    /\ final' \in final + 1..tip - Deadline
    /\ UNCHANGED <<tip, minedAt, indexed, bank, phoneVars, syncVars>>

Index ==
    /\ indexed < tip
    /\ indexed' = tip
    /\ UNCHANGED <<tip, final, minedAt, bank, phoneVars, syncVars>>

-----------------------------------------------------------------------------
(* Landline, as the comments of the two matchers describe it *)

\* A deposit gets its transaction's hash before the transaction is mined (FastFinish), or
\* after it.
TellHash(d) ==
    /\ bank[d].status = "processing" /\ ~bank[d].hash
    /\ bank' = [bank EXCEPT ![d].hash = TRUE]
    /\ UNCHANGED <<blockVars, phoneVars, syncVars>>

\* A withdrawal is known once its transaction has reached the liquidation address.
Notice(w) ==
    /\ minedAt[w] # 0 /\ bank[w] = Unknown
    /\ bank' = [bank EXCEPT ![w] = [created |-> tip, hash |-> TRUE, status |-> "processing"]]
    /\ UNCHANGED <<blockVars, phoneVars, syncVars>>

Settle(x) ==
    /\ bank[x].status = "processing"
    /\ \E s \in Settled :
          /\ s = "completed" => bank[x].hash /\ minedAt[x] # 0
          /\ bank' = [bank EXCEPT ![x].status = s]
    /\ UNCHANGED <<blockVars, phoneVars, syncVars>>

-----------------------------------------------------------------------------
(* The API *)

LogClog(x) == [of |-> x, kind |-> "log", hash |-> TRUE, time |-> minedAt[x],
               mark |-> "confirmed", offchain |-> "none"]

\* HomeCoinIndexer.filterTransfers.
TransfersSince(n) == {LogClog(x) : x \in {y \in Bank : minedAt[y] \in n..indexed /\ minedAt[y] # 0}}

\* Slip: the last block of the chain, whether the API has loaded it or not.
ChainsBlock == tip

\* watcher.latestBlock().
LatestBlock == indexed

\* getFinalizedBlock, of one node or another.
FinalizedBlocks == (final - MaxLag .. final) \cap Nat

\* getAccountHistory takes the last block, the finalized block and the transfers ...
Read(s, fin) ==
    /\ sync[s].pc = "sent"
    /\ LatestBlock >= fin
    /\ sync' = [sync EXCEPT ![s].pc = "read", ![s].lastBlock = LatestBlock, ![s].fin = fin,
                            ![s].logs = TransfersSince(sync[s].since)]
    /\ UNCHANGED <<blockVars, bank, phoneVars, behind>>

\* landlineTransferToTransferClog: pending if a transaction is known to be under way.
BankClog(x, r) == [of |-> x, kind |-> "bank", hash |-> r.hash, time |-> r.created,
                   mark |-> IF r.hash THEN "pending" ELSE "confirmed",
                   offchain |-> r.status]

\* Slip: a transaction that is known is shown as sent, and not joined to its transfer log.
JoinApart(logs, told) ==
    logs \cup {BankClog(x, told[x]) : x \in {y \in Bank : told[y] # Unknown}}

\* addLandlineTransfers of landlineClogMatcher.ts: by hash, in what was asked for only.
Join(logs, told) ==
    LET matched(c) == told[c.of] # Unknown /\ told[c.of].hash
    IN  {IF matched(c) THEN [c EXCEPT !.offchain = told[c.of].status] ELSE c : c \in logs}
          \cup {BankClog(x, told[x]) : x \in
                   {y \in Bank : told[y] # Unknown /\ ~\E c \in logs : c.of = y /\ matched(c)}}

\* Slip: Landline is asked for the transfers created since the last sync only.
CreatedLate(s) ==
    [x \in Bank |-> IF bank[x].created >= sync[s].since THEN bank[x] ELSE Unknown]

\* getLandlineTransfers, without createdAfterS.
LandlineTransfersFor(s) == bank

\* ... and, after other calls, what Landline knows.
Answer(s) ==
    /\ sync[s].pc = "read"
    /\ sync' = [sync EXCEPT ![s].pc = "answered",
                            ![s].logs = Join(sync[s].logs, LandlineTransfersFor(s))]
    /\ UNCHANGED <<blockVars, bank, phoneVars, behind>>

-----------------------------------------------------------------------------
(* The phone *)

Begun == {d \in Deposits : bank[d] # Unknown} \cup {w \in Withdrawals : signed[w] # 0}

\* SendTransferButton: the op is signed, sent and shown as pending (AccountSync has the
\* moments between).
Withdraw(w) ==
    /\ signed[w] = 0 /\ Cardinality(Begun) < MaxTransfers
    /\ tip + Deadline <= MaxBlock
    /\ signed' = [signed EXCEPT ![w] = tip]
    /\ recent' = recent \cup {[of |-> w, kind |-> "op", hash |-> FALSE, time |-> tip,
                               mark |-> "pending", offchain |-> "none"]}
    /\ UNCHANGED <<blockVars, bank, depositing, lastBlock, lastFinalized, syncVars>>

\* useLandlineDeposit: depositFromLandline is called and creates the transfer ...
Deposit(d) ==
    /\ bank[d] = Unknown /\ Cardinality(Begun) < MaxTransfers
    /\ tip + Deadline <= MaxBlock
    /\ bank' = [bank EXCEPT ![d] = [created |-> tip, hash |-> FALSE, status |-> "processing"]]
    /\ depositing' = depositing \cup {d}
    /\ UNCHANGED <<blockVars, signed, recent, lastBlock, lastFinalized, syncVars>>

\* ... and depositAccountTransform shows the transfer of the response, as pending.
DepositShown(d) ==
    /\ d \in depositing
    /\ depositing' = depositing \ {d}
    /\ recent' = recent \cup
          {[BankClog(d, [bank[d] EXCEPT !.hash = FALSE, !.status = "processing"])
              EXCEPT !.mark = "pending"]}
    /\ UNCHANGED <<blockVars, bank, signed, lastBlock, lastFinalized, syncVars>>

DepositFails(d) ==
    /\ d \in depositing
    /\ depositing' = depositing \ {d}
    /\ UNCHANGED <<blockVars, bank, signed, recent, lastBlock, lastFinalized, syncVars>>

\* resync, since the last finalized block of the account.
StartSync(s) ==
    /\ sync[s].pc = "idle"
    /\ sync' = [sync EXCEPT ![s] = [Idle EXCEPT !.pc = "sent", !.since = lastFinalized]]
    /\ UNCHANGED <<blockVars, bank, phoneVars, behind>>

\* The app is killed and opened again; everything is fetched.
AppLoad(s) ==
    /\ sync' = [q \in Syncs |->
                  IF q = s THEN [Idle EXCEPT !.pc = "sent", !.fromScratch = TRUE] ELSE Idle]
    /\ depositing' = {}
    /\ UNCHANGED <<blockVars, bank, signed, recent, lastBlock, lastFinalized, behind>>

\* The request or its answer is lost, or Landline does not answer the API.
SyncFails(s) ==
    /\ sync[s].pc # "idle"
    /\ sync' = [sync EXCEPT ![s] = Idle]
    /\ UNCHANGED <<blockVars, bank, phoneVars, behind>>

\* applySync skips what is older than the account.
SkipSync(s) ==
    /\ sync[s].pc = "answered"
    /\ sync[s].fin < lastFinalized /\ ~sync[s].fromScratch
    /\ sync' = [sync EXCEPT ![s] = Idle]
    /\ UNCHANGED <<blockVars, bank, phoneVars, behind>>

\* oldFinalizedTransfers: rows with a block, real or guessed, before the answer's.
Old(s) == {c \in recent : c.kind # "op" /\ c.time < sync[s].since}

\* The old rows of the transaction of row n ...
SameTx(n, o) == n.hash /\ o.hash /\ o.of = n.of

\* Slip: only the transaction joins an old row to a new one.
ReplacesSameTx(n, o) == SameTx(n, o)

\* ... and those of its bank transfer are replaced.
Replaces(n, o) == SameTx(n, o) \/ (o.offchain # "none" /\ o.of = n.of)

\* They become one row: the old row of the transaction, the last one if there are more,
\* with the news of the bank; the new row if there is none.
Updated(n, old) ==
    LET same == {o \in old : SameTx(n, o)}
    IN  IF same = {} THEN n
        ELSE [(CHOOSE o \in same : \A p \in same : p.time <= o.time)
                EXCEPT !.offchain = n.offchain]

\* addLandlineTransfers of syncLandline.ts, and addTransfers.
Merge(old, new) ==
    LET news == {n \in new : n.offchain # "none"}
    IN  {o \in old : ~\E n \in news : Replaces(n, o)}
          \cup {Updated(n, old) : n \in news}
          \cup (new \ news)

MarkFinal(c, fin) == IF c.time <= fin THEN [c EXCEPT !.mark = "finalized"] ELSE c

\* syncFindSameOp, by opHash or by txHash.
SameOp(p, c) ==
    p.of = c.of /\ ((p.kind = "op" /\ c.kind = "log") \/ (p.hash /\ c.hash))

\* Slip: a pending row has no deadline.
ExpiredNever(p, s) == FALSE
Expired(p, s) == p.time + Deadline <= sync[s].lastBlock

\* Rows marked just now are not pending any more: they are the same objects.
StillPending(s, rows) ==
    {p \in recent : /\ p.mark = "pending"
                    /\ ~(p \in Old(s) /\ p \in rows /\ p.time <= sync[s].fin)
                    /\ ~Expired(p, s)
                    /\ ~\E c \in rows : SameOp(p, c)}

\* The answer was computed before one that is already applied.
StaleAnswer(s) ==
    \/ sync[s].lastBlock < lastBlock \/ sync[s].fin < lastFinalized
    \/ \E c \in recent : /\ c.offchain # "none" /\ c.mark # "pending"
                         /\ ~\E n \in sync[s].logs : n.of = c.of /\ n.offchain # "none"
                                                      /\ (c.hash => n.hash)

\* applySync.
ApplySync(s) ==
    /\ sync[s].pc = "answered"
    /\ sync[s].fin >= lastFinalized \/ sync[s].fromScratch
    /\ LET rows == Merge(Old(s), sync[s].logs)
       IN  recent' = {MarkFinal(c, sync[s].fin) : c \in rows} \cup StillPending(s, rows)
    /\ lastBlock' = sync[s].lastBlock
    /\ lastFinalized' = sync[s].fin
    /\ sync' = [sync EXCEPT ![s] = Idle]
    /\ behind' = (behind \/ StaleAnswer(s))
    /\ UNCHANGED <<blockVars, bank, signed, depositing>>

-----------------------------------------------------------------------------
LandlineNext ==
    \/ NewBlock \/ Finalize \/ Index
    \/ \E d \in Deposits : TellHash(d) \/ Deposit(d) \/ DepositShown(d) \/ DepositFails(d)
    \/ \E w \in Withdrawals : Notice(w) \/ Withdraw(w)
    \/ \E x \in Bank : Settle(x)
    \/ \E s \in Syncs : \/ \E fin \in FinalizedBlocks : Read(s, fin)
                        \/ Answer(s)
                        \/ StartSync(s) \/ AppLoad(s)
                        \/ SyncFails(s) \/ SkipSync(s) \/ ApplySync(s)

LandlineSpec == LandlineInit /\ [][LandlineNext]_landlineVars

\* Blocks go on, become final and are indexed; the phone syncs on a timer and
\* succeeds again and again with an answer from a node that is up to date.  Nothing is
\* required of banks or users.
Fairness ==
    /\ WF_landlineVars(NewBlock) /\ WF_landlineVars(Finalize) /\ WF_landlineVars(Index)
    /\ \A s \in Syncs :
          /\ WF_landlineVars(StartSync(s) \/ Answer(s) \/ SkipSync(s) \/ ApplySync(s))
          /\ SF_landlineVars(Read(s, final))
          /\ SF_landlineVars(sync[s].fin = final /\ Answer(s))
          /\ SF_landlineVars(sync[s].fin = final /\ ApplySync(s))

LandlineFairSpec == LandlineSpec /\ Fairness

-----------------------------------------------------------------------------
(* Properties *)

Rows(x) == {c \in recent : c.of = x}
Shown(x) == {c \in Rows(x) : c.mark # "pending"}

\* The history and the money agree: every transaction of a bank transfer, up to the last
\* block of the account, is one row of the history, though three programs join its two
\* sides at different times and no two syncs ask for the same part of them.
EveryTxIsOneRow ==
    ~behind =>
        \A x \in Bank : minedAt[x] \in 1..lastBlock =>
            Cardinality({c \in Shown(x) : c.hash}) = 1

\* syncLandline.ts:24-25: once the phone knows the transaction of a bank transfer, the
\* rows of the two are bundled into one.
BundledOnceKnown ==
    \A x \in Bank :
        (\E c \in Shown(x) : c.hash /\ c.offchain # "none") => Cardinality(Shown(x)) = 1

\* In the end every settled bank transfer is one row, with the outcome the bank reports,
\* whatever was shown meanwhile.
OutcomeShown ==
    <>[](\A x \in Bank : bank[x].status \in Settled =>
            /\ \A c \in Rows(x) : c.offchain # "none" => c.offchain = bank[x].status
            /\ \E c \in Rows(x) : c.offchain = bank[x].status)

\* No row stays pending for ever: not that of a deposit that is not fast after all, nor
\* that of a withdrawal that was never executed.
NothingStaysPending == []<>(\A c \in recent : c.mark # "pending")

\* getTransferClogStatus: a row's own mark and the bank's status, combined.
CombinedStatus(c) ==
    IF c.mark # "confirmed" \/ c.offchain = "none" THEN c.mark
    ELSE IF c.offchain = "completed" THEN "finalized" ELSE c.offchain

\* op.ts:283-287: "Returns a combined onchain + offchain transfer status ... Show status of
\* offchain transfer".
BankStatusIsShown ==
    \A c \in recent : c.offchain \in {"processing", "failed"} => CombinedStatus(c) # "finalized"

\* syncLandline.ts:24-25: "All old landline clogs should be bundled into a single clog".
BundledAtOnce == \A x \in Bank : Cardinality({c \in Rows(x) : c.offchain # "none"}) <= 1

\* syncLandline.ts:28-30: "If an old log matches by tx hash, then it is the on-chain
\* counterpart of the incoming landline clog. Keep the on-chain part of the clog".
OnChainPartIsKept ==
    ~behind => \A c \in recent : c.kind = "bank" /\ c.hash => minedAt[c.of] \notin 1..lastBlock

=============================================================================
