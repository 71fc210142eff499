---------------------------- MODULE AccountSync ----------------------------
(***************************************************************************)
(* apps/daimo-mobile sync.ts against packages/daimo-api                    *)
(* getAccountHistory.ts: how the history and the balance of an account     *)
(* reach the phone.  Syncs run on a timer, on push notifications and on    *)
(* pull-to-refresh and do not exclude each other, so several answers may   *)
(* be under way and arrive in any order.  A definition introduced as a     *)
(* slip is a wrong form of the one after it and not part of the            *)
(* specification.                                                          *)
(***************************************************************************)
EXTENDS Integers, Sequences, FiniteSets

CONSTANTS
    Transfers,  \* transfers to and from the account
    Ops,        \* those the phone sends itself, shown as pending at first
    Syncs,      \* bound: syncs under way at once
    Deadline,   \* SEND_DEADLINE_SECS, in blocks
    MaxBlock,   \* bound: blocks
    MaxReorgs   \* bound: reorgs

ASSUME SyncAssumption ==
    /\ Ops \subseteq Transfers
    /\ Deadline \in Nat /\ MaxBlock \in Nat /\ MaxReorgs \in Nat

VARIABLES
    chain,      \* the L2: a sequence of blocks, each a set of transfers
    final,      \* its last finalized block
    reorgs,     \* how often it was reorganised
    index,      \* HomeCoinIndexer.allTransfers: entries of a transfer and its block
    loaded,     \* the last block HomeCoinIndexer has loaded
    tip,        \* IndexWatcher.latestBlock(), published once every indexer has loaded it
    finCache,   \* ViemClient.getFinalizedBlock, cached
    until,      \* until[o]: last block that may include op o, 0 before it is signed
    sending,    \* ops signed whose sendUserOp call has not returned
    account,    \* the account stored on the phone
    sync,       \* sync[s]: one call of resync and its request
    undercut    \* history: see Undercuts

chainVars == <<chain, final, reorgs>>
apiVars == <<index, loaded, tip, finCache>>
phoneVars == <<until, sending, account, sync, undercut>>
vars == <<chainVars, apiVars, phoneVars>>

Blocks == 0..MaxBlock
Entry == [t : Transfers, block : Blocks]

Account == [lastBlock : Blocks, lastFinalizedBlock : Blocks,
            transfers : SUBSET Entry,     \* recentTransfers found on chain
            finalized : SUBSET Entry,     \* those marked OpStatus.finalized
            balance : SUBSET Entry,       \* lastBalance: the entries it adds up
            pending : SUBSET Ops, timestamp : [Ops -> Blocks]]

Sync == [pc : {"idle", "sent", "arrived", "answered"}, fromScratch : BOOLEAN,
         sinceBlockNum : Blocks, lastBlock : Blocks, lastFinalizedBlock : Blocks,
         transferLogs : SUBSET Entry, lastBalance : SUBSET Entry]

Idle == [pc |-> "idle", fromScratch |-> FALSE, sinceBlockNum |-> 0, lastBlock |-> 0,
         lastFinalizedBlock |-> 0, transferLogs |-> {}, lastBalance |-> {}]

TypeOK ==
    /\ chain \in Seq(SUBSET Transfers) /\ Len(chain) \in Blocks
    /\ final \in 0..Len(chain)
    /\ reorgs \in 0..MaxReorgs
    /\ index \subseteq Entry
    /\ loaded \in Blocks /\ tip \in 0..loaded
    /\ finCache \in 0..final
    /\ until \in [Ops -> 0..MaxBlock + Deadline]
    /\ sending \in SUBSET Ops
    /\ account \in Account
    /\ sync \in [Syncs -> Sync]
    /\ undercut \in BOOLEAN

Init ==
    /\ chain = <<>> /\ final = 0 /\ reorgs = 0
    /\ index = {} /\ loaded = 0 /\ tip = 0 /\ finCache = 0
    /\ until = [o \in Ops |-> 0] /\ sending = {}
    /\ account = [lastBlock |-> 0, lastFinalizedBlock |-> 0, transfers |-> {},
                  finalized |-> {}, balance |-> {}, pending |-> {},
                  timestamp |-> [o \in Ops |-> 0]]
    /\ sync = [s \in Syncs |-> Idle]
    /\ undercut = FALSE

-----------------------------------------------------------------------------
(* The chain.  Time is counted in blocks: the phone's clock is the height. *)

Mined == UNION {chain[b] : b \in 1..Len(chain)}

\* validUntil: the bundler and the entry point refuse an op after its deadline.
MayInclude(t, b) == t \in Ops => b <= until[t]

NewBlock ==
    /\ Len(chain) < MaxBlock
    /\ \E S \in SUBSET (Transfers \ Mined) :
          /\ \A t \in S : MayInclude(t, Len(chain) + 1)
          /\ chain' = Append(chain, S)
    /\ UNCHANGED <<final, reorgs, apiVars, phoneVars>>

Finalize ==
    /\ final' \in final + 1..Len(chain)
    /\ UNCHANGED <<chain, reorgs, apiVars, phoneVars>>

\* Blocks after the finalized one are replaced.
Reorg ==
    /\ reorgs < MaxReorgs
    /\ reorgs' = reorgs + 1
    /\ \E h \in final..Len(chain) - 1 : chain' = SubSeq(chain, 1, h)
    /\ UNCHANGED <<final, apiVars, phoneVars>>

-----------------------------------------------------------------------------
(* The API.  IndexWatcher has the indexer load the new blocks, later publishes the tip. *)

EntriesOf(b) == {[t |-> x, block |-> b] : x \in chain[b]}

LoadTransfers ==
    /\ loaded < Len(chain)
    /\ index' = index \cup UNION {EntriesOf(b) : b \in loaded + 1..Len(chain)}
    /\ loaded' = Len(chain)
    /\ UNCHANGED <<chainVars, tip, finCache, phoneVars>>

\* Slip: the tip is published before the indexers have loaded it.
PublishTipAhead ==
    /\ tip < Len(chain)
    /\ tip' = Len(chain)
    /\ UNCHANGED <<chainVars, index, loaded, finCache, phoneVars>>

PublishTip ==
    /\ tip < loaded
    /\ tip' = loaded
    /\ UNCHANGED <<chainVars, index, loaded, finCache, phoneVars>>

RefreshFinalized ==
    /\ finCache < final
    /\ finCache' = final
    /\ UNCHANGED <<chainVars, index, loaded, tip, phoneVars>>

\* getAccountHistory is called with the tip of that moment and waits for the finalized block.
Arrive(s) ==
    /\ sync[s].pc = "sent"
    /\ sync' = [sync EXCEPT ![s].pc = "arrived", ![s].lastBlock = tip]
    /\ UNCHANGED <<chainVars, apiVars, until, sending, account, undercut>>

\* Slip: the assertion that the index has reached the finalized block is missing.
FinalizedReachedUnchecked(s) == TRUE

\* "Latest block < finalized" fails the request (getAccountHistory.ts:135-138).
FinalizedReached(s) == sync[s].lastBlock >= finCache

\* Slip: only transfers after sinceBlockNum are served.
TransfersAfter(n) == {e \in index : e.block > n}

\* HomeCoinIndexer.filterTransfers.
TransfersSince(n) == {e \in index : e.block >= n}

\* The answer is read from the index as it is after the wait.
Answer(s) ==
    /\ sync[s].pc = "arrived"
    /\ FinalizedReached(s)
    /\ sync' = [sync EXCEPT ![s].pc = "answered", ![s].lastFinalizedBlock = finCache,
                            ![s].transferLogs = TransfersSince(sync[s].sinceBlockNum),
                            ![s].lastBalance = index]
    /\ UNCHANGED <<chainVars, apiVars, until, sending, account, undercut>>

\* Slip: a failed request is never answered.
RefuseHangs(s) ==
    /\ sync[s].pc = "arrived"
    /\ ~FinalizedReached(s)
    /\ UNCHANGED vars

Refuse(s) ==
    /\ sync[s].pc = "arrived"
    /\ ~FinalizedReached(s)
    /\ sync' = [sync EXCEPT ![s] = Idle]
    /\ UNCHANGED <<chainVars, apiVars, until, sending, account, undercut>>

-----------------------------------------------------------------------------
(* The phone *)

\* fetchSync: a sync starts at the last finalized block of the account as it is now.
Since == account.lastFinalizedBlock

\* resync, from the timer, a push notification or a pull to refresh.
StartSync(s) ==
    /\ sync[s].pc = "idle"
    /\ sync' = [sync EXCEPT ![s] = [Idle EXCEPT !.pc = "sent", !.sinceBlockNum = Since]]
    /\ UNCHANGED <<chainVars, apiVars, until, sending, account, undercut>>

\* The app is killed and opened again: startSync fetches everything.  The account was
\* saved by every transform; a sync or a send under way is gone.
AppLoad(s) ==
    /\ sync' = [q \in Syncs |->
                  IF q = s THEN [Idle EXCEPT !.pc = "sent", !.fromScratch = TRUE] ELSE Idle]
    /\ sending' = {}
    /\ UNCHANGED <<chainVars, apiVars, until, account, undercut>>

\* The request or its answer is lost, on the way or because the API restarts.
SyncFails(s) ==
    /\ sync[s].pc # "idle"
    /\ sync' = [sync EXCEPT ![s] = Idle]
    /\ UNCHANGED <<chainVars, apiVars, until, sending, account, undercut>>

\* An answer older than the account, which applySync skips unless it is from scratch.
Older(s) ==
    /\ sync[s].lastFinalizedBlock < account.lastFinalizedBlock
    /\ ~sync[s].fromScratch

SkipSync(s) ==
    /\ sync[s].pc = "answered"
    /\ Older(s)
    /\ sync' = [sync EXCEPT ![s] = Idle]
    /\ UNCHANGED <<chainVars, apiVars, until, sending, account, undercut>>

\* oldFinalizedTransfers: what the account keeps, being older than the answer.
Kept(s) == {e \in account.transfers : e.block < sync[s].sinceBlockNum}

Merged(s) == Kept(s) \cup sync[s].transferLogs

\* Slip: the deadline is one block early.
ExpiredEarly(o, s) == account.timestamp[o] + Deadline <= sync[s].lastBlock + 1

\* Slip: pending ops have no deadline.
ExpiredNever(o, s) == FALSE

\* The last block is past the deadline of the pending op.
Expired(o, s) == account.timestamp[o] + Deadline <= sync[s].lastBlock

StillPending(s) ==
    {o \in account.pending : ~Expired(o, s) /\ \A e \in Merged(s) : e.t # o}

\* The marks of the transfers kept, and those of everything now finalized.
Marked(s) ==
    (account.finalized \cap Kept(s))
        \cup {e \in Merged(s) : e.block <= sync[s].lastFinalizedBlock}

\* A sync from scratch replaces the account by one that another sync under way is ahead of.
Undercuts(s) ==
    /\ sync[s].fromScratch
    /\ \E q \in Syncs \ {s} :
          sync[q].pc # "idle" /\ sync[q].sinceBlockNum > sync[s].lastFinalizedBlock

\* applySync, in AccountManager.transform.
ApplySync(s) ==
    /\ sync[s].pc = "answered"
    /\ ~Older(s)
    /\ sync[s].lastBlock >= sync[s].sinceBlockNum
    /\ account' = [account EXCEPT
                      !.lastBlock = sync[s].lastBlock,
                      !.lastFinalizedBlock = sync[s].lastFinalizedBlock,
                      !.transfers = Merged(s),
                      !.finalized = Marked(s),
                      !.balance = sync[s].lastBalance,
                      !.pending = StillPending(s)]
    /\ sync' = [sync EXCEPT ![s] = Idle]
    /\ undercut' = (undercut \/ Undercuts(s))
    /\ UNCHANGED <<chainVars, apiVars, until, sending>>

\* DaimoOpSender.sendUserOp signs the op and sends it to the API.  The account exists:
\* some block has created it.
Send(o) ==
    /\ until[o] = 0
    /\ chain # <<>>
    /\ until' = [until EXCEPT ![o] = Len(chain) + Deadline]
    /\ sending' = sending \cup {o}
    /\ UNCHANGED <<chainVars, apiVars, account, sync, undercut>>

\* useSendAsync adds the pending transfer when the API has answered.
ShowPending(o) ==
    /\ o \in sending
    /\ Len(chain) + Deadline <= MaxBlock
    /\ sending' = sending \ {o}
    /\ account' = [account EXCEPT !.pending = @ \cup {o}, !.timestamp[o] = Len(chain)]
    /\ UNCHANGED <<chainVars, apiVars, until, sync, undercut>>

-----------------------------------------------------------------------------
Next ==
    \/ NewBlock \/ Finalize \/ Reorg
    \/ LoadTransfers \/ PublishTip \/ RefreshFinalized
    \/ \E s \in Syncs : \/ Arrive(s) \/ Answer(s) \/ Refuse(s)
                        \/ StartSync(s) \/ AppLoad(s)
                        \/ SyncFails(s) \/ SkipSync(s) \/ ApplySync(s)
    \/ \E o \in Ops : Send(o) \/ ShowPending(o)

Spec == Init /\ [][Next]_vars

\* Blocks go on and become final; the API polls; the phone syncs on a timer.  A network
\* that fails at times does not fail for ever, and nobody keeps killing the app.
Fairness ==
    /\ WF_vars(NewBlock) /\ WF_vars(Finalize)
    /\ WF_vars(LoadTransfers) /\ WF_vars(PublishTip) /\ WF_vars(RefreshFinalized)
    /\ \A s \in Syncs :
          /\ WF_vars(StartSync(s)) /\ WF_vars(Refuse(s)) /\ WF_vars(SkipSync(s))
          /\ SF_vars(Arrive(s)) /\ SF_vars(Answer(s)) /\ SF_vars(ApplySync(s))

FairSpec == Spec /\ Fairness

-----------------------------------------------------------------------------
(* Properties *)

\* Whatever the order of the answers, the history holds every transfer the API's index has
\* up to the last block of the account.
MissesNothingIndexed ==
    ~undercut =>
        \A e \in index : e.block <= account.lastBlock => e \in account.transfers

\* The balance shown is the sum of the history shown, though they are merged differently.
BalanceIsOfHistory == ~undercut => account.balance = account.transfers

\* A transfer marked finalized stays in the history and finalized, unless the account goes
\* back to an earlier finalized block, which only a sync from scratch may do.
FinalStaysFinal ==
    [][account'.lastFinalizedBlock >= account.lastFinalizedBlock =>
          account.finalized \subseteq account'.finalized]_vars

\* A pending op that disappears from the history was not executed and never will be.
DroppedIsDead ==
    [][\A o \in account.pending :
          reorgs = 0 /\ ~undercut /\ o \notin account'.pending
              /\ (\A e \in account'.transfers : e.t # o)
          => o \notin Mined /\ until[o] <= Len(chain)]_vars

\* Every transfer of the index reaches the history.
EventuallySeen ==
    \A x \in Transfers, b \in 1..MaxBlock :
        [t |-> x, block |-> b] \in index
            ~> [t |-> x, block |-> b] \in account.transfers \/ undercut

\* A pending op does not stay pending for ever.
PendingResolves == \A o \in Ops : o \in account.pending ~> o \notin account.pending

\* sync.ts:136-137: "Loads all account history since the last finalized block as of the
\* previous sync. This means we're guaranteed to see all events even if there were reorgs."
SeesAllEvents ==
    ~undercut =>
        \A b \in 1..account.lastFinalizedBlock : \A x \in chain[b] :
            \E e \in account.transfers : e.t = x

=============================================================================
