------------------------- MODULE AccountSyncProofs --------------------------
(***************************************************************************)
(* Proofs about AccountSync, for every set of transfers, any number of     *)
(* overlapping syncs and any number of reorgs.                             *)
(***************************************************************************)
EXTENDS AccountSync, SequenceTheorems, TLAPS

USE SyncAssumption DEF SyncAssumption

-----------------------------------------------------------------------------
(* What the actions do to a sync *)

LEMMA IdleType == Idle \in Sync
BY DEF Idle, Sync, Blocks

\* A sync that ends, whichever way.
Ended(s) == sync' = [sync EXCEPT ![s] = Idle]

LEMMA EndedFacts ==
    ASSUME sync \in [Syncs -> Sync], NEW s \in Syncs, Ended(s)
    PROVE  /\ sync' \in [Syncs -> Sync]
           /\ sync'[s] = Idle
           /\ \A q \in Syncs \ {s} : sync'[q] = sync[q]
BY IdleType DEF Ended

LEMMA StartFacts ==
    ASSUME sync \in [Syncs -> Sync], account \in Account, NEW s \in Syncs, StartSync(s)
    PROVE  /\ sync' \in [Syncs -> Sync]
           /\ sync'[s] = [Idle EXCEPT !.pc = "sent",
                                      !.sinceBlockNum = account.lastFinalizedBlock]
           /\ \A q \in Syncs \ {s} : sync'[q] = sync[q]
<1>1. [Idle EXCEPT !.pc = "sent", !.sinceBlockNum = account.lastFinalizedBlock] \in Sync
  BY IdleType DEF Account, Sync
<1> QED
  BY <1>1 DEF StartSync, Since

LEMMA AppLoadFacts ==
    ASSUME sync \in [Syncs -> Sync], NEW s \in Syncs, AppLoad(s)
    PROVE  /\ sync' \in [Syncs -> Sync]
           /\ sync'[s] = [Idle EXCEPT !.pc = "sent", !.fromScratch = TRUE]
           /\ \A q \in Syncs \ {s} : sync'[q] = Idle
<1>1. [Idle EXCEPT !.pc = "sent", !.fromScratch = TRUE] \in Sync
  BY IdleType DEF Sync
<1> QED
  BY <1>1, IdleType DEF AppLoad

LEMMA ArriveFacts ==
    ASSUME sync \in [Syncs -> Sync], tip \in Blocks, NEW s \in Syncs, Arrive(s)
    PROVE  /\ sync' \in [Syncs -> Sync]
           /\ sync'[s] = [sync[s] EXCEPT !.pc = "arrived", !.lastBlock = tip]
           /\ \A q \in Syncs \ {s} : sync'[q] = sync[q]
<1>1. [sync[s] EXCEPT !.pc = "arrived", !.lastBlock = tip] \in Sync
  BY DEF Sync
<1>2. sync' = [sync EXCEPT ![s] = [sync[s] EXCEPT !.pc = "arrived", !.lastBlock = tip]]
  BY DEF Arrive
<1> QED
  BY <1>1, <1>2

LEMMA AnswerFacts ==
    ASSUME sync \in [Syncs -> Sync], index \subseteq Entry, finCache \in Blocks,
           NEW s \in Syncs, Answer(s)
    PROVE  /\ sync' \in [Syncs -> Sync]
           /\ sync'[s] = [sync[s] EXCEPT
                            !.pc = "answered", !.lastFinalizedBlock = finCache,
                            !.transferLogs = TransfersSince(sync[s].sinceBlockNum),
                            !.lastBalance = index]
           /\ \A q \in Syncs \ {s} : sync'[q] = sync[q]
<1> DEFINE r == [sync[s] EXCEPT
                   !.pc = "answered", !.lastFinalizedBlock = finCache,
                   !.transferLogs = TransfersSince(sync[s].sinceBlockNum),
                   !.lastBalance = index]
<1>1. TransfersSince(sync[s].sinceBlockNum) \in SUBSET Entry
  BY DEF TransfersSince
<1>2. r \in Sync
  BY <1>1 DEF Sync
<1>3. sync' = [sync EXCEPT ![s] = r]
  BY DEF Answer
<1> QED
  BY <1>2, <1>3

\* What applySync leaves in the account.
LEMMA ApplyFacts ==
    ASSUME sync \in [Syncs -> Sync], account \in Account, NEW s \in Syncs, ApplySync(s)
    PROVE  /\ account' \in Account
           /\ account'.lastBlock = sync[s].lastBlock
           /\ account'.lastFinalizedBlock = sync[s].lastFinalizedBlock
           /\ account'.transfers = Merged(s)
           /\ account'.finalized = Marked(s)
           /\ account'.balance = sync[s].lastBalance
<1>1. sync[s] \in Sync
  OBVIOUS
<1>2. Merged(s) \in SUBSET Entry
  BY <1>1 DEF Merged, Kept, Account, Sync
<1>3. Marked(s) \in SUBSET Entry
  BY <1>2 DEF Marked, Account
<1>4. StillPending(s) \in SUBSET Ops
  BY DEF StillPending, Account
<1>5. /\ sync[s].lastBlock \in Blocks /\ sync[s].lastFinalizedBlock \in Blocks
      /\ sync[s].lastBalance \in SUBSET Entry
  BY <1>1 DEF Sync
<1> QED
  BY <1>2, <1>3, <1>4, <1>5 DEF ApplySync, Account

-----------------------------------------------------------------------------
(* Types *)

\* The chain, the API and the ops.
SystemTypes ==
    /\ chain \in Seq(SUBSET Transfers) /\ Len(chain) \in Blocks
    /\ final \in 0..Len(chain)
    /\ reorgs \in 0..MaxReorgs
    /\ index \subseteq Entry
    /\ loaded \in Blocks /\ tip \in 0..loaded
    /\ finCache \in 0..final
    /\ until \in [Ops -> 0..MaxBlock + Deadline]
    /\ sending \in SUBSET Ops

\* The account and the syncs.
PhoneTypes == account \in Account /\ sync \in [Syncs -> Sync]

LEMMA TypeParts == TypeOK <=> SystemTypes /\ PhoneTypes /\ undercut \in BOOLEAN
BY Zenon DEF TypeOK, SystemTypes, PhoneTypes

LEMMA TypeInit == Init => TypeOK
<1> SUFFICES ASSUME Init PROVE TypeOK
  OBVIOUS
<1>1. chain \in Seq(SUBSET Transfers) /\ Len(chain) = 0
  BY DEF Init
<1>2. SystemTypes
  BY <1>1 DEF Init, SystemTypes, Blocks
<1>3. account \in Account
  BY DEF Init, Account, Blocks
<1>4. sync \in [Syncs -> Sync]
  BY IdleType DEF Init
<1>5. undercut \in BOOLEAN
  BY Zenon DEF Init
<1> QED
  BY <1>2, <1>3, <1>4, <1>5, TypeParts, Zenon DEF PhoneTypes

LEMMA EntriesType ==
    ASSUME chain \in Seq(SUBSET Transfers), Len(chain) \in Blocks, loaded \in Nat
    PROVE  UNION {EntriesOf(b) : b \in loaded + 1..Len(chain)} \subseteq Entry
<1> SUFFICES ASSUME NEW b \in loaded + 1..Len(chain)
             PROVE  EntriesOf(b) \subseteq Entry
  OBVIOUS
<1>1. b \in 1..Len(chain) /\ b \in Blocks
  BY DEF Blocks
<1>2. chain[b] \subseteq Transfers
  BY <1>1
<1> QED
  BY <1>1, <1>2 DEF EntriesOf, Entry

LEMMA SystemTypesStep == SystemTypes /\ [Next]_vars => SystemTypes'
<1> SUFFICES ASSUME SystemTypes, [Next]_vars PROVE SystemTypes'
  OBVIOUS
<1> USE DEF SystemTypes, Blocks
<1>1. CASE NewBlock
  <2>1. PICK S \in SUBSET Transfers : chain' = Append(chain, S)
    BY <1>1 DEF NewBlock
  <2>2. chain' \in Seq(SUBSET Transfers) /\ Len(chain') = Len(chain) + 1
    BY <2>1
  <2> QED
    BY <1>1, <2>2 DEF NewBlock, apiVars, phoneVars
<1>2. CASE Finalize
  BY <1>2 DEF Finalize, apiVars, phoneVars
<1>3. CASE Reorg
  <2>1. PICK h \in final..Len(chain) - 1 : chain' = SubSeq(chain, 1, h)
    BY <1>3 DEF Reorg
  <2>2. h \in Nat /\ h <= Len(chain)
    OBVIOUS
  <2>3. chain' \in Seq(SUBSET Transfers) /\ Len(chain') = h
    BY <2>1, <2>2
  <2>4. reorgs' \in 0..MaxReorgs
    BY <1>3 DEF Reorg
  <2> QED
    BY <1>3, <2>2, <2>3, <2>4 DEF Reorg, apiVars, phoneVars
<1>4. CASE LoadTransfers
  <2>1. index' \subseteq Entry
    BY <1>4, EntriesType DEF LoadTransfers
  <2> QED
    BY <1>4, <2>1 DEF LoadTransfers, chainVars, phoneVars
<1>5. CASE PublishTip
  BY <1>5 DEF PublishTip, chainVars, phoneVars
<1>6. CASE RefreshFinalized
  BY <1>6 DEF RefreshFinalized, chainVars, phoneVars
<1>7. ASSUME NEW s \in Syncs,
             \/ Arrive(s) \/ Answer(s) \/ Refuse(s) \/ StartSync(s) \/ AppLoad(s)
             \/ SyncFails(s) \/ SkipSync(s) \/ ApplySync(s)
      PROVE  SystemTypes'
  <2>1. UNCHANGED <<chainVars, apiVars, until>> /\ sending' \in SUBSET Ops
    BY <1>7
    DEF Arrive, Answer, Refuse, StartSync, AppLoad, SyncFails, SkipSync, ApplySync
  <2> QED
    BY <2>1 DEF chainVars, apiVars
<1>8. ASSUME NEW o \in Ops, Send(o) PROVE SystemTypes'
  BY <1>8 DEF Send, chainVars, apiVars
<1>9. ASSUME NEW o \in Ops, ShowPending(o) PROVE SystemTypes'
  BY <1>9 DEF ShowPending, chainVars, apiVars
<1>10. CASE UNCHANGED vars
  BY <1>10 DEF vars, chainVars, apiVars, phoneVars
<1> QED
  BY <1>1, <1>2, <1>3, <1>4, <1>5, <1>6, <1>7, <1>8, <1>9, <1>10 DEF Next

LEMMA PhoneTypesStep == SystemTypes /\ PhoneTypes /\ [Next]_vars => PhoneTypes'
<1> SUFFICES ASSUME SystemTypes, PhoneTypes, [Next]_vars PROVE PhoneTypes'
  OBVIOUS
<1> USE DEF PhoneTypes
<1>1. CASE UNCHANGED <<account, sync>>
  BY <1>1
<1>2. tip \in Blocks /\ finCache \in Blocks /\ index \subseteq Entry
  BY DEF SystemTypes, Blocks
<1>3. ASSUME NEW s \in Syncs, Arrive(s) \/ Answer(s) \/ StartSync(s) \/ AppLoad(s)
      PROVE  PhoneTypes'
  <2>1. account' = account
    BY <1>3 DEF Arrive, Answer, StartSync, AppLoad
  <2> QED
    BY <1>2, <1>3, <2>1, ArriveFacts, AnswerFacts, StartFacts, AppLoadFacts
<1>4. ASSUME NEW s \in Syncs, Refuse(s) \/ SyncFails(s) \/ SkipSync(s) PROVE PhoneTypes'
  <2>1. Ended(s) /\ account' = account
    BY <1>4 DEF Ended, Refuse, SyncFails, SkipSync
  <2> QED
    BY <2>1, EndedFacts
<1>5. ASSUME NEW s \in Syncs, ApplySync(s) PROVE PhoneTypes'
  <2>1. Ended(s)
    BY <1>5 DEF Ended, ApplySync
  <2> QED
    BY <1>5, <2>1, EndedFacts, ApplyFacts
<1>6. ASSUME NEW o \in Ops, ShowPending(o) PROVE PhoneTypes'
  <2>1. Len(chain) \in Blocks
    BY DEF SystemTypes
  <2>2. account' \in Account
    BY <1>6, <2>1 DEF ShowPending, Account
  <2> QED
    BY <1>6, <2>2 DEF ShowPending
<1> QED
  BY <1>1, <1>3, <1>4, <1>5, <1>6
  DEF Next, vars, phoneVars, NewBlock, Finalize, Reorg, LoadTransfers, PublishTip,
      RefreshFinalized, Send

LEMMA UndercutStep == undercut \in BOOLEAN /\ [Next]_vars => undercut' \in BOOLEAN
<1> SUFFICES ASSUME undercut \in BOOLEAN, [Next]_vars PROVE undercut' \in BOOLEAN
  OBVIOUS
<1>1. ASSUME NEW s \in Syncs, ApplySync(s) PROVE undercut' \in BOOLEAN
  BY <1>1, Zenon DEF ApplySync
<1>2. CASE UNCHANGED undercut
  BY <1>2, Zenon
<1> QED
  BY <1>1, <1>2, Zenon
  DEF Next, vars, phoneVars, NewBlock, Finalize, Reorg, LoadTransfers, PublishTip,
      RefreshFinalized, Arrive, Answer, Refuse, StartSync, AppLoad, SyncFails, SkipSync, Send,
      ShowPending

LEMMA TypeStep == TypeOK /\ [Next]_vars => TypeOK'
<1> SUFFICES ASSUME TypeOK, [Next]_vars PROVE TypeOK'
  OBVIOUS
<1>1. SystemTypes /\ PhoneTypes /\ undercut \in BOOLEAN
  BY TypeParts, Zenon
<1>2. SystemTypes' /\ PhoneTypes' /\ (undercut \in BOOLEAN)'
  BY <1>1, SystemTypesStep, PhoneTypesStep, UndercutStep, Zenon
<1> QED
  BY <1>2, Zenon DEF TypeOK, SystemTypes, PhoneTypes

\* Type correctness of the chain, the API, the account and the syncs.
THEOREM SyncTypeOK == Spec => []TypeOK
BY TypeInit, TypeStep, PTL DEF Spec

-----------------------------------------------------------------------------
(* The inductive invariant *)

\* No part of the system is ahead of what it depends on.
HeightsOrdered ==
    /\ \A e \in index : e.block <= loaded
    /\ account.lastFinalizedBlock <= account.lastBlock
    /\ account.lastBlock <= loaded
    /\ \A s \in Syncs :
          /\ sync[s].lastBlock <= loaded
          /\ sync[s].pc = "answered" => sync[s].lastFinalizedBlock <= sync[s].lastBlock
          /\ sync[s].fromScratch => sync[s].sinceBlockNum = 0

\* An answer is the part of the index it was asked for, complete up to its last block.
AnswersComplete ==
    \A s \in Syncs : sync[s].pc = "answered" =>
        /\ sync[s].lastBalance \subseteq index
        /\ \A e \in index : e.block <= sync[s].lastBlock => e \in sync[s].lastBalance
        /\ sync[s].transferLogs = {e \in sync[s].lastBalance : e.block >= sync[s].sinceBlockNum}

\* Unless one from scratch has undercut it, no sync starts beyond the finalized block of the
\* account: whatever it does not fetch, the account has.
StartsCovered ==
    ~undercut => \A s \in Syncs :
        sync[s].pc # "idle" => sync[s].sinceBlockNum <= account.lastFinalizedBlock

\* The history is made of entries of the index, the marks of its finalized ones.
HistoryFromIndex ==
    /\ account.transfers \subseteq index
    /\ account.finalized \subseteq account.transfers
    /\ \A e \in account.finalized : e.block <= account.lastFinalizedBlock

SyncInv ==
    /\ HeightsOrdered /\ AnswersComplete /\ StartsCovered /\ HistoryFromIndex
    /\ MissesNothingIndexed /\ BalanceIsOfHistory

Types == SystemTypes /\ PhoneTypes

\* The numbers the argument compares.
LEMMA Heights ==
    ASSUME Types
    PROVE  /\ loaded \in Nat /\ tip \in Nat /\ tip <= loaded /\ finCache \in Nat
           /\ account.lastBlock \in Nat /\ account.lastFinalizedBlock \in Nat
           /\ \A e \in index : e.block \in Nat
           /\ \A s \in Syncs : /\ sync[s].sinceBlockNum \in Nat
                               /\ sync[s].lastBlock \in Nat
                               /\ sync[s].lastFinalizedBlock \in Nat
BY DEF Types, SystemTypes, PhoneTypes, Account, Sync, Entry, Blocks

LEMMA SyncInvInit == Init => SyncInv
<1> SUFFICES ASSUME Init PROVE SyncInv
  OBVIOUS
<1>1. HeightsOrdered
  BY DEF Init, Idle, HeightsOrdered
<1>2. AnswersComplete /\ StartsCovered
  BY DEF Init, Idle, AnswersComplete, StartsCovered
<1>3. HistoryFromIndex /\ MissesNothingIndexed /\ BalanceIsOfHistory
  BY DEF Init, HistoryFromIndex, MissesNothingIndexed, BalanceIsOfHistory
<1> QED
  BY <1>1, <1>2, <1>3 DEF SyncInv

\* What the invariant is about, of the account.
Facts(a) == <<a.lastBlock, a.lastFinalizedBlock, a.transfers, a.finalized, a.balance>>

\* Steps that neither load, answer, apply nor start anything.
LEMMA QuietStep ==
    ASSUME Types, SyncInv, UNCHANGED <<index, loaded, sync, undercut>>,
           Facts(account') = Facts(account)
    PROVE  SyncInv'
<1>1. /\ account'.lastBlock = account.lastBlock
      /\ account'.lastFinalizedBlock = account.lastFinalizedBlock
      /\ account'.transfers = account.transfers
      /\ account'.finalized = account.finalized
      /\ account'.balance = account.balance
  BY DEF Facts
<1> QED
  BY <1>1
  DEF SyncInv, HeightsOrdered, AnswersComplete, StartsCovered, HistoryFromIndex,
      MissesNothingIndexed, BalanceIsOfHistory

\* What is loaded lies beyond every block the phone or an answer has reached.
LEMMA LoadStep ==
    ASSUME Types, SyncInv, LoadTransfers
    PROVE  SyncInv'
<1>1. /\ index \subseteq index'
      /\ \A e \in index' \ index :
            e.block \in Nat /\ e.block > loaded /\ e.block <= loaded'
      /\ loaded' \in Nat /\ loaded' > loaded
  <2> DEFINE new == UNION {EntriesOf(b) : b \in loaded + 1..Len(chain)}
  <2>1. loaded \in Nat /\ Len(chain) \in Nat
    BY Heights DEF Types, SystemTypes, Blocks
  <2>2. ASSUME NEW e \in new PROVE e.block \in Nat /\ e.block > loaded /\ e.block <= Len(chain)
    <3>1. PICK b \in loaded + 1..Len(chain) : e \in EntriesOf(b)
      OBVIOUS
    <3>2. e.block = b
      BY <3>1 DEF EntriesOf
    <3> QED
      BY <2>1, <3>2
  <2>3. index' = index \cup new /\ loaded' = Len(chain) /\ loaded < Len(chain)
    BY DEF LoadTransfers
  <2> HIDE DEF new
  <2> QED
    BY <2>1, <2>2, <2>3
<1>2. account' = account /\ sync' = sync /\ undercut' = undercut
  BY DEF LoadTransfers, phoneVars
<1>3. HeightsOrdered'
  BY <1>1, <1>2, Heights DEF SyncInv, HeightsOrdered
<1>4. AnswersComplete'
  <2> SUFFICES ASSUME NEW s \in Syncs, sync[s].pc = "answered"
               PROVE  /\ sync[s].lastBalance \subseteq index'
                      /\ \A e \in index' : e.block <= sync[s].lastBlock
                                            => e \in sync[s].lastBalance
    BY <1>2 DEF SyncInv, AnswersComplete
  <2>1. sync[s].lastBlock \in Nat /\ sync[s].lastBlock <= loaded /\ loaded \in Nat
    BY Heights DEF SyncInv, HeightsOrdered
  <2>2. \A e \in index' \ index : ~(e.block <= sync[s].lastBlock)
    BY <1>1, <2>1
  <2> QED
    BY <1>1, <2>2 DEF SyncInv, AnswersComplete
<1>5. StartsCovered'
  BY <1>2 DEF SyncInv, StartsCovered
<1>6. HistoryFromIndex'
  BY <1>1, <1>2 DEF SyncInv, HistoryFromIndex
<1>7. MissesNothingIndexed'
  <2>1. account.lastBlock \in Nat /\ account.lastBlock <= loaded /\ loaded \in Nat
    BY Heights DEF SyncInv, HeightsOrdered
  <2>2. \A e \in index' \ index : ~(e.block <= account.lastBlock)
    BY <1>1, <2>1
  <2> QED
    BY <1>2, <2>2 DEF SyncInv, MissesNothingIndexed
<1>8. BalanceIsOfHistory'
  BY <1>2 DEF SyncInv, BalanceIsOfHistory
<1> QED
  BY <1>3, <1>4, <1>5, <1>6, <1>7, <1>8 DEF SyncInv

\* The syncs that are not s stay or end, the account and the index stay.
OthersStay(s) ==
    /\ UNCHANGED <<index, loaded, account, undercut>>
    /\ \A q \in Syncs \ {s} : sync'[q] \in {sync[q], Idle}

LEMMA OneSyncStep ==
    ASSUME Types, SyncInv, NEW s \in Syncs, OthersStay(s),
           sync'[s].lastBlock <= loaded,
           sync'[s].fromScratch => sync'[s].sinceBlockNum = 0,
           sync'[s].pc # "idle" =>
               (~undercut => sync'[s].sinceBlockNum <= account.lastFinalizedBlock),
           sync'[s].pc = "answered" =>
               /\ sync'[s].lastFinalizedBlock <= sync'[s].lastBlock
               /\ sync'[s].lastBalance \subseteq index
               /\ \A e \in index : e.block <= sync'[s].lastBlock => e \in sync'[s].lastBalance
               /\ sync'[s].transferLogs =
                      {e \in sync'[s].lastBalance : e.block >= sync'[s].sinceBlockNum}
    PROVE  SyncInv'
<1>1. /\ index' = index /\ loaded' = loaded /\ account' = account /\ undercut' = undercut
      /\ \A q \in Syncs \ {s} : sync'[q] \in {sync[q], Idle}
  BY DEF OthersStay
<1>2. /\ Idle.pc = "idle" /\ Idle.lastBlock = 0 /\ ~Idle.fromScratch
  BY DEF Idle
<1>3. HeightsOrdered'
  <2>1. \A q \in Syncs \ {s} :
            /\ sync'[q].lastBlock <= loaded
            /\ sync'[q].pc = "answered" => sync'[q].lastFinalizedBlock <= sync'[q].lastBlock
            /\ sync'[q].fromScratch => sync'[q].sinceBlockNum = 0
    BY <1>1, <1>2, Heights DEF SyncInv, HeightsOrdered
  <2> QED
    BY <1>1, <2>1 DEF SyncInv, HeightsOrdered
<1>4. AnswersComplete'
  BY <1>1, <1>2 DEF SyncInv, AnswersComplete
<1>5. StartsCovered'
  BY <1>1, <1>2 DEF SyncInv, StartsCovered
<1>6. HistoryFromIndex' /\ MissesNothingIndexed' /\ BalanceIsOfHistory'
  BY <1>1 DEF SyncInv, HistoryFromIndex, MissesNothingIndexed, BalanceIsOfHistory
<1> QED
  BY <1>3, <1>4, <1>5, <1>6 DEF SyncInv

LEMMA EndStep ==
    ASSUME Types, SyncInv, NEW s \in Syncs, Refuse(s) \/ SyncFails(s) \/ SkipSync(s)
    PROVE  SyncInv'
<1>1. Ended(s) /\ UNCHANGED <<index, loaded, account, undercut>>
  BY DEF Ended, Refuse, SyncFails, SkipSync, apiVars
<1>2. sync'[s] = Idle /\ OthersStay(s)
  BY <1>1, EndedFacts DEF OthersStay, Types, PhoneTypes
<1> QED
  BY <1>2, OneSyncStep, Heights DEF Idle

LEMMA StartStep ==
    ASSUME Types, SyncInv, NEW s \in Syncs, StartSync(s) \/ AppLoad(s)
    PROVE  SyncInv'
<1>1. UNCHANGED <<index, loaded, account, undercut>>
  BY DEF StartSync, AppLoad, apiVars
<1>2. OthersStay(s)
  BY <1>1, StartFacts, AppLoadFacts DEF OthersStay, Types, PhoneTypes
<1>3. /\ sync'[s].pc = "sent" /\ sync'[s].lastBlock = 0
      /\ sync'[s].fromScratch => sync'[s].sinceBlockNum = 0
      /\ sync'[s].sinceBlockNum \in {0, account.lastFinalizedBlock}
  <2>1. CASE StartSync(s)
    <3>1. sync'[s] = [Idle EXCEPT !.pc = "sent",
                                  !.sinceBlockNum = account.lastFinalizedBlock]
      BY <2>1, StartFacts DEF Types, PhoneTypes
    <3>2. sync'[s].pc = "sent" /\ sync'[s].lastBlock = 0
      BY <3>1 DEF Idle
    <3>3. ~sync'[s].fromScratch
      BY <3>1 DEF Idle
    <3>4. sync'[s].sinceBlockNum = account.lastFinalizedBlock
      BY <3>1 DEF Idle
    <3> QED
      BY <3>2, <3>3, <3>4
  <2>2. CASE AppLoad(s)
    <3>1. sync'[s] = [Idle EXCEPT !.pc = "sent", !.fromScratch = TRUE]
      BY <2>2, AppLoadFacts DEF Types, PhoneTypes
    <3>2. sync'[s].pc = "sent" /\ sync'[s].lastBlock = 0 /\ sync'[s].sinceBlockNum = 0
      BY <3>1 DEF Idle
    <3> QED
      BY <3>2
  <2> QED
    BY <2>1, <2>2
<1>4. sync'[s].lastBlock <= loaded /\ sync'[s].sinceBlockNum <= account.lastFinalizedBlock
  BY <1>3, Heights
<1>5. sync'[s].pc # "answered"
  BY <1>3
<1> QED
  BY <1>2, <1>3, <1>4, <1>5, OneSyncStep

LEMMA ArriveStep ==
    ASSUME Types, SyncInv, NEW s \in Syncs, Arrive(s)
    PROVE  SyncInv'
<1>1. UNCHANGED <<index, loaded, account, undercut>> /\ sync[s].pc = "sent"
  BY DEF Arrive, apiVars
<1>2. sync \in [Syncs -> Sync] /\ tip \in Blocks
  BY DEF Types, PhoneTypes, SystemTypes, Blocks
<1>3. OthersStay(s)
  BY <1>1, <1>2, ArriveFacts DEF OthersStay
<1>4. /\ sync'[s].pc = "arrived" /\ sync'[s].lastBlock = tip
      /\ sync'[s].fromScratch = sync[s].fromScratch
      /\ sync'[s].sinceBlockNum = sync[s].sinceBlockNum
  <2>1. sync'[s] = [sync[s] EXCEPT !.pc = "arrived", !.lastBlock = tip] /\ sync[s] \in Sync
    BY <1>2, ArriveFacts
  <2>2. sync'[s].pc = "arrived" /\ sync'[s].lastBlock = tip
    BY <2>1 DEF Sync
  <2>3. sync'[s].fromScratch = sync[s].fromScratch
    BY <2>1 DEF Sync
  <2>4. sync'[s].sinceBlockNum = sync[s].sinceBlockNum
    BY <2>1 DEF Sync
  <2> QED
    BY <2>2, <2>3, <2>4
<1>5. /\ sync[s].fromScratch => sync[s].sinceBlockNum = 0
      /\ ~undercut => sync[s].sinceBlockNum <= account.lastFinalizedBlock
  BY <1>1 DEF SyncInv, HeightsOrdered, StartsCovered
<1>6. sync'[s].lastBlock <= loaded /\ sync'[s].pc # "answered"
  BY <1>4, Heights
<1>7. /\ sync'[s].fromScratch => sync'[s].sinceBlockNum = 0
      /\ ~undercut => sync'[s].sinceBlockNum <= account.lastFinalizedBlock
  BY <1>4, <1>5
<1> QED
  BY <1>3, <1>6, <1>7, OneSyncStep

LEMMA AnswerStep ==
    ASSUME Types, SyncInv, NEW s \in Syncs, Answer(s)
    PROVE  SyncInv'
<1>1. UNCHANGED <<index, loaded, account, undercut>> /\ sync[s].pc = "arrived"
  BY DEF Answer, apiVars
<1>2. sync \in [Syncs -> Sync] /\ finCache \in Blocks /\ index \subseteq Entry
  BY DEF Types, PhoneTypes, SystemTypes, Blocks
<1>3. OthersStay(s)
  BY <1>1, <1>2, AnswerFacts DEF OthersStay
<1>4. /\ sync'[s].pc = "answered"
      /\ sync'[s].lastBlock = sync[s].lastBlock
      /\ sync'[s].fromScratch = sync[s].fromScratch
      /\ sync'[s].sinceBlockNum = sync[s].sinceBlockNum
      /\ sync'[s].lastFinalizedBlock = finCache
      /\ sync'[s].transferLogs = TransfersSince(sync[s].sinceBlockNum)
      /\ sync'[s].lastBalance = index
  <2> DEFINE r == [sync[s] EXCEPT
                     !.pc = "answered", !.lastFinalizedBlock = finCache,
                     !.transferLogs = TransfersSince(sync[s].sinceBlockNum),
                     !.lastBalance = index]
  <2>1. sync'[s] = r /\ sync[s] \in Sync
    BY <1>2, AnswerFacts
  <2>2. r.fromScratch = sync[s].fromScratch
    BY <2>1 DEF Sync
  <2>3. /\ r.pc = "answered" /\ r.lastBlock = sync[s].lastBlock
        /\ r.sinceBlockNum = sync[s].sinceBlockNum
        /\ r.lastFinalizedBlock = finCache
    BY <2>1 DEF Sync
  <2>4. /\ r.transferLogs = TransfersSince(sync[s].sinceBlockNum)
        /\ r.lastBalance = index
    BY <2>1 DEF Sync
  <2> HIDE DEF r
  <2> QED
    BY <2>1, <2>2, <2>3, <2>4
<1>5. /\ sync[s].fromScratch => sync[s].sinceBlockNum = 0
      /\ ~undercut => sync[s].sinceBlockNum <= account.lastFinalizedBlock
      /\ sync[s].lastBlock <= loaded
  BY <1>1 DEF SyncInv, HeightsOrdered, StartsCovered
<1>6. finCache <= sync[s].lastBlock
  BY Heights DEF Answer, FinalizedReached
<1>7. /\ sync'[s].fromScratch => sync'[s].sinceBlockNum = 0
      /\ ~undercut => sync'[s].sinceBlockNum <= account.lastFinalizedBlock
  BY <1>4, <1>5
<1>8. sync'[s].lastBlock <= loaded /\ sync'[s].lastFinalizedBlock <= sync'[s].lastBlock
  BY <1>4, <1>5, <1>6
<1>9. /\ sync'[s].lastBalance = index
      /\ sync'[s].transferLogs =
             {e \in sync'[s].lastBalance : e.block >= sync'[s].sinceBlockNum}
  BY <1>4 DEF TransfersSince
<1> QED
  BY <1>3, <1>7, <1>8, <1>9, OneSyncStep

\* The numbers and sets of an answer that is applied.
LEMMA ApplyHeights ==
    ASSUME Types, SyncInv, NEW s \in Syncs, ApplySync(s)
    PROVE  /\ sync[s].sinceBlockNum \in Nat /\ sync[s].lastBlock \in Nat
           /\ sync[s].lastFinalizedBlock \in Nat
           /\ account.lastFinalizedBlock \in Nat /\ account.lastBlock \in Nat
           /\ loaded \in Nat
           /\ sync[s].sinceBlockNum <= sync[s].lastBlock
           /\ sync[s].lastFinalizedBlock <= sync[s].lastBlock
           /\ sync[s].lastBlock <= loaded
           /\ account.lastFinalizedBlock <= account.lastBlock
           /\ \/ sync[s].fromScratch /\ sync[s].sinceBlockNum = 0
              \/ ~sync[s].fromScratch
                    /\ account.lastFinalizedBlock <= sync[s].lastFinalizedBlock
           /\ \A e \in index : e.block \in Nat
<1>1. /\ sync[s].pc = "answered" /\ ~Older(s)
      /\ sync[s].lastBlock >= sync[s].sinceBlockNum
  BY DEF ApplySync
<1>2. /\ sync[s].lastFinalizedBlock <= sync[s].lastBlock
      /\ sync[s].lastBlock <= loaded
      /\ account.lastFinalizedBlock <= account.lastBlock
      /\ sync[s].fromScratch => sync[s].sinceBlockNum = 0
  BY <1>1 DEF SyncInv, HeightsOrdered
<1>3. ~sync[s].fromScratch
          => ~(sync[s].lastFinalizedBlock < account.lastFinalizedBlock)
  BY <1>1 DEF Older
<1>4. /\ sync[s].sinceBlockNum \in Nat /\ sync[s].lastBlock \in Nat
      /\ sync[s].lastFinalizedBlock \in Nat
      /\ account.lastFinalizedBlock \in Nat /\ account.lastBlock \in Nat /\ loaded \in Nat
      /\ \A e \in index : e.block \in Nat
  BY Heights
<1>5. sync[s].fromScratch \/ account.lastFinalizedBlock <= sync[s].lastFinalizedBlock
  BY <1>3, <1>4
<1>6. \/ sync[s].fromScratch /\ sync[s].sinceBlockNum = 0
      \/ ~sync[s].fromScratch
            /\ account.lastFinalizedBlock <= sync[s].lastFinalizedBlock
  BY <1>2, <1>5, Zenon
<1> QED
  BY <1>1, <1>2, <1>4, <1>6

LEMMA AnswerParts ==
    ASSUME SyncInv, NEW s \in Syncs, ApplySync(s)
    PROVE  /\ sync[s].lastBalance \subseteq index
           /\ \A e \in index : e.block <= sync[s].lastBlock => e \in sync[s].lastBalance
           /\ sync[s].transferLogs =
                  {e \in sync[s].lastBalance : e.block >= sync[s].sinceBlockNum}
           /\ account.transfers \subseteq index
           /\ account.finalized \subseteq account.transfers
           /\ \A e \in account.finalized : e.block <= account.lastFinalizedBlock
BY DEF SyncInv, AnswersComplete, HistoryFromIndex, ApplySync

\* What is kept and what is fetched add up to the balance.
LEMMA MergedIsBalance ==
    ASSUME Types, SyncInv, NEW s \in Syncs, ApplySync(s), ~undercut
    PROVE  Merged(s) = sync[s].lastBalance
<1>1. sync[s].sinceBlockNum <= account.lastFinalizedBlock
  BY DEF SyncInv, StartsCovered, ApplySync
<1>2. \A e \in index : e.block <= account.lastBlock => e \in account.transfers
  BY DEF SyncInv, MissesNothingIndexed
<1>3. ASSUME NEW e \in Merged(s) PROVE e \in sync[s].lastBalance
  BY <1>3, ApplyHeights, AnswerParts DEF Merged, Kept
<1>4. ASSUME NEW e \in sync[s].lastBalance PROVE e \in Merged(s)
  <2>1. CASE e.block >= sync[s].sinceBlockNum
    BY <2>1, AnswerParts DEF Merged
  <2>2. CASE ~(e.block >= sync[s].sinceBlockNum)
    <3>1. e \in index /\ e.block \in Nat
      BY AnswerParts, ApplyHeights
    <3>2. e.block < sync[s].sinceBlockNum /\ e.block <= account.lastBlock
      BY <1>1, <2>2, <3>1, ApplyHeights
    <3> QED
      BY <1>2, <3>1, <3>2 DEF Merged, Kept
  <2> QED
    BY <2>1, <2>2
<1> QED
  BY <1>3, <1>4

LEMMA ApplyStep ==
    ASSUME Types, SyncInv, NEW s \in Syncs, ApplySync(s)
    PROVE  SyncInv'
<1>1. index' = index /\ loaded' = loaded
  BY DEF ApplySync, apiVars
<1>2. /\ sync'[s] = Idle
      /\ \A q \in Syncs \ {s} : sync'[q] = sync[q]
  BY EndedFacts DEF Ended, ApplySync, Types, PhoneTypes
<1>3. /\ account'.lastBlock = sync[s].lastBlock
      /\ account'.lastFinalizedBlock = sync[s].lastFinalizedBlock
      /\ account'.transfers = Merged(s)
      /\ account'.finalized = Marked(s)
      /\ account'.balance = sync[s].lastBalance
  BY ApplyFacts DEF Types, PhoneTypes
<1>4. Idle.pc = "idle" /\ Idle.lastBlock = 0 /\ ~Idle.fromScratch
  BY DEF Idle
<1>5. undercut' = (undercut \/ Undercuts(s))
  BY DEF ApplySync
<1>6. HeightsOrdered'
  <2>1. /\ \A e \in index' : e.block <= loaded'
        /\ account'.lastFinalizedBlock <= account'.lastBlock
        /\ account'.lastBlock <= loaded'
    BY <1>1, <1>3, ApplyHeights DEF SyncInv, HeightsOrdered
  <2>2. ASSUME NEW q \in Syncs
        PROVE  /\ sync'[q].lastBlock <= loaded'
               /\ sync'[q].pc = "answered"
                     => sync'[q].lastFinalizedBlock <= sync'[q].lastBlock
               /\ sync'[q].fromScratch => sync'[q].sinceBlockNum = 0
    <3>1. CASE q = s
      BY <1>1, <1>2, <1>4, <3>1, ApplyHeights
    <3>2. CASE q # s
      BY <1>1, <1>2, <3>2 DEF SyncInv, HeightsOrdered
    <3> QED
      BY <3>1, <3>2
  <2> QED
    BY <2>1, <2>2 DEF HeightsOrdered
<1>7. AnswersComplete'
  BY <1>1, <1>2, <1>4 DEF SyncInv, AnswersComplete
<1>8. StartsCovered'
  <2> SUFFICES ASSUME ~undercut', NEW q \in Syncs, sync'[q].pc # "idle"
               PROVE  sync'[q].sinceBlockNum <= account'.lastFinalizedBlock
    BY DEF StartsCovered
  <2>1. ~undercut /\ ~Undercuts(s)
    BY <1>5
  <2>2. q # s /\ sync'[q] = sync[q]
    BY <1>2, <1>4
  <2>3. sync[q].sinceBlockNum <= account.lastFinalizedBlock
    BY <2>1, <2>2 DEF SyncInv, StartsCovered
  <2>4. sync[q].sinceBlockNum \in Nat
    BY Heights
  <2>5. CASE sync[s].fromScratch
    <3>1. ~(sync[q].sinceBlockNum > sync[s].lastFinalizedBlock)
      BY <2>1, <2>2, <2>5 DEF Undercuts
    <3> QED
      BY <1>3, <2>2, <2>4, <3>1, ApplyHeights
  <2>6. CASE ~sync[s].fromScratch
    <3>1. account.lastFinalizedBlock <= sync[s].lastFinalizedBlock
      BY <2>6, ApplyHeights
    <3> QED
      BY <1>3, <2>2, <2>3, <2>4, <3>1, ApplyHeights
  <2> QED
    BY <2>5, <2>6
<1>9. HistoryFromIndex'
  <2>1. Merged(s) \subseteq index
    BY AnswerParts DEF Merged, Kept
  <2>2. Marked(s) \subseteq Merged(s)
    BY DEF Marked, Merged
  <2>3. ASSUME NEW e \in Marked(s) PROVE e.block <= sync[s].lastFinalizedBlock
    <3>1. CASE e \in account.finalized \cap Kept(s)
      <4>1. /\ e.block \in Nat /\ e.block <= account.lastFinalizedBlock
            /\ e.block < sync[s].sinceBlockNum
        BY <3>1, AnswerParts, ApplyHeights DEF Kept
      <4> QED
        BY <4>1, ApplyHeights
    <3> QED
      BY <3>1 DEF Marked
  <2> QED
    BY <1>1, <1>3, <2>1, <2>2, <2>3 DEF HistoryFromIndex
<1>10. MissesNothingIndexed' /\ BalanceIsOfHistory'
  <2> SUFFICES ASSUME ~undercut'
               PROVE  /\ \A e \in index' : e.block <= account'.lastBlock
                                             => e \in account'.transfers
                      /\ account'.balance = account'.transfers
    BY DEF MissesNothingIndexed, BalanceIsOfHistory
  <2>1. Merged(s) = sync[s].lastBalance
    BY <1>5, MergedIsBalance
  <2> QED
    BY <1>1, <1>3, <2>1, AnswerParts
<1> QED
  BY <1>6, <1>7, <1>8, <1>9, <1>10 DEF SyncInv

LEMMA SyncInvStep == TypeOK /\ SyncInv /\ [Next]_vars => SyncInv'
<1> SUFFICES ASSUME TypeOK, SyncInv, [Next]_vars PROVE SyncInv'
  OBVIOUS
<1>1. Types
  BY TypeParts, Zenon DEF Types
<1>2. CASE UNCHANGED <<index, loaded, sync, undercut, account>>
  <2>1. Facts(account') = Facts(account)
    BY <1>2
  <2> QED
    BY <1>1, <1>2, <2>1, QuietStep
<1>3. ASSUME NEW o \in Ops, ShowPending(o) PROVE SyncInv'
  <2>1. UNCHANGED <<index, loaded, sync, undercut>>
    BY <1>3 DEF ShowPending, apiVars
  <2>2. Facts(account') = Facts(account)
    BY <1>1, <1>3 DEF ShowPending, Facts, Types, PhoneTypes, Account
  <2> QED
    BY <1>1, <2>1, <2>2, QuietStep
<1>4. CASE LoadTransfers
  BY <1>1, <1>4, LoadStep
<1>5. ASSUME NEW s \in Syncs,
             \/ Arrive(s) \/ Answer(s) \/ Refuse(s) \/ StartSync(s) \/ AppLoad(s)
             \/ SyncFails(s) \/ SkipSync(s) \/ ApplySync(s)
      PROVE  SyncInv'
  BY <1>1, <1>5, EndStep, StartStep, ArriveStep, AnswerStep, ApplyStep
<1> QED
  BY <1>2, <1>3, <1>4, <1>5
  DEF Next, vars, apiVars, phoneVars, NewBlock, Finalize, Reorg, PublishTip,
      RefreshFinalized, Send

LEMMA SyncInvariant == Spec => [](TypeOK /\ SyncInv)
<1>1. Init => TypeOK /\ SyncInv
  BY TypeInit, SyncInvInit
<1>2. TypeOK /\ SyncInv /\ [Next]_vars => (TypeOK /\ SyncInv)'
  BY TypeStep, SyncInvStep
<1> QED
  BY <1>1, <1>2, PTL DEF Spec

\* The history has every transfer of the API's index up to the account's last block: what a
\* sync does not fetch again lies before a finalized block the account had when it started.
THEOREM HistoryMissesNothing == Spec => []MissesNothingIndexed
<1>1. SyncInv => MissesNothingIndexed
  BY DEF SyncInv
<1> QED
  BY <1>1, SyncInvariant, PTL

\* lastBalance, replaced by every answer, is the sum of the history, merged from many.
THEOREM BalanceAgreesWithHistory == Spec => []BalanceIsOfHistory
<1>1. SyncInv => BalanceIsOfHistory
  BY DEF SyncInv
<1> QED
  BY <1>1, SyncInvariant, PTL

LEMMA FinalStep ==
    ASSUME TypeOK, SyncInv, [Next]_vars,
           account'.lastFinalizedBlock >= account.lastFinalizedBlock
    PROVE  account.finalized \subseteq account'.finalized
<1>1. Types
  BY TypeParts, Zenon DEF Types
<1>2. ASSUME NEW s \in Syncs, ApplySync(s) PROVE account.finalized \subseteq account'.finalized
  <2>1. /\ account'.lastFinalizedBlock = sync[s].lastFinalizedBlock
        /\ account'.finalized = Marked(s)
    BY <1>1, <1>2, ApplyFacts DEF Types, PhoneTypes
  <2> SUFFICES ASSUME NEW e \in account.finalized PROVE e \in Marked(s)
    BY <2>1
  <2>2. /\ e \in account.transfers /\ e \in index /\ e.block \in Nat
        /\ e.block <= account.lastFinalizedBlock
    BY <1>1, <1>2, AnswerParts, ApplyHeights
  <2>3. CASE e.block < sync[s].sinceBlockNum
    BY <2>2, <2>3 DEF Marked, Kept
  <2>4. CASE ~(e.block < sync[s].sinceBlockNum)
    <3>1. /\ e.block >= sync[s].sinceBlockNum
          /\ e.block <= sync[s].lastFinalizedBlock /\ e.block <= sync[s].lastBlock
      BY <1>1, <1>2, <2>1, <2>2, <2>4, ApplyHeights
    <3>2. e \in sync[s].transferLogs
      BY <1>2, <2>2, <3>1, AnswerParts
    <3> QED
      BY <3>1, <3>2 DEF Marked, Merged
  <2> QED
    BY <2>3, <2>4
<1>3. ASSUME NEW o \in Ops, ShowPending(o)
      PROVE  account.finalized \subseteq account'.finalized
  BY <1>1, <1>3 DEF ShowPending, Types, PhoneTypes, Account
<1>4. CASE UNCHANGED account
  BY <1>4
<1> QED
  BY <1>2, <1>3, <1>4
  DEF Next, vars, phoneVars, NewBlock, Finalize, Reorg, LoadTransfers, PublishTip,
      RefreshFinalized, Arrive, Answer, Refuse, StartSync, AppLoad, SyncFails, SkipSync, Send

\* A transfer the phone has shown as final never disappears or loses its mark, whatever
\* answers overtake each other.
THEOREM FinalTransfersStay == Spec => FinalStaysFinal
<1>1. TypeOK /\ SyncInv /\ [Next]_vars
          => [account'.lastFinalizedBlock >= account.lastFinalizedBlock =>
                 account.finalized \subseteq account'.finalized]_vars
  BY FinalStep
<1> QED
  BY <1>1, SyncInvariant, PTL DEF Spec, FinalStaysFinal

-----------------------------------------------------------------------------
(* Pending ops and their deadlines *)

\* While there is no reorg the index is what the chain holds up to the loaded block, no op
\* is on the chain after its deadline, and the phone's idea of that deadline, the height at
\* which it showed the op and SEND_DEADLINE_SECS, is not before the signed one.
InTime ==
    reorgs = 0 =>
        /\ loaded <= Len(chain)
        /\ \A b \in 1..Len(chain) : \A x \in chain[b] : MayInclude(x, b)
        /\ \A b \in 1..loaded : EntriesOf(b) \subseteq index
        /\ \A o \in sending : 0 < until[o] /\ until[o] <= Len(chain) + Deadline
        /\ \A o \in account.pending :
              0 < until[o] /\ until[o] <= account.timestamp[o] + Deadline

\* What the deadlines are made of.
LEMMA DeadlineTypes ==
    ASSUME Types
    PROVE  /\ Len(chain) \in Nat /\ loaded \in Nat /\ reorgs \in Nat
           /\ \A o \in Ops : until[o] \in Nat
           /\ sending \subseteq Ops
           /\ account.pending \subseteq Ops
           /\ \A o \in Ops : account.timestamp[o] \in Nat
BY DEF Types, SystemTypes, PhoneTypes, Account, Blocks

\* Steps that leave the chain, the index and the ops alone and show no further op pending.
LEMMA InTimeKept ==
    ASSUME InTime,
           UNCHANGED <<chain, reorgs, loaded, index, until>>,
           sending' \subseteq sending,
           account'.pending \subseteq account.pending,
           account'.timestamp = account.timestamp
    PROVE  InTime'
BY DEF InTime, MayInclude, EntriesOf

\* A block includes no op after its deadline, and gives the ops under way no more time.
LEMMA InTimeBlock ==
    ASSUME Types, InTime, NewBlock
    PROVE  InTime'
<1> SUFFICES ASSUME reorgs = 0 PROVE InTime'
  BY DEF InTime, NewBlock
<1>1. PICK S \in SUBSET Transfers :
          /\ \A t \in S : MayInclude(t, Len(chain) + 1)
          /\ chain' = Append(chain, S)
  BY DEF NewBlock
<1>2. UNCHANGED <<reorgs, loaded, index, until, sending, account>>
  BY DEF NewBlock, apiVars, phoneVars
<1>3. /\ Len(chain') = Len(chain) + 1 /\ Len(chain) \in Nat /\ loaded \in Nat
      /\ \A b \in 1..Len(chain) : chain'[b] = chain[b]
      /\ chain'[Len(chain) + 1] = S
  BY <1>1, DeadlineTypes DEF Types, SystemTypes
<1>4. /\ loaded <= Len(chain)
      /\ \A b \in 1..Len(chain) : \A x \in chain[b] : MayInclude(x, b)
      /\ \A b \in 1..loaded : EntriesOf(b) \subseteq index
  BY DEF InTime
<1>5. \A x, b : MayInclude(x, b)' <=> MayInclude(x, b)
  BY <1>2 DEF MayInclude
<1>6. \A b \in 1..Len(chain') : \A x \in chain'[b] : MayInclude(x, b)'
  <2> SUFFICES ASSUME NEW b \in 1..Len(chain'), NEW x \in chain'[b] PROVE MayInclude(x, b)
    BY <1>5
  <2>1. CASE b = Len(chain) + 1
    BY <1>1, <1>3, <2>1
  <2>2. CASE b # Len(chain) + 1
    BY <1>3, <1>4, <2>2
  <2> QED
    BY <2>1, <2>2
<1>7. \A b \in 1..loaded : EntriesOf(b)' = EntriesOf(b)
  BY <1>3, <1>4 DEF EntriesOf
<1>8. \A o \in sending : 0 < until[o] /\ until[o] <= Len(chain') + Deadline
  BY <1>3, DeadlineTypes DEF InTime
<1> QED
  BY <1>2, <1>3, <1>4, <1>6, <1>7, <1>8 DEF InTime

\* The indexer loads everything that is on the chain.
LEMMA InTimeLoad ==
    ASSUME Types, InTime, LoadTransfers
    PROVE  InTime'
<1> SUFFICES ASSUME reorgs = 0 PROVE InTime'
  BY DEF InTime, LoadTransfers, chainVars
<1>1. UNCHANGED <<chain, reorgs, until, sending, account>>
  BY DEF LoadTransfers, chainVars, phoneVars
<1>2. /\ index' = index \cup UNION {EntriesOf(b) : b \in loaded + 1..Len(chain)}
      /\ loaded' = Len(chain)
  BY DEF LoadTransfers
<1>3. \A b \in 1..loaded' : EntriesOf(b)' \subseteq index'
  <2> SUFFICES ASSUME NEW b \in 1..Len(chain) PROVE EntriesOf(b) \subseteq index'
    BY <1>1, <1>2 DEF EntriesOf
  <2>1. b \in 1..loaded \/ b \in loaded + 1..Len(chain)
    BY DeadlineTypes
  <2> QED
    BY <1>2, <2>1 DEF InTime
<1> QED
  BY <1>1, <1>2, <1>3, DeadlineTypes DEF InTime, MayInclude

\* A signed op may be included for SEND_DEADLINE_SECS from now on, and was not before.
LEMMA InTimeSend ==
    ASSUME Types, InTime, NEW o \in Ops, Send(o)
    PROVE  InTime'
<1> SUFFICES ASSUME reorgs = 0 PROVE InTime'
  BY DEF InTime, Send, chainVars
<1>1. /\ UNCHANGED <<chain, reorgs, loaded, index, account>>
      /\ until[o] = 0 /\ sending' = sending \cup {o}
  BY DEF Send, chainVars, apiVars
<1>2. /\ until'[o] = Len(chain) + Deadline
      /\ \A p \in Ops : p # o => until'[p] = until[p]
  BY DEF Send, Types, SystemTypes
<1>3. Len(chain) \in Nat /\ Len(chain) > 0
  <2>1. chain \in Seq(SUBSET Transfers) /\ chain # <<>>
    BY DEF Send, Types, SystemTypes
  <2>2. Len(chain) # 0
    BY <2>1, EmptySeq
  <2> QED
    BY <2>2, DeadlineTypes
<1>4. o \notin sending /\ o \notin account.pending
  BY <1>1 DEF InTime
<1>5. \A b \in 1..Len(chain) : \A x \in chain[b] : MayInclude(x, b)'
  <2> SUFFICES ASSUME NEW b \in 1..Len(chain), NEW x \in chain[b], x \in Ops
               PROVE  b <= until'[x]
    BY DEF MayInclude
  <2>1. b <= until[x]
    BY DEF InTime, MayInclude
  <2>2. x # o
    BY <1>1, <2>1
  <2> QED
    BY <1>2, <2>1, <2>2
<1>6. \A p \in sending' : 0 < until'[p] /\ until'[p] <= Len(chain) + Deadline
  <2> SUFFICES ASSUME NEW p \in sending \cup {o}
               PROVE  0 < until'[p] /\ until'[p] <= Len(chain) + Deadline
    BY <1>1
  <2>1. CASE p = o
    BY <1>2, <1>3, <2>1
  <2>2. CASE p # o
    BY <1>2, <2>2, DeadlineTypes DEF InTime
  <2> QED
    BY <2>1, <2>2
<1>7. \A p \in account.pending :
          0 < until'[p] /\ until'[p] <= account.timestamp[p] + Deadline
  BY <1>2, <1>4, DeadlineTypes DEF InTime
<1> QED
  BY <1>1, <1>5, <1>6, <1>7 DEF InTime, EntriesOf

\* The op is shown pending with the height of now, at which its deadline had been signed
\* or had been less.
LEMMA InTimeShow ==
    ASSUME Types, InTime, NEW o \in Ops, ShowPending(o)
    PROVE  InTime'
<1> SUFFICES ASSUME reorgs = 0 PROVE InTime'
  BY DEF InTime, ShowPending, chainVars
<1>1. /\ UNCHANGED <<chain, reorgs, loaded, index, until>>
      /\ o \in sending /\ sending' = sending \ {o}
  BY DEF ShowPending, chainVars, apiVars
<1>2. /\ account'.pending = account.pending \cup {o}
      /\ account'.timestamp[o] = Len(chain)
      /\ \A p \in Ops : p # o => account'.timestamp[p] = account.timestamp[p]
  BY DEF ShowPending, Types, PhoneTypes, Account
<1>3. \A p \in account'.pending :
          0 < until[p] /\ until[p] <= account'.timestamp[p] + Deadline
  <2> SUFFICES ASSUME NEW p \in account.pending \cup {o}
               PROVE  0 < until[p] /\ until[p] <= account'.timestamp[p] + Deadline
    BY <1>2
  <2>1. CASE p = o
    BY <1>1, <1>2, <2>1 DEF InTime
  <2>2. CASE p # o
    BY <1>2, <2>2, DeadlineTypes DEF InTime
  <2> QED
    BY <2>1, <2>2
<1> QED
  BY <1>1, <1>3 DEF InTime, MayInclude, EntriesOf

LEMMA InTimeStep == TypeOK /\ InTime /\ [Next]_vars => InTime'
<1> SUFFICES ASSUME TypeOK, InTime, [Next]_vars PROVE InTime'
  OBVIOUS
<1>1. Types
  BY TypeParts, Zenon DEF Types
<1>2. CASE Reorg
  BY <1>1, <1>2, DeadlineTypes DEF Reorg, InTime
<1>3. ASSUME NEW s \in Syncs, ApplySync(s) PROVE InTime'
  <2>1. UNCHANGED <<chain, reorgs, loaded, index, until, sending>>
    BY <1>3 DEF ApplySync, chainVars, apiVars
  <2>2. account'.pending = StillPending(s) /\ account'.timestamp = account.timestamp
    BY <1>1, <1>3 DEF ApplySync, Types, PhoneTypes, Account
  <2>3. account'.pending \subseteq account.pending
    BY <2>2 DEF StillPending
  <2> QED
    BY <2>1, <2>2, <2>3, InTimeKept
<1>4. ASSUME NEW s \in Syncs,
             \/ Arrive(s) \/ Answer(s) \/ Refuse(s) \/ StartSync(s) \/ AppLoad(s)
             \/ SyncFails(s) \/ SkipSync(s)
      PROVE  InTime'
  <2>1. UNCHANGED <<chain, reorgs, loaded, index, until, account>> /\ sending' \subseteq sending
    BY <1>4
    DEF Arrive, Answer, Refuse, StartSync, AppLoad, SyncFails, SkipSync, chainVars, apiVars
  <2> QED
    BY <2>1, InTimeKept
<1>5. CASE UNCHANGED <<chain, reorgs, loaded, index, until, sending, account>>
  BY <1>5, InTimeKept
<1> QED
  BY <1>1, <1>2, <1>3, <1>4, <1>5, InTimeBlock, InTimeLoad, InTimeSend, InTimeShow
  DEF Next, vars, chainVars, apiVars, phoneVars, Finalize, PublishTip, RefreshFinalized

LEMMA InTimeInit == Init => InTime
<1> SUFFICES ASSUME Init PROVE InTime
  OBVIOUS
<1>1. loaded = 0 /\ Len(chain) = 0 /\ sending = {} /\ account.pending = {}
  BY DEF Init
<1> QED
  BY <1>1 DEF InTime

\* An answer that drops a pending op without showing it on the chain has seen the whole
\* time in which the op could have been executed.
LEMMA DroppedStep ==
    ASSUME TypeOK, SyncInv, InTime, [Next]_vars, NEW o \in account.pending,
           reorgs = 0, ~undercut, o \notin account'.pending,
           \A e \in account'.transfers : e.t # o
    PROVE  o \notin Mined /\ until[o] <= Len(chain)
<1>1. Types
  BY TypeParts, Zenon DEF Types
<1>2. ASSUME NEW s \in Syncs, ApplySync(s)
      PROVE  o \notin Mined /\ until[o] <= Len(chain)
  <2>1. account'.transfers = Merged(s) /\ account'.pending = StillPending(s)
    BY <1>1, <1>2, ApplyFacts DEF ApplySync, Types, PhoneTypes, Account
  <2>2. account.timestamp[o] + Deadline <= sync[s].lastBlock
    BY <2>1 DEF StillPending, Expired
  <2>3. /\ until[o] <= account.timestamp[o] + Deadline /\ until[o] \in Nat
        /\ account.timestamp[o] \in Nat /\ o \in Ops
        /\ loaded <= Len(chain) /\ loaded \in Nat /\ Len(chain) \in Nat
    BY <1>1, DeadlineTypes DEF InTime
  <2>4. sync[s].lastBlock <= loaded /\ sync[s].lastBlock \in Nat
    BY <1>1, <1>2, ApplyHeights
  <2>5. until[o] <= sync[s].lastBlock /\ until[o] <= loaded /\ until[o] <= Len(chain)
    BY <2>2, <2>3, <2>4
  <2>6. ASSUME NEW b \in 1..Len(chain), o \in chain[b] PROVE FALSE
    <3>1. b <= until[o]
      BY <2>3, <2>6 DEF InTime, MayInclude
    <3>2. b \in 1..loaded /\ b <= sync[s].lastBlock
      BY <2>3, <2>4, <2>5, <3>1
    <3>3. [t |-> o, block |-> b] \in index
      BY <2>6, <3>2 DEF InTime, EntriesOf
    <3>4. [t |-> o, block |-> b] \in Merged(s)
      BY <1>1, <1>2, <3>2, <3>3, MergedIsBalance, AnswerParts
    <3> QED
      BY <2>1, <3>4
  <2> QED
    BY <2>5, <2>6 DEF Mined
<1>3. ASSUME NEW p \in Ops, ShowPending(p) PROVE FALSE
  BY <1>1, <1>3 DEF ShowPending, Types, PhoneTypes, Account
<1>4. ~UNCHANGED account
  OBVIOUS
<1> QED
  BY <1>2, <1>3, <1>4
  DEF Next, vars, phoneVars, NewBlock, Finalize, Reorg, LoadTransfers, PublishTip,
      RefreshFinalized, Arrive, Answer, Refuse, StartSync, AppLoad, SyncFails, SkipSync, Send

\* A pending op that disappears without having been seen on the chain is not on it and can
\* never be: its deadline has passed on the chain as well as on the phone.
THEOREM DroppedOpsAreDead == Spec => DroppedIsDead
<1>1. TypeOK /\ SyncInv /\ InTime /\ [Next]_vars
          => [\A o \in account.pending :
                 reorgs = 0 /\ ~undercut /\ o \notin account'.pending
                     /\ (\A e \in account'.transfers : e.t # o)
                 => o \notin Mined /\ until[o] <= Len(chain)]_vars
  BY DroppedStep
<1> QED
  BY <1>1, SyncInvariant, InTimeInit, InTimeStep, PTL DEF Spec, DroppedIsDead

=============================================================================
