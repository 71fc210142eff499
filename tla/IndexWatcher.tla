---------------------------- MODULE IndexWatcher ----------------------------
(***************************************************************************)
(* packages/daimo-api: the IndexWatcher loads new blocks of the index      *)
(* database into in-memory indexers.  A tick (fired by a database          *)
(* notification and by a one-second timer) is an async function; ticks     *)
(* interleave at every await.  A load is one Indexer.load call: its query  *)
(* is in flight from the start of its layer until it is applied or fails.  *)
(* When one load of a layer fails, Promise.all rejects at once and the     *)
(* other loads of that layer go on with nobody waiting for them.           *)
(*                                                                         *)
(* A definition introduced as a slip is not part of the specification: it  *)
(* is a wrong form of the definition after it, kept to show which property *)
(* notices.                                                                *)
(***************************************************************************)
EXTENDS Integers, FiniteSets

CONSTANTS
    Indexers,       \* the indexers
    Layers,         \* Layers[n]: the indexers loaded concurrently in layer n
    NumLayers,
    CheckLate,      \* indexers that return on an empty result before the stale check
    Unchecked,      \* indexers without a stale check (RequestIndexer)
    Rows,           \* Rows[i]: the blocks that hold rows for indexer i
    MaxBlock,       \* bound: last block the database ever holds
    BatchSize,      \* IndexWatcher.batchSize
    Ticks,          \* tick invocations that can be alive at once
    Boot,           \* the caller of init(), before the server starts watching
    Nobody,         \* owner of a load whose Promise.all has already rejected
    MaxFailures,    \* bound: failed queries
    MaxRestarts     \* bound: restarts of the API process

ASSUME ConstantsAssumption ==
    /\ MaxBlock \in Nat
    /\ BatchSize \in Nat \ {0}
    /\ NumLayers \in Nat \ {0}
    /\ Layers \in [1..NumLayers -> SUBSET Indexers]
    /\ Rows \in [Indexers -> SUBSET (1..MaxBlock)]
    /\ CheckLate \subseteq Indexers
    /\ Unchecked \subseteq Indexers
    /\ Boot \notin Ticks
    /\ Nobody \notin Ticks \cup {Boot}
    /\ MaxFailures \in Nat
    /\ MaxRestarts \in Nat

\* Every indexer is added to the watcher once (server.ts:114-118).
ASSUME LayeringAssumption ==
    /\ \A i \in Indexers : \E n \in 1..NumLayers : i \in Layers[n]
    /\ \A m, n \in 1..NumLayers : Layers[m] \cap Layers[n] # {} => m = n

VARIABLES
    dbTip,          \* index.daimo_index.latest_block_num, in Postgres
    phase,          \* "boot": init() runs; "watch": ticks run
    latest,         \* IndexWatcher.latest; block 0 stands for the code's start block
    isIndexing,
    runs,           \* runs[t]: where the invocation t of tick (or init) stands
    loads,          \* Indexer.load calls in flight
    lastProcessed,  \* Indexer.lastProcessedBlock
    applied,        \* applied[i][b]: how often i applied the rows of block b
    failures,       \* failed queries so far
    restarts,       \* restarts so far
    disturbed       \* history: since the last restart ticks overlapped or a load failed

vars == <<dbTip, phase, latest, isIndexing, runs, loads, lastProcessed, applied,
          failures, restarts, disturbed>>

Blocks == 1..MaxBlock
Callers == Ticks \cup {Boot}
Checked == Indexers \ Unchecked

IdleRun == [pc |-> "idle", tip |-> 0, from |-> 0, to |-> 0, layer |-> 0]
Runs == [pc : {"idle", "asking", "asked", "loading"},
         tip : 0..MaxBlock, from : 0..MaxBlock, to : 0..MaxBlock, layer : 0..NumLayers]
Load == [ind : Indexers, from : 0..MaxBlock, to : 0..MaxBlock, owner : Callers \cup {Nobody}]

Busy(t) == runs[t].pc # "idle"
OwnLoads(t) == {l \in loads : l.owner = t}

DataOK ==
    /\ dbTip \in 0..MaxBlock
    /\ phase \in {"boot", "watch"}
    /\ latest \in 0..MaxBlock
    /\ runs \in [Callers -> Runs]
    /\ loads \in SUBSET Load
    /\ lastProcessed \in [Indexers -> 0..MaxBlock]
    /\ applied \in [Indexers -> [Blocks -> Nat]]
    /\ failures \in 0..MaxFailures
    /\ restarts \in 0..MaxRestarts

FlagsOK == isIndexing \in BOOLEAN /\ disturbed \in BOOLEAN

TypeOK == DataOK /\ FlagsOK

\* The state of a process that has just started.
FreshIndex == [i \in Indexers |-> [b \in Blocks |-> 0]]

Init ==
    /\ dbTip \in 0..MaxBlock
    /\ phase = "boot"
    /\ latest = 0
    /\ isIndexing = FALSE
    /\ runs = [t \in Callers |-> IdleRun]
    /\ loads = {}
    /\ lastProcessed = [i \in Indexers |-> 0]
    /\ applied = FreshIndex
    /\ failures = 0
    /\ restarts = 0
    /\ disturbed = FALSE

-----------------------------------------------------------------------------
\* The indexing service (shovel, outside this process) commits a block.
NewBlock ==
    /\ dbTip < MaxBlock
    /\ dbTip' = dbTip + 1
    /\ UNCHANGED <<phase, latest, isIndexing, runs, loads, lastProcessed, applied,
                   failures, restarts, disturbed>>

\* The loads index() starts for one layer of a batch.
LayerLoads(t, layer, from, to) ==
    {[ind |-> i, from |-> from, to |-> to, owner |-> t] : i \in Layers[layer]}

\* Slip: the batch ends one block after the block asked for.
BatchEndOffByOne(start, stop) == stop + 1

\* index(start, stop, n): the last block of the batch.
BatchEnd(start, stop) ==
    IF stop - start >= BatchSize THEN start + BatchSize - 1 ELSE stop

\* index() begins on behalf of t: first layer of the batch after latest.
BeginIndex(t, stop) ==
    LET from == latest + 1
        to == BatchEnd(from, stop)
    IN  /\ runs' = [runs EXCEPT ![t] = [pc |-> "loading", tip |-> stop,
                                        from |-> from, to |-> to, layer |-> 1]]
        /\ loads' = loads \cup LayerLoads(t, 1, from, to)

-----------------------------------------------------------------------------
\* init(): getIndexLatest, then catchUpTo.
BootRead ==
    /\ phase = "boot"
    /\ runs[Boot].pc = "idle"
    /\ runs' = [runs EXCEPT ![Boot] = [IdleRun EXCEPT !.pc = "asked", !.tip = dbTip]]
    /\ UNCHANGED <<dbTip, phase, latest, isIndexing, loads, lastProcessed, applied,
                   failures, restarts, disturbed>>

\* One iteration of catchUpTo's loop.
CatchUp ==
    /\ runs[Boot].pc = "asked"
    /\ latest < runs[Boot].tip
    /\ BeginIndex(Boot, runs[Boot].tip)
    /\ UNCHANGED <<dbTip, phase, latest, isIndexing, lastProcessed, applied,
                   failures, restarts, disturbed>>

\* catchUpTo returns; watch() installs the notification handler and the timer.
Watch ==
    /\ runs[Boot].pc = "asked"
    /\ latest >= runs[Boot].tip
    /\ phase' = "watch"
    /\ runs' = [runs EXCEPT ![Boot] = IdleRun]
    /\ UNCHANGED <<dbTip, latest, isIndexing, loads, lastProcessed, applied,
                   failures, restarts, disturbed>>

-----------------------------------------------------------------------------
\* A tick that finds isIndexing set returns, but its finally block clears the flag.
TickSkip(t) ==
    /\ phase = "watch"
    /\ ~Busy(t)
    /\ isIndexing
    /\ isIndexing' = FALSE
    /\ UNCHANGED <<dbTip, phase, latest, runs, loads, lastProcessed, applied,
                   failures, restarts, disturbed>>

\* A tick passes the check and sends its two queries.
TickStart(t) ==
    /\ phase = "watch"
    /\ ~Busy(t)
    /\ ~isIndexing
    /\ isIndexing' = TRUE
    /\ runs' = [runs EXCEPT ![t] = [IdleRun EXCEPT !.pc = "asking"]]
    /\ disturbed' = (disturbed \/ \E u \in Ticks : Busy(u))
    /\ UNCHANGED <<dbTip, phase, latest, loads, lastProcessed, applied,
                   failures, restarts>>

\* The database answers getIndexLatest.
TickAnswered(t) ==
    /\ runs[t].pc = "asking"
    /\ runs' = [runs EXCEPT ![t].pc = "asked", ![t].tip = dbTip]
    /\ UNCHANGED <<dbTip, phase, latest, isIndexing, loads, lastProcessed, applied,
                   failures, restarts, disturbed>>

\* Both answers are in and there is nothing new.
TickNothingNew(t) ==
    /\ runs[t].pc = "asked"
    /\ runs[t].tip <= latest
    /\ isIndexing' = FALSE
    /\ runs' = [runs EXCEPT ![t] = IdleRun]
    /\ UNCHANGED <<dbTip, phase, latest, loads, lastProcessed, applied,
                   failures, restarts, disturbed>>

\* Both answers are in: the tick indexes the blocks after latest.
TickIndex(t) ==
    /\ runs[t].pc = "asked"
    /\ runs[t].tip > latest
    /\ BeginIndex(t, runs[t].tip)
    /\ UNCHANGED <<dbTip, phase, latest, isIndexing, lastProcessed, applied,
                   failures, restarts, disturbed>>

\* Slip: the flag is not released when the tick's own queries fail.
TickQueryFailsKeepsFlag(t) ==
    /\ runs[t].pc \in {"asking", "asked"}
    /\ failures < MaxFailures
    /\ failures' = failures + 1
    /\ runs' = [runs EXCEPT ![t] = IdleRun]
    /\ UNCHANGED <<dbTip, phase, latest, isIndexing, loads, lastProcessed, applied,
                   restarts, disturbed>>

\* Either query of the tick fails after its retries (getIndexLatest, getBlockNumber).
TickQueryFails(t) ==
    /\ runs[t].pc \in {"asking", "asked"}
    /\ failures < MaxFailures
    /\ failures' = failures + 1
    /\ isIndexing' = FALSE
    /\ runs' = [runs EXCEPT ![t] = IdleRun]
    /\ UNCHANGED <<dbTip, phase, latest, loads, lastProcessed, applied,
                   restarts, disturbed>>

-----------------------------------------------------------------------------
\* The rows the query of load l returns.
RowsOf(l) == Rows[l.ind] \cap (l.from..l.to)

\* Slip: the check is missing.
StaleNever(l) == FALSE
\* updateLastProcessedCheckStale(from, to) returns true.
Stale(l) == lastProcessed[l.ind] >= l.from

\* The rows of S enter the in-memory index of i.
ApplyRows(i, S) ==
    applied' = [applied EXCEPT ![i] =
                   [b \in Blocks |-> IF b \in S THEN @[b] + 1 ELSE @[b]]]

\* A load with the stale check finishes after its query has returned.
LoadChecked(l) ==
    /\ l.ind \in Checked
    /\ loads' = loads \ {l}
    /\ IF Stale(l) \/ (l.ind \in CheckLate /\ RowsOf(l) = {})
         THEN UNCHANGED <<lastProcessed, applied>>
         ELSE /\ lastProcessed' = [lastProcessed EXCEPT ![l.ind] = l.to]
              /\ ApplyRows(l.ind, RowsOf(l))
    /\ UNCHANGED <<dbTip, phase, latest, isIndexing, runs, failures, restarts, disturbed>>

\* The rows RequestIndexer has not seen: handleRequestCreated throws on the others.
NewRows(l) == {b \in RowsOf(l) : applied[l.ind][b] = 0}

\* RequestIndexer.load: every row unknown so far.
LoadUnchecked(l) ==
    /\ l.ind \in Unchecked
    /\ NewRows(l) = RowsOf(l)
    /\ loads' = loads \ {l}
    /\ ApplyRows(l.ind, RowsOf(l))
    /\ UNCHANGED <<dbTip, phase, latest, isIndexing, runs, lastProcessed,
                   failures, restarts, disturbed>>

\* A load rejects, and with it the Promise.all of its layer: the tick ends in its
\* catch and finally blocks and its other loads are left to run on their own.
Reject(l) ==
    /\ loads' = {IF l.owner \in Ticks /\ m.owner = l.owner
                   THEN [m EXCEPT !.owner = Nobody] ELSE m : m \in loads \ {l}}
    /\ IF l.owner \in Ticks
         THEN /\ runs' = [runs EXCEPT ![l.owner] = IdleRun]
              /\ isIndexing' = FALSE
         ELSE UNCHANGED <<runs, isIndexing>>
    /\ disturbed' = TRUE

\* RequestIndexer.load meets a request it already has: the handlers of the new ones
\* still run, the call rejects.
LoadDuplicate(l) ==
    /\ l.ind \in Unchecked
    /\ l.owner # Boot
    /\ NewRows(l) # RowsOf(l)
    /\ Reject(l)
    /\ ApplyRows(l.ind, NewRows(l))
    /\ UNCHANGED <<dbTip, phase, latest, lastProcessed, failures, restarts>>

\* A load's query fails after its retries; during boot that ends the process (Restart).
LoadFails(l) ==
    /\ l.owner # Boot
    /\ failures < MaxFailures
    /\ failures' = failures + 1
    /\ Reject(l)
    /\ UNCHANGED <<dbTip, phase, latest, lastProcessed, applied, restarts>>

\* Slip: the next layer starts without awaiting the one before it.
NextLayerNoWait(t) ==
    /\ runs[t].pc = "loading"
    /\ runs[t].layer < NumLayers
    /\ runs' = [runs EXCEPT ![t].layer = @ + 1]
    /\ loads' = loads \cup LayerLoads(t, runs[t].layer + 1, runs[t].from, runs[t].to)
    /\ UNCHANGED <<dbTip, phase, latest, isIndexing, lastProcessed, applied,
                   failures, restarts, disturbed>>

\* All loads of t's layer have resolved; the next layer starts.
NextLayer(t) ==
    /\ runs[t].pc = "loading"
    /\ OwnLoads(t) = {}
    /\ runs[t].layer < NumLayers
    /\ runs' = [runs EXCEPT ![t].layer = @ + 1]
    /\ loads' = loads \cup LayerLoads(t, runs[t].layer + 1, runs[t].from, runs[t].to)
    /\ UNCHANGED <<dbTip, phase, latest, isIndexing, lastProcessed, applied,
                   failures, restarts, disturbed>>

\* Slip: latest moves to the block asked for, not to the end of the batch.
LastLayerDoneTip(t) ==
    /\ runs[t].pc = "loading"
    /\ OwnLoads(t) = {}
    /\ runs[t].layer = NumLayers
    /\ latest' = runs[t].tip

\* index() has returned: the batch is done.
LastLayerDone(t) ==
    /\ runs[t].pc = "loading"
    /\ OwnLoads(t) = {}
    /\ runs[t].layer = NumLayers
    /\ latest' = runs[t].to

\* ... to a tick, which sets latest and releases the flag.
TickDone(t) ==
    /\ LastLayerDone(t)
    /\ isIndexing' = FALSE
    /\ runs' = [runs EXCEPT ![t] = IdleRun]
    /\ UNCHANGED <<dbTip, phase, loads, lastProcessed, applied,
                   failures, restarts, disturbed>>

\* ... to catchUpTo, which loops with the same stop.
CatchUpBatchDone ==
    /\ LastLayerDone(Boot)
    /\ runs' = [runs EXCEPT ![Boot] = [IdleRun EXCEPT !.pc = "asked",
                                                      !.tip = runs[Boot].tip]]
    /\ UNCHANGED <<dbTip, phase, isIndexing, loads, lastProcessed, applied,
                   failures, restarts, disturbed>>

\* The API process dies and a new one starts: nothing of the index is persistent.
Restart ==
    /\ restarts < MaxRestarts
    /\ restarts' = restarts + 1
    /\ phase' = "boot"
    /\ latest' = 0
    /\ isIndexing' = FALSE
    /\ runs' = [t \in Callers |-> IdleRun]
    /\ loads' = {}
    /\ lastProcessed' = [i \in Indexers |-> 0]
    /\ applied' = FreshIndex
    /\ disturbed' = FALSE
    /\ UNCHANGED <<dbTip, failures>>

-----------------------------------------------------------------------------
BootStep == BootRead \/ CatchUp \/ Watch \/ CatchUpBatchDone \/ NextLayer(Boot)

\* What a started tick does next on its own.
TickStep(t) ==
    \/ TickAnswered(t) \/ TickNothingNew(t) \/ TickIndex(t)
    \/ NextLayer(t) \/ TickDone(t)

LoadStep(l) == LoadChecked(l) \/ LoadUnchecked(l) \/ LoadDuplicate(l)

Next ==
    \/ NewBlock
    \/ BootStep
    \/ \E t \in Ticks :
          TickSkip(t) \/ TickStart(t) \/ TickStep(t) \/ TickQueryFails(t)
    \/ \E l \in loads : LoadStep(l) \/ LoadFails(l)
    \/ Restart

Spec == Init /\ [][Next]_vars

\* The event loop runs every resolved promise, Postgres answers, the timer fires.
\* A tick may be delayed but not forever; failures and restarts are never required.
Fairness ==
    /\ WF_vars(BootStep)
    /\ \A t \in Ticks : WF_vars(TickStart(t)) /\ WF_vars(TickStep(t))
    /\ WF_vars(\E t \in Ticks : TickStart(t))
    /\ \A i \in Indexers, t \in Callers \cup {Nobody} :
          WF_vars(\E l \in loads : l.ind = i /\ l.owner = t /\ LoadStep(l))

FairSpec == Spec /\ Fairness

-----------------------------------------------------------------------------
(* Properties *)

\* A row is applied at most once by an indexer that has the stale check, however
\* ticks overlap and whatever fails: balances never count a transfer twice.
AppliedAtMostOnce == \A i \in Checked, b \in Blocks : applied[i][b] <= 1

\* No range is empty or inverted, and a checked indexer holds nothing beyond its
\* lastProcessedBlock: what makes the stale check sound.
RangesOK ==
    /\ \A l \in loads : l.from <= l.to
    /\ \A t \in Callers : runs[t].pc = "loading" => runs[t].from <= runs[t].to
NothingAbove ==
    \A i \in Checked, b \in Blocks : applied[i][b] > 0 => b <= lastProcessed[i]

\* The inductive invariant behind AppliedAtMostOnce and ImplementsIndexLog.
IInv == DataOK /\ RangesOK /\ NothingAbove /\ AppliedAtMostOnce

\* Indexers with the stale check implement the abstract log: a batch is applied only
\* above every block applied before it, or the process restarts.
Log == INSTANCE IndexLog WITH
          Indexers <- Checked,
          log <- [i \in Checked |-> applied[i]]
ImplementsIndexLog == Log!Spec

\* What latestBlock() and waitFor() tell their callers: every row of every block up to
\* latest is in every index.  Only overlapping ticks or a failed load can break it.
CompleteUnlessDisturbed ==
    ~disturbed =>
        \A i \in Indexers : \A b \in Rows[i] \cap (1..latest) : applied[i][b] = 1

\* Dependency layers: when an indexer holds a block, the indexers of the layers before
\* it hold that block.  Only overlapping ticks or a failed load can break it.
LayersInOrderUnlessDisturbed ==
    ~disturbed =>
        \A n \in 1..NumLayers : \A m \in 1..(n - 1) :
            \A i \in Layers[n], j \in Layers[m] :
                \A b \in Rows[i] \cap Rows[j] : applied[i][b] > 0 => applied[j][b] > 0

\* While nothing has disturbed the watcher one caller works at a time ...
OneCaller ==
    /\ phase = "boot" => \A t \in Ticks : ~Busy(t)
    /\ phase = "watch" => ~Busy(Boot)
    /\ \A t, u \in Callers : Busy(t) /\ Busy(u) => t = u

\* ... its batch starts right after latest ...
BatchFollowsLatest ==
    \A t \in Callers : runs[t].pc = "loading" =>
        /\ runs[t].from = latest + 1
        /\ runs[t].layer \in 1..NumLayers

\* ... and every load in flight is one of the layer that caller is at.
LoadsOfTheLayer ==
    \A l \in loads :
        /\ l.owner \in Callers
        /\ runs[l.owner].pc = "loading"
        /\ l.from = runs[l.owner].from
        /\ l.to = runs[l.owner].to
        /\ l.ind \in Layers[runs[l.owner].layer]

\* The load of i in the batch of t has resolved.
Finished(t, i) ==
    /\ runs[t].pc = "loading"
    /\ \/ \E m \in 1..(runs[t].layer - 1) : i \in Layers[m]
       \/ i \in Layers[runs[t].layer] /\ \A l \in OwnLoads(t) : l.ind # i

\* Indexer i holds its rows of the blocks up to n, once, and nothing after n.
HoldsUpTo(i, n) ==
    /\ i \in Checked => lastProcessed[i] <= n
    /\ \A b \in Blocks : applied[i][b] = IF b \in Rows[i] /\ b <= n THEN 1 ELSE 0

\* An indexer is at the end of the batch in progress, or else at latest.
BatchOrLatest ==
    \A i \in Indexers :
        /\ \A t \in Callers : Finished(t, i) => HoldsUpTo(i, runs[t].to)
        /\ (\A t \in Callers : ~Finished(t, i)) => HoldsUpTo(i, latest)

\* The inductive invariant (beside IInv) behind the two properties above.
Orderly == OneCaller /\ BatchFollowsLatest /\ LoadsOfTheLayer /\ BatchOrLatest
OrderlyUnlessDisturbed == ~disturbed => Orderly

\* RequestIndexer holds a request of a batch that has not been finished: unless a tick is
\* about to finish it, every tick from now on asks for it again and is rejected.
Jammed == \E i \in Unchecked, b \in Blocks : b > latest /\ applied[i][b] > 0

\* Once blocks stop arriving the index reaches the database's tip and stays there,
\* although ticks overlap, skip and fail; only a repeated request keeps it back.
CatchesUp == <>[](phase = "watch" /\ (latest = dbTip \/ Jammed))

-----------------------------------------------------------------------------
(* What the code's own log lines and comments say *)

\* "skipping, already indexing" (indexWatcher.ts:115): a tick that finds another one
\* at work leaves it alone, so at most one tick is past the check.
OneTickIndexing == Cardinality({t \in Ticks : Busy(t)}) <= 1

\* "SKIPPING from-to, already processed through lastProcessedBlock" (indexer.ts:26):
\* what a stale load skips has been processed.
StaleLoadWasProcessed ==
    \A l \in loads : l.ind \in Checked \ CheckLate /\ Stale(l) =>
        l.to <= lastProcessed[l.ind]

=============================================================================
