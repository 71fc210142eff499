------------------------- MODULE IndexWatcherProofs -------------------------
(***************************************************************************)
(* Proofs about IndexWatcher for every set of indexers, layering, batch    *)
(* size, number of concurrent ticks and bound.                             *)
(***************************************************************************)
EXTENDS IndexWatcher, TLAPS

USE ConstantsAssumption DEF ConstantsAssumption

\* A batch never ends before it starts, nor after the block asked for.
LEMMA BatchEndRange ==
    ASSUME NEW start \in Nat, NEW stop \in Nat, start <= stop
    PROVE  /\ BatchEnd(start, stop) \in Nat
           /\ start <= BatchEnd(start, stop)
           /\ BatchEnd(start, stop) <= stop
BY DEF BatchEnd

\* The initial state satisfies the inductive invariant.
LEMMA InitIInv == Init => IInv
BY DEF Init, IInv, DataOK, RangesOK, NothingAbove, AppliedAtMostOnce, Runs, IdleRun,
       FreshIndex, Load, Blocks, Callers, Checked

\* The loads of one layer are well typed and keep the batch's range.
LEMMA LayerLoadsType ==
    ASSUME NEW t \in Callers, NEW n \in 1..NumLayers,
           NEW from \in 0..MaxBlock, NEW to \in 0..MaxBlock
    PROVE  /\ LayerLoads(t, n, from, to) \subseteq Load
           /\ \A l \in LayerLoads(t, n, from, to) : l.from = from /\ l.to = to
BY DEF LayerLoads, Load

\* index() starts a batch in range.
LEMMA BeginIndexInv ==
    ASSUME DataOK, RangesOK, NEW t \in Callers, NEW stop \in 0..MaxBlock,
           latest < stop, BeginIndex(t, stop)
    PROVE  /\ runs' \in [Callers -> Runs]
           /\ loads' \in SUBSET Load
           /\ \A l \in loads' : l.from <= l.to
           /\ \A u \in Callers : runs'[u].pc = "loading" => runs'[u].from <= runs'[u].to
<1> DEFINE from == latest + 1
           to == BatchEnd(from, stop)
<1>0. /\ latest \in 0..MaxBlock /\ MaxBlock \in Nat
      /\ from \in Nat /\ stop \in Nat /\ from <= stop /\ stop <= MaxBlock
  BY DEF DataOK
<1>1. /\ latest \in Nat
      /\ from \in 0..MaxBlock
      /\ to \in 0..MaxBlock
      /\ from <= to
  <2>1. to \in Nat /\ from <= to /\ to <= stop
    BY <1>0, BatchEndRange
  <2> QED
    BY <1>0, <2>1
<1>2. /\ runs' = [runs EXCEPT ![t] = [pc |-> "loading", tip |-> stop,
                                      from |-> from, to |-> to, layer |-> 1]]
      /\ loads' = loads \cup LayerLoads(t, 1, from, to)
  BY DEF BeginIndex
<1> HIDE DEF from, to
<1>3. [pc |-> "loading", tip |-> stop, from |-> from, to |-> to, layer |-> 1] \in Runs
  BY <1>1 DEF Runs
<1>4. 1 \in 1..NumLayers
  OBVIOUS
<1>5. LayerLoads(t, 1, from, to) \subseteq Load
      /\ \A l \in LayerLoads(t, 1, from, to) : l.from = from /\ l.to = to
  BY <1>1, <1>4, LayerLoadsType
<1>6. runs' \in [Callers -> Runs]
  BY <1>2, <1>3 DEF DataOK
<1>7. loads' \in SUBSET Load /\ \A l \in loads' : l.from <= l.to
  BY <1>1, <1>2, <1>5 DEF DataOK, RangesOK
<1>8. \A u \in Callers : runs'[u].pc = "loading" => runs'[u].from <= runs'[u].to
  BY <1>1, <1>2 DEF DataOK, RangesOK
<1> QED
  BY <1>6, <1>7, <1>8

\* ApplyRows keeps counts natural numbers and touches one indexer only.
LEMMA ApplyRowsType ==
    ASSUME DataOK, NEW i \in Indexers, NEW S, ApplyRows(i, S)
    PROVE  /\ applied' \in [Indexers -> [Blocks -> Nat]]
           /\ \A j \in Indexers : j # i => applied'[j] = applied[j]
           /\ \A b \in Blocks : applied'[i][b] =
                 IF b \in S THEN applied[i][b] + 1 ELSE applied[i][b]
BY DEF DataOK, ApplyRows

\* A rejected load leaves runs and loads well formed.
LEMMA RejectInv ==
    ASSUME DataOK, RangesOK, NEW l \in loads, Reject(l)
    PROVE  /\ runs' \in [Callers -> Runs]
           /\ loads' \in SUBSET Load
           /\ \A m \in loads' : m.from <= m.to
           /\ \A u \in Callers : runs'[u].pc = "loading" => runs'[u].from <= runs'[u].to
<1>1. IdleRun \in Runs /\ IdleRun.pc # "loading"
  BY DEF IdleRun, Runs
<1>2. \A m \in loads : [m EXCEPT !.owner = Nobody] \in Load
                       /\ [m EXCEPT !.owner = Nobody].from = m.from
                       /\ [m EXCEPT !.owner = Nobody].to = m.to
  BY DEF DataOK, Load
<1>3. loads' = {IF l.owner \in Ticks /\ m.owner = l.owner
                  THEN [m EXCEPT !.owner = Nobody] ELSE m : m \in loads \ {l}}
  BY DEF Reject
<1>4. loads' \in SUBSET Load /\ \A m \in loads' : m.from <= m.to
  <2> SUFFICES ASSUME NEW n \in loads' PROVE n \in Load /\ n.from <= n.to
    OBVIOUS
  <2>1. PICK m \in loads : n = m \/ n = [m EXCEPT !.owner = Nobody]
    BY <1>3
  <2>2. m \in Load /\ m.from <= m.to
    BY DEF DataOK, RangesOK
  <2> QED
    BY <1>2, <2>1, <2>2
<1>5. /\ runs' \in [Callers -> Runs]
      /\ \A u \in Callers : runs'[u].pc = "loading" => runs'[u].from <= runs'[u].to
  BY <1>1 DEF Reject, DataOK, RangesOK
<1> QED
  BY <1>4, <1>5

\* The records an invocation moves through are well formed.
LEMMA RunRecords ==
    ASSUME NEW r \in Runs
    PROVE  /\ \A n \in 0..MaxBlock : [r EXCEPT !.pc = "asked", !.tip = n] \in Runs
           /\ \A n \in 0..MaxBlock : [r EXCEPT !.pc = "asked", !.tip = n].pc = "asked"
           /\ r.layer + 1 \in 0..NumLayers => [r EXCEPT !.layer = @ + 1] \in Runs
           /\ [r EXCEPT !.layer = @ + 1].from = r.from
           /\ [r EXCEPT !.layer = @ + 1].to = r.to
           /\ r.tip \in 0..MaxBlock /\ r.from \in 0..MaxBlock /\ r.to \in 0..MaxBlock
           /\ r.layer \in 0..NumLayers
BY DEF Runs

LEMMA RunType == ASSUME DataOK, NEW t \in Callers PROVE runs[t] \in Runs
BY DEF DataOK

LEMMA CallersType == Boot \in Callers /\ Ticks \subseteq Callers
BY DEF Callers

\* Moving one invocation to a well-formed record keeps all of them well formed.
LEMMA RunUpdate ==
    ASSUME DataOK, RangesOK, NEW t \in Callers, NEW r \in Runs,
           r.pc = "loading" => r.from <= r.to,
           runs' = [runs EXCEPT ![t] = r]
    PROVE  /\ runs' \in [Callers -> Runs]
           /\ \A u \in Callers : runs'[u].pc = "loading" => runs'[u].from <= runs'[u].to
BY DEF DataOK, RangesOK

\* Every step preserves the inductive invariant.
LEMMA NextIInv == IInv /\ [Next]_vars => IInv'
<1> SUFFICES ASSUME IInv, [Next]_vars PROVE IInv'
  OBVIOUS
<1> USE DEF IInv
<1>0. IdleRun \in Runs /\ IdleRun.pc # "loading"
  BY DEF IdleRun, Runs
<1>1. CASE NewBlock
  BY <1>1 DEF NewBlock, DataOK, RangesOK, NothingAbove, AppliedAtMostOnce
<1>2. CASE BootRead
  <2> DEFINE r == [IdleRun EXCEPT !.pc = "asked", !.tip = dbTip]
  <2>0. dbTip \in 0..MaxBlock
    BY DEF DataOK
  <2>1. r \in Runs /\ r.pc # "loading" /\ Boot \in Callers
    BY <1>0, <2>0, RunRecords, CallersType
  <2>2. runs' = [runs EXCEPT ![Boot] = r]
    BY <1>2 DEF BootRead
  <2> HIDE DEF r
  <2>3. runs' \in [Callers -> Runs]
        /\ \A u \in Callers : runs'[u].pc = "loading" => runs'[u].from <= runs'[u].to
    BY <2>1, <2>2, RunUpdate
  <2> QED
    BY <1>2, <2>3 DEF BootRead, DataOK, RangesOK, NothingAbove, AppliedAtMostOnce
<1>3. CASE CatchUp
  <2>1. Boot \in Callers /\ runs[Boot].tip \in 0..MaxBlock
    BY DEF Callers, DataOK, Runs
  <2>2. latest < runs[Boot].tip /\ BeginIndex(Boot, runs[Boot].tip)
    BY <1>3 DEF CatchUp
  <2>3. DataOK' /\ RangesOK'
    BY <1>3, <2>1, <2>2, BeginIndexInv DEF CatchUp, DataOK, RangesOK
  <2> QED
    BY <1>3, <2>3 DEF CatchUp, NothingAbove, AppliedAtMostOnce
<1>4. CASE Watch
  BY <1>0, <1>4 DEF Watch, DataOK, RangesOK, NothingAbove, AppliedAtMostOnce, Callers
<1>5. CASE CatchUpBatchDone
  <2> DEFINE r == [IdleRun EXCEPT !.pc = "asked", !.tip = runs[Boot].tip]
  <2>1. r \in Runs /\ r.pc # "loading" /\ Boot \in Callers
        /\ runs[Boot].to \in 0..MaxBlock
    BY <1>0, RunType, RunRecords, CallersType
  <2>2. runs' = [runs EXCEPT ![Boot] = r]
    BY <1>5 DEF CatchUpBatchDone
  <2> HIDE DEF r
  <2>3. runs' \in [Callers -> Runs]
        /\ \A u \in Callers : runs'[u].pc = "loading" => runs'[u].from <= runs'[u].to
    BY <2>1, <2>2, RunUpdate
  <2> QED
    BY <1>5, <2>1, <2>3 DEF CatchUpBatchDone, LastLayerDone, DataOK, RangesOK, NothingAbove,
                            AppliedAtMostOnce
<1>6. ASSUME NEW t \in Callers, NextLayer(t) PROVE IInv'
  <2>1. runs[t].layer + 1 \in 1..NumLayers /\ runs[t].from \in 0..MaxBlock
        /\ runs[t].to \in 0..MaxBlock /\ runs[t].from <= runs[t].to
    BY <1>6 DEF NextLayer, DataOK, Runs, RangesOK
  <2>2. LET new == LayerLoads(t, runs[t].layer + 1, runs[t].from, runs[t].to)
        IN  new \subseteq Load /\ \A l \in new : l.from <= l.to
    BY <2>1, LayerLoadsType
  <2>3. loads' \in SUBSET Load /\ \A l \in loads' : l.from <= l.to
    BY <1>6, <2>2 DEF NextLayer, DataOK, RangesOK
  <2>4. runs' \in [Callers -> Runs]
        /\ \A u \in Callers : runs'[u].pc = "loading" => runs'[u].from <= runs'[u].to
    <3> DEFINE r == [runs[t] EXCEPT !.layer = @ + 1]
    <3>0. runs[t] \in Runs /\ runs[t].layer + 1 \in 0..NumLayers
      BY <2>1, RunType
    <3>1. r \in Runs /\ r.from = runs[t].from /\ r.to = runs[t].to
      BY <3>0, RunRecords
    <3>2. runs' = [runs EXCEPT ![t] = r]
      BY <1>6 DEF NextLayer
    <3> HIDE DEF r
    <3> QED
      BY <2>1, <3>1, <3>2, RunUpdate
  <2> QED
    BY <1>6, <2>3, <2>4 DEF NextLayer, DataOK, RangesOK, NothingAbove, AppliedAtMostOnce
<1>7. ASSUME NEW t \in Ticks, TickSkip(t) PROVE IInv'
  BY <1>7 DEF TickSkip, DataOK, RangesOK, NothingAbove, AppliedAtMostOnce
<1>8. ASSUME NEW t \in Ticks, TickStart(t) PROVE IInv'
  <2> DEFINE r == [IdleRun EXCEPT !.pc = "asking"]
  <2>1. r \in Runs /\ r.pc # "loading" /\ t \in Callers
    BY DEF IdleRun, Runs, Callers
  <2>2. runs' = [runs EXCEPT ![t] = r]
    BY <1>8 DEF TickStart
  <2> HIDE DEF r
  <2>3. runs' \in [Callers -> Runs]
        /\ \A u \in Callers : runs'[u].pc = "loading" => runs'[u].from <= runs'[u].to
    BY <2>1, <2>2, RunUpdate
  <2> QED
    BY <1>8, <2>3 DEF TickStart, DataOK, RangesOK, NothingAbove, AppliedAtMostOnce
<1>9. ASSUME NEW t \in Ticks, TickAnswered(t) PROVE IInv'
  <2> DEFINE r == [runs[t] EXCEPT !.pc = "asked", !.tip = dbTip]
  <2>0. dbTip \in 0..MaxBlock
    BY DEF DataOK
  <2>1. r \in Runs /\ r.pc # "loading" /\ t \in Callers
    BY <2>0, RunType, RunRecords, CallersType
  <2>2. runs' = [runs EXCEPT ![t] = r]
    BY <1>9 DEF TickAnswered
  <2> HIDE DEF r
  <2>3. runs' \in [Callers -> Runs]
        /\ \A u \in Callers : runs'[u].pc = "loading" => runs'[u].from <= runs'[u].to
    BY <2>1, <2>2, RunUpdate
  <2> QED
    BY <1>9, <2>3 DEF TickAnswered, DataOK, RangesOK, NothingAbove, AppliedAtMostOnce
<1>10. ASSUME NEW t \in Ticks, TickNothingNew(t) PROVE IInv'
  BY <1>0, <1>10 DEF TickNothingNew, DataOK, RangesOK, NothingAbove, AppliedAtMostOnce,
                     Callers
<1>11. ASSUME NEW t \in Ticks, TickIndex(t) PROVE IInv'
  <2>1. t \in Callers /\ runs[t].tip \in 0..MaxBlock
    BY DEF Callers, DataOK, Runs
  <2>2. latest < runs[t].tip /\ BeginIndex(t, runs[t].tip)
    BY <1>11, <2>1 DEF TickIndex, DataOK
  <2>3. DataOK' /\ RangesOK'
    BY <1>11, <2>1, <2>2, BeginIndexInv DEF TickIndex, DataOK, RangesOK
  <2> QED
    BY <1>11, <2>3 DEF TickIndex, NothingAbove, AppliedAtMostOnce
<1>12. ASSUME NEW t \in Ticks, TickDone(t) PROVE IInv'
  BY <1>0, <1>12 DEF TickDone, LastLayerDone, DataOK, RangesOK, NothingAbove,
                     AppliedAtMostOnce, Runs, Callers
<1>13. ASSUME NEW t \in Ticks, TickQueryFails(t) PROVE IInv'
  BY <1>0, <1>13 DEF TickQueryFails, DataOK, RangesOK, NothingAbove, AppliedAtMostOnce,
                     Callers
<1>14. ASSUME NEW l \in loads, LoadChecked(l) PROVE IInv'
  <2>0. l \in Load /\ l.from <= l.to /\ l.ind \in Checked /\ l.ind \in Indexers
    BY <1>14 DEF DataOK, RangesOK, LoadChecked, Checked
  <2>1. CASE UNCHANGED <<lastProcessed, applied>>
    BY <1>14, <2>1 DEF LoadChecked, DataOK, RangesOK, NothingAbove, AppliedAtMostOnce
  <2>2. CASE /\ ~Stale(l)
             /\ lastProcessed' = [lastProcessed EXCEPT ![l.ind] = l.to]
             /\ ApplyRows(l.ind, RowsOf(l))
    <3>1. /\ applied' \in [Indexers -> [Blocks -> Nat]]
          /\ \A j \in Indexers : j # l.ind => applied'[j] = applied[j]
          /\ \A b \in Blocks : applied'[l.ind][b] =
                IF b \in RowsOf(l) THEN applied[l.ind][b] + 1 ELSE applied[l.ind][b]
      BY <2>0, <2>2, ApplyRowsType
    <3>2. lastProcessed[l.ind] < l.from /\ lastProcessed[l.ind] \in Nat
          /\ l.from \in Nat /\ l.to \in Nat
      BY <2>0, <2>2 DEF Stale, DataOK, Load
    <3>3. \A b \in RowsOf(l) : l.from <= b /\ b <= l.to
      BY DEF RowsOf
    <3>4. DataOK' /\ RangesOK'
      BY <1>14, <2>0, <2>2, <3>1 DEF LoadChecked, DataOK, RangesOK, Load
    <3>a. \A b \in Blocks : b \in Nat /\ applied[l.ind][b] \in Nat
                          /\ (applied[l.ind][b] > 0 => b < l.from)
      BY <2>0, <3>2 DEF NothingAbove, DataOK, Blocks
    <3>5. \A b \in Blocks : b \in RowsOf(l) => applied[l.ind][b] = 0
      BY <3>2, <3>3, <3>a
    <3>6. NothingAbove'
      <4> SUFFICES ASSUME NEW i \in Checked, NEW b \in Blocks, applied'[i][b] > 0
                   PROVE  b <= lastProcessed'[i]
        BY DEF NothingAbove
      <4>1. i \in Indexers
        BY DEF Checked
      <4>2. CASE i = l.ind
        <5>1. lastProcessed'[i] = l.to
          BY <2>2, <4>1, <4>2 DEF DataOK
        <5>2. b <= l.to
          BY <2>0, <3>1, <3>2, <3>3, <3>a, <4>2
        <5> QED
          BY <5>1, <5>2
      <4>3. CASE i # l.ind
        BY <2>2, <3>1, <4>1, <4>3 DEF NothingAbove, DataOK
      <4> QED
        BY <4>2, <4>3
    <3>7. AppliedAtMostOnce'
      BY <2>0, <3>1, <3>5 DEF AppliedAtMostOnce, Checked
    <3> QED
      BY <3>4, <3>6, <3>7
  <2> QED
    BY <1>14, <2>1, <2>2 DEF LoadChecked
<1>15. ASSUME NEW l \in loads, LoadUnchecked(l) PROVE IInv'
  <2>1. l.ind \in Indexers /\ l.ind \notin Checked
    BY <1>15 DEF LoadUnchecked, Checked
  <2>2. applied' \in [Indexers -> [Blocks -> Nat]]
        /\ \A j \in Checked : applied'[j] = applied[j]
    BY <1>15, <2>1, ApplyRowsType DEF LoadUnchecked, Checked
  <2> QED
    BY <1>15, <2>2 DEF LoadUnchecked, DataOK, RangesOK, NothingAbove, AppliedAtMostOnce
<1>16. ASSUME NEW l \in loads, LoadDuplicate(l) PROVE IInv'
  <2>1. l.ind \in Indexers /\ l.ind \notin Checked
    BY <1>16 DEF LoadDuplicate, Checked
  <2>2. applied' \in [Indexers -> [Blocks -> Nat]]
        /\ \A j \in Checked : applied'[j] = applied[j]
    BY <1>16, <2>1, ApplyRowsType DEF LoadDuplicate, Checked
  <2>3. DataOK' /\ RangesOK'
    BY <1>16, <2>2, RejectInv DEF LoadDuplicate, DataOK, RangesOK
  <2> QED
    BY <1>16, <2>2, <2>3 DEF LoadDuplicate, NothingAbove, AppliedAtMostOnce
<1>17. ASSUME NEW l \in loads, LoadFails(l) PROVE IInv'
  <2>1. DataOK' /\ RangesOK'
    BY <1>17, RejectInv DEF LoadFails, DataOK, RangesOK
  <2> QED
    BY <1>17, <2>1 DEF LoadFails, NothingAbove, AppliedAtMostOnce
<1>18. CASE Restart
  BY <1>0, <1>18 DEF Restart, DataOK, RangesOK, NothingAbove, AppliedAtMostOnce, FreshIndex,
                     Checked, Blocks
<1>19. CASE UNCHANGED vars
  BY <1>19 DEF vars, DataOK, RangesOK, NothingAbove, AppliedAtMostOnce
<1> QED
  BY <1>1, <1>2, <1>3, <1>4, <1>5, <1>6, <1>7, <1>8, <1>9, <1>10, <1>11, <1>12, <1>13,
     <1>14, <1>15, <1>16, <1>17, <1>18, <1>19
     DEF Next, BootStep, TickStep, LoadStep, Callers

\* The inductive invariant holds in every reachable state.
LEMMA Inductive == Spec => []IInv
<1>1. Init => IInv
  BY InitIInv
<1>2. IInv /\ [Next]_vars => IInv'
  BY NextIInv
<1> QED
  BY <1>1, <1>2, PTL DEF Spec

\* Type correctness of the watcher and its indexers.
THEOREM WatcherTypeOK == Spec => []TypeOK
<1>1. IInv => DataOK
  BY DEF IInv
<1>2. Init => FlagsOK
  BY Zenon DEF Init, FlagsOK
<1>3. FlagsOK /\ [Next]_vars => FlagsOK'
  <2> SUFFICES ASSUME FlagsOK, [Next]_vars PROVE FlagsOK'
    OBVIOUS
  <2>1. CASE UNCHANGED <<isIndexing, disturbed>>
    BY <2>1, Zenon DEF FlagsOK
  <2> QED
    BY <2>1, Zenon DEF FlagsOK, Next, vars, NewBlock, BootStep, BootRead, CatchUp, Watch,
       CatchUpBatchDone, LastLayerDone, NextLayer, TickSkip, TickStart, TickStep,
       TickAnswered, TickNothingNew, TickIndex, TickDone, TickQueryFails, LoadStep,
       LoadChecked, LoadUnchecked, LoadDuplicate, LoadFails, Reject, Restart
<1> QED
  BY <1>1, <1>2, <1>3, Inductive, PTL DEF Spec, TypeOK

\* indexer.ts:23-35: however many ticks overlap, in whatever order their queries return
\* and whichever fail, an indexer with the stale check never applies a row twice.
THEOREM NeverAppliedTwice == Spec => []AppliedAtMostOnce
<1>1. IInv => AppliedAtMostOnce
  BY DEF IInv
<1> QED
  BY <1>1, Inductive, PTL

\* The rows of a load enter the index of a checked indexer as one Append of the
\* abstract log.
LEMMA LoadCheckedAppends ==
    ASSUME IInv, NEW l \in loads, LoadChecked(l)
    PROVE  UNCHANGED applied \/ Log!Append(l.ind, RowsOf(l))
<1>1. /\ l \in Load /\ l.ind \in Checked /\ l.ind \in Indexers
      /\ applied \in [Indexers -> [Blocks -> Nat]]
      /\ lastProcessed[l.ind] \in Nat /\ l.from \in Nat
  BY DEF LoadChecked, Checked, IInv, DataOK, Load
<1>2. CASE ~Stale(l) /\ ApplyRows(l.ind, RowsOf(l))
  <2>1. \A b \in RowsOf(l) : l.from <= b /\ b \in Nat
    BY <1>1 DEF RowsOf
  <2>2. \A c \in Blocks : c \in Nat /\ (applied[l.ind][c] > 0 => c <= lastProcessed[l.ind])
    BY <1>1 DEF IInv, NothingAbove, Blocks
  <2>3. lastProcessed[l.ind] < l.from
    BY <1>1, <1>2 DEF Stale
  <2>4. \A b \in RowsOf(l), c \in Blocks : applied[l.ind][c] > 0 => c < b
    BY <1>1, <2>1, <2>2, <2>3
  <2>5. [i \in Checked |-> applied[i]]' =
          [[i \in Checked |-> applied[i]] EXCEPT ![l.ind] =
             [b \in Blocks |-> IF b \in RowsOf(l) THEN @[b] + 1 ELSE @[b]]]
    BY <1>1, <1>2 DEF ApplyRows, Checked
  <2> QED
    BY <1>1, <2>4, <2>5 DEF Log!Append
<1> QED
  BY <1>2 DEF LoadChecked

\* Indexers with the stale check implement the abstract log: every step of the watcher
\* is an append above everything applied, a reset, or no step of the log.
THEOREM WatcherImplementsLog == Spec => ImplementsIndexLog
<1> DEFINE log == [i \in Checked |-> applied[i]]
<1>1. Init => Log!Init
  BY DEF Init, Log!Init, Log!Empty, FreshIndex, Checked
<1>2. IInv /\ [Next]_vars => [Log!Next]_log
  <2> SUFFICES ASSUME IInv, [Next]_vars PROVE Log!Next \/ UNCHANGED log
    OBVIOUS
  <2>1. ASSUME NEW l \in loads, LoadChecked(l) PROVE Log!Next \/ UNCHANGED log
    <3>1. l.ind \in Checked /\ RowsOf(l) \in SUBSET Blocks
      BY <2>1 DEF LoadChecked, RowsOf, Checked, Blocks, IInv, DataOK, Load
    <3>2. UNCHANGED applied => UNCHANGED log
      OBVIOUS
    <3> QED
      BY <2>1, <3>1, <3>2, LoadCheckedAppends DEF Log!Next
  <2>2. ASSUME NEW l \in loads, LoadUnchecked(l) \/ LoadDuplicate(l)
        PROVE  UNCHANGED log
    <3>1. l.ind \in Indexers \ Checked
      BY <2>2 DEF LoadUnchecked, LoadDuplicate, Checked, IInv, DataOK, Load
    <3>2. \A i \in Checked : applied'[i] = applied[i]
      BY <2>2, <3>1, ApplyRowsType DEF LoadUnchecked, LoadDuplicate, IInv, Checked
    <3> QED
      BY <3>2
  <2>3. CASE Restart
    <3>1. Log!Reset
      BY <2>3 DEF Restart, Log!Reset, Log!Empty, FreshIndex, Checked
    <3> QED
      BY <3>1 DEF Log!Next
  <2>4. CASE UNCHANGED applied
    BY <2>4
  <2> QED
    BY <2>1, <2>2, <2>3, <2>4 DEF Next, vars, NewBlock, BootStep, BootRead, CatchUp, Watch,
       CatchUpBatchDone, NextLayer, TickSkip, TickStart, TickStep, TickAnswered,
       TickNothingNew, TickIndex, TickDone, TickQueryFails, LoadStep, LoadFails
<1> QED
  BY <1>1, <1>2, Inductive, PTL DEF Spec, ImplementsIndexLog, Log!Spec

-----------------------------------------------------------------------------
(* The index while no ticks overlap and no load fails *)

\* At most one caller is loading, and nobody else has loads in flight.
LEMMA OneLoading ==
    ASSUME Orderly, NEW t \in Callers, runs[t].pc = "loading"
    PROVE  /\ \A u \in Callers : runs[u].pc = "loading" => u = t
           /\ \A l \in loads : l.owner = t
           /\ \A u \in Callers, i \in Indexers : Finished(u, i) => u = t
BY DEF Orderly, OneCaller, LoadsOfTheLayer, Busy, Finished

\* While nobody is loading, no load is in flight and every indexer is at latest.
LEMMA QuietIndex ==
    ASSUME Orderly, \A t \in Callers : runs[t].pc # "loading"
    PROVE  loads = {} /\ \A i \in Indexers : HoldsUpTo(i, latest)
BY DEF Orderly, LoadsOfTheLayer, BatchOrLatest, Finished

\* An indexer whose load is in flight is at latest: its load is not stale and brings
\* nothing the indexer has.
LEMMA InFlightAtLatest ==
    ASSUME IInv, Orderly, NEW l \in loads
    PROVE  /\ l.ind \in Indexers
           /\ HoldsUpTo(l.ind, latest)
           /\ l.from = latest + 1
           /\ l.to \in Nat
<1>1. l \in Load /\ latest \in Nat
  BY DEF IInv, DataOK
<1>2. l.owner \in Callers /\ runs[l.owner].pc = "loading"
      /\ l.from = latest + 1 /\ l.ind \in Layers[runs[l.owner].layer]
      /\ runs[l.owner].layer \in 1..NumLayers
  BY DEF Orderly, LoadsOfTheLayer, BatchFollowsLatest
<1>3. ~Finished(l.owner, l.ind)
  <2>1. l \in OwnLoads(l.owner)
    BY DEF OwnLoads
  <2>2. \A m \in 1..(runs[l.owner].layer - 1) : l.ind \notin Layers[m]
    BY <1>2, LayeringAssumption
  <2> QED
    BY <2>1, <2>2 DEF Finished
<1>4. \A u \in Callers : ~Finished(u, l.ind)
  BY <1>2, <1>3, OneLoading, <1>1 DEF Load
<1> QED
  BY <1>1, <1>2, <1>4 DEF Orderly, BatchOrLatest, Load

\* A step that only moves a caller that is not loading to another state in which it is
\* not loading keeps the batches and the indexers as they are.
LEMMA CallerMoves ==
    ASSUME IInv, Orderly, NEW t \in Callers, NEW r \in Runs,
           runs[t].pc # "loading", r.pc # "loading",
           runs' = [runs EXCEPT ![t] = r],
           UNCHANGED <<latest, loads, lastProcessed, applied>>
    PROVE  BatchFollowsLatest' /\ LoadsOfTheLayer' /\ BatchOrLatest'
<1>1. /\ \A u \in Callers : u # t => runs'[u] = runs[u]
      /\ runs'[t] = r
  BY DEF IInv, DataOK
<1>2. BatchFollowsLatest' /\ LoadsOfTheLayer'
  BY <1>1 DEF Orderly, BatchFollowsLatest, LoadsOfTheLayer
<1>3. \A u \in Callers, i \in Indexers : Finished(u, i)' <=> Finished(u, i)
  BY <1>1 DEF Finished, OwnLoads
<1>4. \A u \in Callers, i \in Indexers : Finished(u, i) => runs'[u] = runs[u]
  BY <1>1 DEF Finished
<1>5. \A i \in Indexers : \A n : HoldsUpTo(i, n)' <=> HoldsUpTo(i, n)
  BY DEF HoldsUpTo
<1>6. BatchOrLatest'
  BY <1>3, <1>4, <1>5 DEF Orderly, BatchOrLatest
<1> QED
  BY <1>2, <1>6

\* index() begins: every indexer is at latest, and the first layer is in flight.
LEMMA BeginOrderly ==
    ASSUME IInv, Orderly, NEW t \in Callers, runs[t].pc = "asked",
           BeginIndex(t, runs[t].tip), UNCHANGED <<phase, latest, lastProcessed, applied>>
    PROVE  Orderly'
<1> DEFINE from == latest + 1
           to == BatchEnd(from, runs[t].tip)
           r == [pc |-> "loading", tip |-> runs[t].tip, from |-> from, to |-> to, layer |-> 1]
<1>1. /\ runs' = [runs EXCEPT ![t] = r]
      /\ loads' = loads \cup LayerLoads(t, 1, from, to)
  BY DEF BeginIndex
<1>2. r.pc = "loading" /\ r.from = from /\ r.to = to /\ r.layer = 1
  OBVIOUS
<1> HIDE DEF to, r
<1>3. /\ \A u \in Callers : u # t => runs'[u] = runs[u]
      /\ runs'[t] = r
  BY <1>1 DEF IInv, DataOK
<1>4. \A u \in Callers : u # t => runs[u].pc = "idle"
  BY DEF Orderly, OneCaller, Busy
<1>5. loads = {} /\ \A i \in Indexers : HoldsUpTo(i, latest)
  <2>1. \A u \in Callers : runs[u].pc # "loading"
    BY <1>4
  <2> QED
    BY <2>1, QuietIndex
<1>6. OneCaller'
  BY <1>2, <1>3, <1>4 DEF Orderly, OneCaller, Busy, Callers
<1>7. BatchFollowsLatest'
  BY <1>2, <1>3, <1>4 DEF BatchFollowsLatest
<1>8. \A l \in loads' : l.owner = t /\ l.from = from /\ l.to = to /\ l.ind \in Layers[1]
  BY <1>1, <1>5 DEF LayerLoads
<1>9. LoadsOfTheLayer'
  BY <1>2, <1>3, <1>8 DEF LoadsOfTheLayer
<1>10. \A u \in Callers, i \in Indexers : ~Finished(u, i)'
  <2> SUFFICES ASSUME NEW u \in Callers, NEW i \in Indexers, Finished(u, i)' PROVE FALSE
    OBVIOUS
  <2>1. u = t /\ runs'[u].layer = 1
    BY <1>2, <1>3, <1>4 DEF Finished
  <2>2. i \in Layers[1] /\ \A l \in OwnLoads(t)' : l.ind # i
    BY <2>1 DEF Finished
  <2>3. [ind |-> i, from |-> from, to |-> to, owner |-> t] \in loads'
    BY <1>1, <2>2 DEF LayerLoads
  <2> QED
    BY <2>2, <2>3 DEF OwnLoads
<1>11. BatchOrLatest'
  BY <1>5, <1>10 DEF BatchOrLatest, HoldsUpTo
<1> QED
  BY <1>6, <1>7, <1>9, <1>11 DEF Orderly

\* The next layer begins: every indexer of the layers before it is at the batch's end.
LEMMA NextLayerOrderly ==
    ASSUME IInv, Orderly, NEW t \in Callers, NextLayer(t)
    PROVE  Orderly'
<1> DEFINE n == runs[t].layer
           r == [runs[t] EXCEPT !.layer = @ + 1]
<1>1. /\ runs[t].pc = "loading"
      /\ OwnLoads(t) = {}
      /\ runs' = [runs EXCEPT ![t] = r]
      /\ loads' = loads \cup LayerLoads(t, n + 1, runs[t].from, runs[t].to)
      /\ UNCHANGED <<phase, latest, lastProcessed, applied>>
  BY DEF NextLayer
<1>2. n \in 1..NumLayers /\ n + 1 \in 1..NumLayers
  BY DEF NextLayer, Orderly, BatchFollowsLatest
<1>3. r.pc = "loading" /\ r.from = runs[t].from /\ r.to = runs[t].to /\ r.layer = n + 1
  BY <1>1 DEF IInv, DataOK, Runs
<1>4. /\ \A u \in Callers : u # t => runs'[u] = runs[u]
      /\ runs'[t] = r
  BY <1>1 DEF IInv, DataOK
<1> HIDE DEF r
<1>5. loads = {} /\ \A u \in Callers : runs[u].pc = "loading" => u = t
  BY <1>1, OneLoading DEF OwnLoads
<1>6. OneCaller'
  BY <1>1, <1>3, <1>4 DEF Orderly, OneCaller, Busy, Callers
<1>7. BatchFollowsLatest'
  BY <1>1, <1>2, <1>3, <1>4 DEF Orderly, BatchFollowsLatest
<1>8. \A l \in loads' : /\ l.owner = t /\ l.from = runs[t].from /\ l.to = runs[t].to
                       /\ l.ind \in Layers[n + 1]
  BY <1>1, <1>5 DEF LayerLoads
<1>9. LoadsOfTheLayer'
  BY <1>3, <1>4, <1>8 DEF LoadsOfTheLayer
<1>10. \A i \in Indexers : Finished(t, i)' <=> Finished(t, i)
  <2> TAKE i \in Indexers
  <2>1. Finished(t, i) <=> \E m \in 1..n : i \in Layers[m]
    BY <1>1, <1>2 DEF Finished
  <2>2. i \in Layers[n + 1] => [ind |-> i, from |-> runs[t].from, to |-> runs[t].to,
                               owner |-> t] \in OwnLoads(t)'
    BY <1>1 DEF LayerLoads, OwnLoads
  <2>3. Finished(t, i)' <=> \E m \in 1..n : i \in Layers[m]
    <3>1. runs'[t].pc = "loading" /\ runs'[t].layer = n + 1 /\ runs'[t].layer - 1 = n
      BY <1>2, <1>3, <1>4
    <3> QED
      BY <2>2, <3>1 DEF Finished
  <2> QED
    BY <2>1, <2>3
<1>11. \A u \in Callers, i \in Indexers : u # t => ~Finished(u, i) /\ ~Finished(u, i)'
  BY <1>4, <1>5 DEF Finished
<1>12. \A i \in Indexers : \A k : HoldsUpTo(i, k)' <=> HoldsUpTo(i, k)
  BY <1>1 DEF HoldsUpTo
<1>13. \A u \in Callers, i \in Indexers : Finished(u, i)' <=> Finished(u, i)
  BY <1>10, <1>11
<1>14. \A u \in Callers, i \in Indexers : Finished(u, i) => runs'[u].to = runs[u].to
  BY <1>3, <1>4, <1>11
<1>15. BatchOrLatest'
  BY <1>1, <1>12, <1>13, <1>14 DEF Orderly, BatchOrLatest
<1> QED
  BY <1>6, <1>7, <1>9, <1>15 DEF Orderly

\* The last layer has resolved: every indexer is at the end of the batch, the new latest.
LEMMA LastLayerOrderly ==
    ASSUME IInv, Orderly, NEW t \in Callers, NEW r \in Runs, LastLayerDone(t),
           r.pc # "loading", r.pc # "idle" => t = Boot,
           runs' = [runs EXCEPT ![t] = r],
           UNCHANGED <<phase, loads, lastProcessed, applied>>
    PROVE  Orderly'
<1>1. runs[t].pc = "loading" /\ OwnLoads(t) = {} /\ runs[t].layer = NumLayers
      /\ latest' = runs[t].to
  BY DEF LastLayerDone
<1>2. /\ \A u \in Callers : u # t => runs'[u] = runs[u]
      /\ runs'[t] = r
  BY DEF IInv, DataOK
<1>3. loads = {} /\ \A u \in Callers : u # t => runs[u].pc = "idle"
  BY <1>1, OneLoading DEF OwnLoads, Orderly, OneCaller, Busy
<1>4. OneCaller'
  BY <1>1, <1>2, <1>3 DEF Orderly, OneCaller, Busy, Callers
<1>5. \A u \in Callers : runs'[u].pc # "loading"
  BY <1>2, <1>3
<1>6. \A i \in Indexers : Finished(t, i)
  <2> TAKE i \in Indexers
  <2>1. PICK m \in 1..NumLayers : i \in Layers[m]
    BY LayeringAssumption
  <2>2. m \in 1..(NumLayers - 1) \/ m = NumLayers
    BY <2>1
  <2> QED
    BY <1>1, <2>1, <2>2 DEF Finished
<1>7. \A i \in Indexers : HoldsUpTo(i, latest)'
  BY <1>1, <1>6 DEF Orderly, BatchOrLatest, HoldsUpTo
<1>8. BatchOrLatest'
  BY <1>5, <1>7 DEF BatchOrLatest, Finished
<1> QED
  BY <1>3, <1>4, <1>5, <1>8 DEF Orderly, BatchFollowsLatest, LoadsOfTheLayer

\* A load resolves: its indexer goes from latest to the end of the batch.
LEMMA LoadOrderly ==
    ASSUME IInv, Orderly, NEW l \in loads, LoadChecked(l) \/ LoadUnchecked(l)
    PROVE  Orderly'
<1> DEFINE t == l.owner
           i == l.ind
<1>1. /\ UNCHANGED <<phase, latest, runs>>
      /\ loads' = loads \ {l}
  BY DEF LoadChecked, LoadUnchecked
<1>2. /\ i \in Indexers /\ HoldsUpTo(i, latest)
      /\ l.from = latest + 1 /\ latest \in Nat /\ l.to \in Nat
      /\ l \in Load /\ l.from <= l.to
  BY InFlightAtLatest DEF IInv, DataOK, RangesOK
<1>3. /\ t \in Callers /\ runs[t].pc = "loading"
      /\ l.to = runs[t].to /\ i \in Layers[runs[t].layer]
      /\ runs[t].layer \in 1..NumLayers
  BY DEF Orderly, LoadsOfTheLayer, BatchFollowsLatest
<1>4. \A u \in Callers : runs[u].pc = "loading" => u = t
  BY <1>3, OneLoading
<1>5. /\ \A j \in Indexers : j # i => /\ applied'[j] = applied[j]
                                     /\ lastProcessed'[j] = lastProcessed[j]
      /\ \A b \in Blocks : applied'[i][b] = IF b \in Rows[i] /\ b <= l.to THEN 1 ELSE 0
      /\ i \in Checked => lastProcessed'[i] <= l.to
  <2>1. \A b \in Blocks : b \in Nat
    BY DEF Blocks
  <2>2. \A b \in Blocks : /\ b \in RowsOf(l) <=> b \in Rows[i] /\ latest < b /\ b <= l.to
                          /\ applied[i][b] = IF b \in Rows[i] /\ b <= latest THEN 1 ELSE 0
    BY <1>2, <2>1 DEF RowsOf, HoldsUpTo
  <2>3. RowsOf(l) \subseteq Blocks
    BY <1>2 DEF RowsOf, Blocks
  <2>4. ASSUME ApplyRows(i, RowsOf(l))
        PROVE  /\ \A j \in Indexers : j # i => applied'[j] = applied[j]
               /\ \A b \in Blocks :
                    applied'[i][b] = IF b \in Rows[i] /\ b <= l.to THEN 1 ELSE 0
    <3>1. /\ \A j \in Indexers : j # i => applied'[j] = applied[j]
          /\ \A b \in Blocks : applied'[i][b] =
                IF b \in RowsOf(l) THEN applied[i][b] + 1 ELSE applied[i][b]
      BY <1>2, <2>4, ApplyRowsType DEF IInv
    <3> QED
      BY <1>2, <2>1, <2>2, <3>1
  <2>5. CASE LoadChecked(l)
    <3>1. i \in Checked /\ ~Stale(l)
      BY <1>2, <2>5 DEF LoadChecked, Stale, HoldsUpTo, IInv, DataOK
    <3>2. CASE i \in CheckLate /\ RowsOf(l) = {}
      <4>1. UNCHANGED <<lastProcessed, applied>>
        BY <2>5, <3>2 DEF LoadChecked
      <4>2. \A b \in Blocks : b \in Rows[i] /\ b <= l.to => b <= latest
        BY <1>2, <2>1, <2>2, <3>2
      <4>3. lastProcessed[i] <= latest /\ lastProcessed[i] \in Nat
        BY <1>2, <3>1 DEF HoldsUpTo, IInv, DataOK
      <4>4. \A b \in Blocks : applied[i][b] = IF b \in Rows[i] /\ b <= l.to THEN 1 ELSE 0
        BY <1>2, <2>1, <2>2, <4>2
      <4> QED
        BY <1>2, <4>1, <4>3, <4>4
    <3>3. CASE ~(i \in CheckLate /\ RowsOf(l) = {})
      <4>1. lastProcessed' = [lastProcessed EXCEPT ![i] = l.to] /\ ApplyRows(i, RowsOf(l))
        BY <2>5, <3>1, <3>3 DEF LoadChecked
      <4>2. lastProcessed'[i] = l.to
            /\ \A j \in Indexers : j # i => lastProcessed'[j] = lastProcessed[j]
        BY <1>2, <4>1 DEF IInv, DataOK
      <4> QED
        BY <1>2, <2>4, <4>1, <4>2
    <3> QED
      BY <3>2, <3>3
  <2>6. CASE LoadUnchecked(l)
    BY <2>4, <2>6 DEF LoadUnchecked, Checked
  <2> QED
    BY <2>5, <2>6
<1>6. OneCaller' /\ BatchFollowsLatest' /\ LoadsOfTheLayer'
  BY <1>1 DEF Orderly, OneCaller, BatchFollowsLatest, LoadsOfTheLayer, Busy
<1>7. \A j \in Indexers : j # i => (Finished(t, j)' <=> Finished(t, j))
  BY <1>1 DEF Finished, OwnLoads
<1>8. Finished(t, i)'
  <2>1. \A k \in loads : k.owner = t /\ k.ind = i => k = l
    <3> TAKE k \in loads
    <3> HAVE k.owner = t /\ k.ind = i
    <3>1. k \in Load /\ k.from = latest + 1 /\ k.to = runs[t].to
      BY <1>3, InFlightAtLatest DEF IInv, DataOK, Orderly, LoadsOfTheLayer
    <3> QED
      BY <1>2, <1>3, <3>1 DEF Load
  <2> QED
    BY <1>1, <1>3, <2>1 DEF Finished, OwnLoads
<1>9. \A u \in Callers, j \in Indexers : u # t => ~Finished(u, j) /\ ~Finished(u, j)'
  BY <1>1, <1>4 DEF Finished
<1>10. HoldsUpTo(i, runs[t].to)'
  BY <1>1, <1>3, <1>5 DEF HoldsUpTo
<1>11. \A j \in Indexers : j # i => \A k : HoldsUpTo(j, k)' <=> HoldsUpTo(j, k)
  BY <1>5 DEF HoldsUpTo
<1>12. BatchOrLatest'
  <2> SUFFICES ASSUME NEW j \in Indexers
               PROVE  /\ \A u \in Callers : Finished(u, j)' => HoldsUpTo(j, runs[u].to)'
                      /\ (\A u \in Callers : ~Finished(u, j)') => HoldsUpTo(j, latest)'
    BY DEF BatchOrLatest
  <2>1. CASE j = i
    BY <1>3, <1>8, <1>9, <1>10, <2>1
  <2>2. CASE j # i
    <3>1. \A u \in Callers : Finished(u, j)' <=> Finished(u, j)
      BY <1>7, <1>9, <2>2
    <3>2. \A k : HoldsUpTo(j, k)' <=> HoldsUpTo(j, k)
      BY <1>11, <2>2
    <3> QED
      BY <1>1, <3>1, <3>2 DEF Orderly, BatchOrLatest
  <2> QED
    BY <2>1, <2>2
<1> QED
  BY <1>6, <1>12 DEF Orderly

\* Every step keeps the index orderly until something disturbs the watcher.
LEMMA NextOrderly ==
    ASSUME IInv, IInv', OrderlyUnlessDisturbed, [Next]_vars
    PROVE  OrderlyUnlessDisturbed'
<1> SUFFICES ASSUME ~disturbed' PROVE Orderly'
  BY DEF OrderlyUnlessDisturbed
<1>0. ~Restart => ~disturbed
  BY Zenon DEF Next, vars, NewBlock, BootStep, BootRead, CatchUp, Watch, CatchUpBatchDone,
     LastLayerDone, NextLayer, TickSkip, TickStart, TickStep, TickAnswered, TickNothingNew,
     TickIndex, TickDone, TickQueryFails, LoadStep, LoadChecked, LoadUnchecked,
     LoadDuplicate, LoadFails, Reject
<1>1. CASE Restart
  BY <1>1 DEF Restart, FreshIndex, Orderly, OneCaller, BatchFollowsLatest, LoadsOfTheLayer,
     BatchOrLatest, Finished, HoldsUpTo, Busy, IdleRun, Callers, Checked, Blocks
<1> SUFFICES ASSUME ~Restart PROVE Orderly'
  BY <1>1
<1>2. Orderly
  BY <1>0 DEF OrderlyUnlessDisturbed
<1>3. \A t \in Callers : runs[t] \in Runs
  BY RunType DEF IInv
<1>4. IdleRun \in Runs /\ IdleRun.pc = "idle"
  BY DEF IdleRun, Runs
<1>5. CASE UNCHANGED <<phase, latest, runs, loads, lastProcessed, applied>>
  BY <1>2, <1>5 DEF Orderly, OneCaller, BatchFollowsLatest, LoadsOfTheLayer, BatchOrLatest,
     Finished, OwnLoads, HoldsUpTo, Busy
<1>6. CASE BootRead
  <2> DEFINE r == [IdleRun EXCEPT !.pc = "asked", !.tip = dbTip]
  <2>1. /\ runs[Boot].pc # "loading" /\ phase = "boot"
        /\ runs' = [runs EXCEPT ![Boot] = r]
        /\ UNCHANGED <<phase, latest, loads, lastProcessed, applied>>
    BY <1>6 DEF BootRead
  <2>2. r \in Runs /\ r.pc = "asked"
    BY <1>4, RunRecords DEF IInv, DataOK
  <2> HIDE DEF r
  <2>3. BatchFollowsLatest' /\ LoadsOfTheLayer' /\ BatchOrLatest'
    BY <1>2, <2>1, <2>2, CallerMoves, CallersType
  <2>4. OneCaller'
    BY <1>2, <2>1 DEF Orderly, OneCaller, Busy, Callers
  <2> QED
    BY <2>3, <2>4 DEF Orderly
<1>7. CASE CatchUp
  BY <1>2, <1>7, BeginOrderly, CallersType DEF CatchUp
<1>8. CASE Watch
  <2>1. /\ runs[Boot].pc = "asked"
        /\ runs' = [runs EXCEPT ![Boot] = IdleRun]
        /\ UNCHANGED <<latest, loads, lastProcessed, applied>>
        /\ phase' = "watch"
    BY <1>8 DEF Watch
  <2>2. BatchFollowsLatest' /\ LoadsOfTheLayer' /\ BatchOrLatest'
    BY <1>2, <1>4, <2>1, CallerMoves, CallersType
  <2>3. \A u \in Ticks : runs[u].pc = "idle" /\ runs'[u] = runs[u]
    BY <1>2, <2>1, CallersType DEF Orderly, OneCaller, Busy, Callers, IInv, DataOK
  <2>4. runs'[Boot] = IdleRun
    BY <2>1, CallersType DEF IInv, DataOK
  <2>5. OneCaller'
    BY <1>4, <2>1, <2>3, <2>4 DEF OneCaller, Busy, Callers
  <2> QED
    BY <2>2, <2>5 DEF Orderly
<1>9. CASE CatchUpBatchDone
  <2> DEFINE r == [IdleRun EXCEPT !.pc = "asked", !.tip = runs[Boot].tip]
  <2>1. /\ LastLayerDone(Boot)
        /\ runs' = [runs EXCEPT ![Boot] = r]
        /\ UNCHANGED <<phase, loads, lastProcessed, applied>>
    BY <1>9 DEF CatchUpBatchDone
  <2>2. r \in Runs /\ r.pc = "asked" /\ Boot \in Callers
    BY <1>3, <1>4, RunRecords, CallersType
  <2> HIDE DEF r
  <2> QED
    BY <1>2, <2>1, <2>2, LastLayerOrderly
<1>10. ASSUME NEW t \in Callers, NextLayer(t) PROVE Orderly'
  BY <1>2, <1>10, NextLayerOrderly
<1>11. ASSUME NEW t \in Ticks, TickStart(t) PROVE Orderly'
  <2> DEFINE r == [IdleRun EXCEPT !.pc = "asking"]
  <2>1. /\ runs[t].pc = "idle" /\ phase = "watch" /\ t \in Callers
        /\ runs' = [runs EXCEPT ![t] = r]
        /\ UNCHANGED <<phase, latest, loads, lastProcessed, applied>>
    BY <1>11 DEF TickStart, Busy, Callers
  <2>2. r \in Runs /\ r.pc = "asking"
    BY DEF IdleRun, Runs
  <2> HIDE DEF r
  <2>3. BatchFollowsLatest' /\ LoadsOfTheLayer' /\ BatchOrLatest'
    BY <1>2, <2>1, <2>2, CallerMoves
  <2>4. \A u \in Ticks : ~Busy(u)
    BY <1>11, Zenon DEF TickStart
  <2>5. ~Busy(Boot)
    BY <1>2, <2>1 DEF Orderly, OneCaller
  <2>6. \A u \in Callers : u # t => ~Busy(u)'
    BY <2>1, <2>4, <2>5 DEF Busy, Callers, IInv, DataOK
  <2>7. t # Boot
    OBVIOUS
  <2>8. OneCaller'
    BY <2>1, <2>6, <2>7 DEF OneCaller, Callers
  <2> QED
    BY <2>3, <2>8 DEF Orderly
<1>12. ASSUME NEW t \in Ticks, TickAnswered(t) PROVE Orderly'
  <2> DEFINE r == [runs[t] EXCEPT !.pc = "asked", !.tip = dbTip]
  <2>1. /\ runs[t].pc = "asking" /\ t \in Callers
        /\ runs' = [runs EXCEPT ![t] = r]
        /\ UNCHANGED <<phase, latest, loads, lastProcessed, applied>>
    BY <1>12 DEF TickAnswered, Callers
  <2>2. r \in Runs /\ r.pc = "asked"
    BY <1>3, <2>1, RunRecords DEF IInv, DataOK
  <2> HIDE DEF r
  <2>3. BatchFollowsLatest' /\ LoadsOfTheLayer' /\ BatchOrLatest'
    BY <1>2, <2>1, <2>2, CallerMoves
  <2>4. OneCaller'
    <3>1. Busy(t) /\ \A u \in Callers : u # t => runs'[u] = runs[u]
      BY <2>1 DEF Busy, IInv, DataOK
    <3>2. \A u \in Callers : Busy(u)' => Busy(u)
      BY <3>1 DEF Busy
    <3> QED
      BY <1>2, <2>1, <3>2 DEF Orderly, OneCaller, Callers
  <2> QED
    BY <2>3, <2>4 DEF Orderly
<1>13. ASSUME NEW t \in Ticks, TickNothingNew(t) \/ TickQueryFails(t) PROVE Orderly'
  <2>1. /\ runs[t].pc # "loading" /\ t \in Callers
        /\ runs' = [runs EXCEPT ![t] = IdleRun]
        /\ UNCHANGED <<phase, latest, loads, lastProcessed, applied>>
    BY <1>13 DEF TickNothingNew, TickQueryFails, Callers
  <2>2. BatchFollowsLatest' /\ LoadsOfTheLayer' /\ BatchOrLatest'
    BY <1>2, <1>4, <2>1, CallerMoves
  <2>3. \A u \in Callers : Busy(u)' => Busy(u)
    BY <1>4, <2>1 DEF Busy, IInv, DataOK
  <2>4. OneCaller'
    BY <1>2, <2>1, <2>3 DEF Orderly, OneCaller, Callers
  <2> QED
    BY <2>2, <2>4 DEF Orderly
<1>14. ASSUME NEW t \in Ticks, TickIndex(t) PROVE Orderly'
  BY <1>2, <1>14, BeginOrderly, CallersType DEF TickIndex
<1>15. ASSUME NEW t \in Ticks, TickDone(t) PROVE Orderly'
  <2>1. /\ LastLayerDone(t) /\ t \in Callers
        /\ runs' = [runs EXCEPT ![t] = IdleRun]
        /\ UNCHANGED <<phase, loads, lastProcessed, applied>>
    BY <1>15 DEF TickDone, Callers
  <2> QED
    BY <1>2, <1>4, <2>1, LastLayerOrderly
<1>16. ASSUME NEW l \in loads, LoadChecked(l) \/ LoadUnchecked(l) PROVE Orderly'
  BY <1>2, <1>16, LoadOrderly
<1>17. ASSUME NEW l \in loads, LoadDuplicate(l) \/ LoadFails(l) PROVE FALSE
  BY <1>17, Zenon DEF LoadDuplicate, LoadFails, Reject
<1> QED
  BY <1>5, <1>6, <1>7, <1>8, <1>9, <1>10, <1>11, <1>12, <1>13, <1>14, <1>15, <1>16, <1>17
     DEF Next, vars, NewBlock, BootStep, TickSkip, TickStep, LoadStep, Callers

\* The index is orderly in every reachable state that nothing has disturbed.
LEMMA OrderlyInductive == Spec => []OrderlyUnlessDisturbed
<1>1. Init => OrderlyUnlessDisturbed
  BY DEF Init, FreshIndex, OrderlyUnlessDisturbed, Orderly, OneCaller, BatchFollowsLatest,
     LoadsOfTheLayer, BatchOrLatest, Finished, HoldsUpTo, Busy, IdleRun, Callers, Checked,
     Blocks
<1>2. IInv /\ IInv' /\ OrderlyUnlessDisturbed /\ [Next]_vars => OrderlyUnlessDisturbed'
  BY NextOrderly
<1> QED
  BY <1>1, <1>2, Inductive, PTL DEF Spec

\* indexWatcher.ts: as long as no ticks overlap and no load fails, every indexer holds
\* every row of every block up to latest, exactly once, whatever the layers and batches.
THEOREM IndexComplete == Spec => []CompleteUnlessDisturbed
<1>1. IInv /\ OrderlyUnlessDisturbed => CompleteUnlessDisturbed
  <2> SUFFICES ASSUME IInv, Orderly, NEW i \in Indexers, NEW b \in Rows[i] \cap (1..latest)
               PROVE  applied[i][b] = 1
    BY DEF OrderlyUnlessDisturbed, CompleteUnlessDisturbed
  <2>1. b \in Blocks /\ b \in Nat /\ latest \in Nat
    BY DEF IInv, DataOK, Blocks
  <2>2. CASE \E t \in Callers : Finished(t, i)
    <3>1. PICK t \in Callers : Finished(t, i)
      BY <2>2
    <3>2. runs[t].from = latest + 1 /\ runs[t].from <= runs[t].to /\ runs[t].to \in Nat
      BY <3>1, RunType DEF Finished, Orderly, BatchFollowsLatest, IInv, RangesOK, Runs
    <3>3. HoldsUpTo(i, runs[t].to)
      BY <3>1 DEF Orderly, BatchOrLatest
    <3> QED
      BY <2>1, <3>2, <3>3 DEF HoldsUpTo
  <2>3. CASE ~\E t \in Callers : Finished(t, i)
    BY <2>1, <2>3 DEF Orderly, BatchOrLatest, HoldsUpTo
  <2> QED
    BY <2>2, <2>3
<1> QED
  BY <1>1, Inductive, OrderlyInductive, PTL

\* index(): as long as no ticks overlap and no load fails, an indexer never holds a block
\* that an indexer of a layer before it has yet to load, also in the middle of a batch.
THEOREM LayersInOrder == Spec => []LayersInOrderUnlessDisturbed
<1>1. IInv /\ OrderlyUnlessDisturbed => LayersInOrderUnlessDisturbed
  <2> SUFFICES ASSUME IInv, Orderly,
                      NEW n \in 1..NumLayers, NEW m \in 1..(n - 1),
                      NEW i \in Layers[n], NEW j \in Layers[m],
                      NEW b \in Rows[i] \cap Rows[j], applied[i][b] > 0
               PROVE  applied[j][b] > 0
    BY DEF OrderlyUnlessDisturbed, LayersInOrderUnlessDisturbed
  <2>1. /\ m \in 1..NumLayers /\ i \in Indexers /\ j \in Indexers
        /\ b \in Blocks /\ b \in Nat /\ latest \in Nat
    BY DEF IInv, DataOK, Blocks
  <2>2. ASSUME NEW t \in Callers, Finished(t, i) PROVE applied[j][b] > 0
    <3>1. runs[t].layer \in 1..NumLayers /\ runs[t].pc = "loading"
      BY <2>2 DEF Finished, Orderly, BatchFollowsLatest
    <3>2. \A k \in 1..NumLayers : i \in Layers[k] => k = n
      BY LayeringAssumption
    <3>3. n <= runs[t].layer
      BY <2>2, <3>1, <3>2 DEF Finished
    <3>4. Finished(t, j)
      <4>1. m \in 1..(runs[t].layer - 1)
        BY <3>1, <3>3
      <4> QED
        BY <3>1, <4>1 DEF Finished
    <3>5. HoldsUpTo(i, runs[t].to) /\ HoldsUpTo(j, runs[t].to)
      BY <2>1, <2>2, <3>4 DEF Orderly, BatchOrLatest
    <3> QED
      BY <2>1, <3>5 DEF HoldsUpTo
  <2>3. CASE \A t \in Callers : ~Finished(t, i)
    <3>1. b <= latest
      BY <2>1, <2>3 DEF Orderly, BatchOrLatest, HoldsUpTo
    <3>2. CASE \E t \in Callers : Finished(t, j)
      <4>1. PICK t \in Callers : Finished(t, j)
        BY <3>2
      <4>2. runs[t].from = latest + 1 /\ runs[t].from <= runs[t].to /\ runs[t].to \in Nat
        BY <4>1, RunType DEF Finished, Orderly, BatchFollowsLatest, IInv, RangesOK, Runs
      <4>3. HoldsUpTo(j, runs[t].to)
        BY <2>1, <4>1 DEF Orderly, BatchOrLatest
      <4> QED
        BY <2>1, <3>1, <4>2, <4>3 DEF HoldsUpTo
    <3>3. CASE ~\E t \in Callers : Finished(t, j)
      BY <2>1, <3>1, <3>3 DEF Orderly, BatchOrLatest, HoldsUpTo
    <3> QED
      BY <3>2, <3>3
  <2> QED
    BY <2>2, <2>3
<1> QED
  BY <1>1, Inductive, OrderlyInductive, PTL

=============================================================================
