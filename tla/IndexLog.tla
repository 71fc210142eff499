------------------------------ MODULE IndexLog ------------------------------
(***************************************************************************)
(* What an in-memory index of the API promises about the blocks it loads:  *)
(* each block's rows are applied at most once and blocks are applied in    *)
(* ascending order, whatever the watcher that drives it does.  This is the *)
(* contract of Indexer.updateLastProcessedCheckStale; module IndexWatcher  *)
(* implements it.  Nothing is promised about blocks never applied.         *)
(***************************************************************************)
EXTENDS Naturals

CONSTANTS
    Indexers,   \* the indexers that keep the promise
    Blocks      \* block numbers

VARIABLE log    \* log[i][b]: how often indexer i applied the rows of block b

LogTypeOK == log \in [Indexers -> [Blocks -> Nat]]

Empty == [i \in Indexers |-> [b \in Blocks |-> 0]]

Init == log = Empty

\* A batch S may be appended only above everything applied before.
Append(i, S) ==
    /\ \A b \in S, c \in Blocks : log[i][c] > 0 => c < b
    /\ log' = [log EXCEPT ![i] =
                  [b \in Blocks |-> IF b \in S THEN @[b] + 1 ELSE @[b]]]

\* The process restarts: the index lives in memory only.
Reset == log' = Empty

Next ==
    \/ \E i \in Indexers, S \in SUBSET Blocks : Append(i, S)
    \/ Reset

Spec == Init /\ [][Next]_log

-----------------------------------------------------------------------------
\* No row is ever applied twice: a balance counts each transfer once.
AppliedOnce == \A i \in Indexers, b \in Blocks : log[i][b] <= 1

=============================================================================
