--------------------------- MODULE MCIndexWatcher ---------------------------
(* Instances of IndexWatcher for TLC. *)
EXTENDS IndexWatcher, TLC

CONSTANTS name, op, request, coin    \* one indexer of each kind

\* server.ts adds [nameReg, keyReg, opIndexer], [noteIndexer, requestIndexer,
\* foreignCoinIndexer], [homeCoinIndexer]; these four stand for the kinds.
AllIndexers == {name, op, request, coin}
ThreeLayers == <<{name, op}, {request}, {coin}>>

\* Blocks with rows: the op indexer has an empty block, so its late check matters.
SomeRows ==
    (name :> {1, 2}) @@ (op :> {1, 3}) @@ (request :> {2}) @@ (coin :> {1, 2, 3})
=============================================================================
