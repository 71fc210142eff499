--------------------------- MODULE TransferClogs ---------------------------
(***************************************************************************)
(* How the API tells the transfers of the home coin: homeCoinIndexer.ts    *)
(* makes one line of history of each, with what came before it or after    *)
(* it in a swap or on another chain, and with the fee of its operation.    *)
(* It asks ForeignCoins for the receipts of swaps and ClogMatcher.ts for   *)
(* the other transfers of the transaction, which are loaded beside the     *)
(* indexers and not awaited by them.  The rows of a transaction come in    *)
(* any order, and a search among them may find any.                        *)
(* Links, requests and memos are left out; a transaction holds one user    *)
(* operation at most, as those of the API do.                              *)
(***************************************************************************)
EXTENDS ForeignCoins, SequencesExt

CONSTANTS
    MaxHome        \* bound: transactions in the home coin alone

ASSUME ClogsAssumption == MaxHome \in Nat

VARIABLES
    startSeen,     \* arrivals whose Start event, on another chain, is in the index
    matched,       \* txHashToTransfers
    missed,        \* arrivals that were matched before their Start event was there
    due            \* ranges of loadClogTransfers and loadCrossChainClogs under way

chainVars == <<txs, startSeen>>
vars == <<chainVars, tip, foreignVars, matched, missed, due>>

Kinds == {"name", "receive", "send", "swap", "pay", "paySwapped", "bridge", "arrive"}
\* Its moves, and whether they are of a user operation.
Tx == [kind : Kinds, acct : Accounts, op : BOOLEAN, moves : Seq(Move), held : [Accounts \X Coins -> Nat]]
Range2 == [load : {"transfers", "starts", "crossChain"}, from : 1..MaxTxs, to : 1..MaxTxs]
\* A transfer of a transaction, or the end of one that is on another chain.
Match == [token : Coins, from : Addresses, to : Addresses, value : Nat, away : BOOLEAN]

TypeOK ==
    /\ txs \in Seq(Tx) /\ Len(txs) \in 1..MaxTxs
    /\ CoinsTypeOK
    /\ startSeen \subseteq 1..Len(txs)
    /\ matched \in [1..MaxTxs -> SUBSET Match]
    /\ missed \subseteq 1..Len(txs)
    /\ due \subseteq Range2

Move1(k, from, to, v) == [token |-> k, from |-> from, to |-> to, value |-> v]

\* What the accounts hold after a transaction.
Moved(held, rows) ==
    [p \in Accounts \X Coins |-> held[p] + SumOf(InOf(rows, p[1], p[2])) - SumOf(OutOf(rows, p[1], p[2]))]

TxOf(i, kind, a, op, moves, held) ==
    [kind |-> kind, acct |-> a, op |-> op, moves |-> moves, held |-> Moved(held, LogsOf(i, moves))]

\* The first transaction gives every account some of the home coin and one receipt of a token,
\* and perhaps its name to one.
Grant(kind, k, v) ==
    TxOf(1, kind, CHOOSE a \in Accounts : TRUE, FALSE,
         SetToSeq({Move1(Home, Outside, a, 9) : a \in Accounts} \cup {Move1(k, Outside, a, v) : a \in Accounts}),
         [p \in Accounts \X Coins |-> 0])

Init ==
    /\ \E kind \in {"receive", "name"}, k \in Tokens : \E v \in Amounts[k] : txs = <<Grant(kind, k, v)>>
    /\ tip = 0 /\ Nothing
    /\ startSeen = {} /\ due = {} /\ missed = {}
    /\ matched = [i \in 1..MaxTxs |-> {}]

----------------------------------------------------------------------------
(* The chain. *)

\* No account sends more than it has.
Add(kind, a, op, moves) ==
    LET n == Len(txs)
        rows == LogsOf(n + 1, moves)
    IN  /\ n < MaxTxs
        /\ \A b \in Accounts, k \in Coins : SumOf(OutOf(rows, b, k)) <= Held(b, k, n)
        /\ txs' = Append(txs, TxOf(n + 1, kind, a, op, moves, txs[n].held))
        /\ UNCHANGED <<startSeen, tip, foreignVars, matched, missed, due>>

HomeKinds == {"pay", "paySwapped", "bridge", "arrive"}
AddHome(kind, a, op, moves) ==
    /\ Cardinality({i \in DOMAIN txs : txs[i].kind \in HomeKinds}) < MaxHome
    /\ Add(kind, a, op, moves)

\* An operation of an account that pays for it in the home coin has a part of the fee returned.
WithFee(a, moves) == <<Move1(Home, a, Paymaster, 2)>> \o moves \o <<Move1(Home, Paymaster, a, 1)>>

RegisterName(a) == a \notin Named(Len(txs)) /\ Add("name", a, FALSE, <<>>)

\* Somebody sends some of one token, or of several at once.
ReceiveTokens(a) == \E S \in SUBSET Tokens \ {{}} : \E v \in [S -> AllAmounts] :
    /\ \A k \in S : v[k] \in Amounts[k]
    /\ Add("receive", a, FALSE, SetToSeq({Move1(k, Outside, a, v[k]) : k \in S}))

\* The account swaps some of a token, or sends it on.
SwapTokens(a) == \E k \in Tokens : \E v \in Amounts[k] :
    Add("swap", a, TRUE, <<Move1(k, a, Dex, v), Move1(Home, Dex, a, v)>>)
SendTokens(a) == \E k \in Tokens : \E v \in Amounts[k] : \E to \in (Accounts \cup {Outside}) \ {a} :
    Add("send", a, TRUE, <<Move1(k, a, to, v)>>)

\* It pays in the home coin, in a token it buys with it, or on another chain.
PayHome(a) == \E v \in Amounts[Home] : \E to \in (Accounts \cup {Outside}) \ {a} :
    LET moves == <<Move1(Home, a, to, v)>>
    IN  AddHome("pay", a, TRUE, moves) \/ AddHome("pay", a, TRUE, WithFee(a, moves))
PaySwapped(a) == \E v \in Amounts[Home], k \in Tokens :
    LET moves == <<Move1(Home, a, Dex, v), Move1(k, Dex, Outside, v)>>
    IN  AddHome("paySwapped", a, TRUE, moves) \/ AddHome("paySwapped", a, TRUE, WithFee(a, moves))
Bridge(a) == \E v \in Amounts[Home] : AddHome("bridge", a, TRUE, <<Move1(Home, a, Cctp, v)>>)

\* A transfer that somebody started on another chain is fast finished.
Arrive(a) == \E v \in Amounts[Home] : AddHome("arrive", a, FALSE, <<Move1(Home, Cctp, a, v)>>)

\* The index of that chain has caught up with the start of transfer i.
IndexStart(i) ==
    /\ i \in 1..Len(txs) \ startSeen /\ txs[i].kind = "arrive"
    /\ startSeen' = startSeen \cup {i}
    /\ UNCHANGED <<txs, tip, foreignVars, matched, missed, due>>

ChainStep ==
    \/ \E a \in Accounts :
         \/ RegisterName(a) \/ ReceiveTokens(a) \/ SwapTokens(a) \/ SendTokens(a)
         \/ PayHome(a) \/ PaySwapped(a) \/ Bridge(a) \/ Arrive(a)
    \/ \E i \in 1..MaxTxs : IndexStart(i)

----------------------------------------------------------------------------
(* The API. *)

Ops(from, to) == {i \in from..to : txs[i].op}
Arrivals(from, to) == {i \in from..to : txs[i].kind = "arrive"}

\* Slip: the queries start after the block they should start from.
LateLoads(n) ==
    (IF Ops(tip + 1, n) = {} THEN {} ELSE {[load |-> "transfers", from |-> tip + 2, to |-> n]}) \cup
    (IF Arrivals(tip + 1, n) = {} THEN {} ELSE {[load |-> "crossChain", from |-> tip + 2, to |-> n]})
\* What opIndexer and homeCoinIndexer start and leave behind, but for the queries that will
\* find nothing.
Loads(n) ==
    (IF Ops(tip + 1, n) = {} THEN {} ELSE {[load |-> "transfers", from |-> tip + 1, to |-> n]}) \cup
    (IF Arrivals(tip + 1, n) = {} THEN {} ELSE {[load |-> "crossChain", from |-> tip + 1, to |-> n]})

\* A tick: the layers load the blocks up to n, one after the other.
Load(n) ==
    /\ tip < n /\ n <= Len(txs)
    /\ tip' = n
    /\ LoadForeign(n)
    /\ due' = due \cup Loads(n)
    /\ UNCHANGED <<chainVars, matched, missed>>

Here(i) == {[token |-> r.token, from |-> r.from, to |-> r.to, value |-> r.value, away |-> FALSE] : r \in RowsOf(i)}
\* The other end of a transfer to or from another chain.
Start(i) == IF txs[i].kind = "bridge"
            THEN {[token |-> Home, from |-> txs[i].acct, to |-> Outside, value |-> txs[i].moves[1].value, away |-> TRUE]}
            ELSE {}
Origin(i) == [token |-> Home, from |-> Outside, to |-> txs[i].acct, value |-> txs[i].moves[1].value, away |-> TRUE]

\* loadClogTransfers: the transfers of the operations in the range, then, by another query, their
\* starts on other chains.
LoadClogTransfers(d) ==
    /\ d.load = "transfers"
    /\ matched' = [i \in 1..MaxTxs |-> IF i \in Ops(d.from, d.to) THEN matched[i] \cup Here(i) ELSE matched[i]]
    /\ due' = (due \ {d}) \cup {[d EXCEPT !.load = "starts"]}
    /\ UNCHANGED <<chainVars, tip, foreignVars, missed>>
LoadStarts(d) ==
    /\ d.load = "starts"
    /\ matched' = [i \in 1..MaxTxs |-> IF i \in Ops(d.from, d.to) THEN matched[i] \cup Start(i) ELSE matched[i]]
    /\ due' = due \ {d}
    /\ UNCHANGED <<chainVars, tip, foreignVars, missed>>

\* loadCrossChainClogs: where the transfers in the range came from, if that is indexed.
LoadCrossChain(d) ==
    /\ d.load = "crossChain"
    /\ matched' = [i \in 1..MaxTxs |->
                     IF i \in Arrivals(d.from, d.to) \cap startSeen THEN matched[i] \cup {Origin(i)} ELSE matched[i]]
    /\ missed' = missed \cup (Arrivals(d.from, d.to) \ startSeen)
    /\ due' = due \ {d}
    /\ UNCHANGED <<chainVars, tip, foreignVars>>

\* The API starts again, and indexes the chain from its beginning.  A query that has used
\* up its retries ends it: nobody handles what a load that is not awaited throws.
Restart ==
    /\ tip' = 0
    /\ inbox' = [p \in Accounts \X Tokens |-> 0]
    /\ pending' = [a \in Accounts |-> {}]
    /\ receiveOf' = [p \in Accounts \X (1..MaxTxs) |-> None]
    /\ unmatched' = {}
    /\ matched' = [i \in 1..MaxTxs |-> {}] /\ due' = {} /\ missed' = {}
    /\ UNCHANGED chainVars

Clogs == \E d \in due : LoadClogTransfers(d) \/ LoadStarts(d) \/ LoadCrossChain(d)
Tick == \E n \in 1..MaxTxs : Load(n)
Next == ChainStep \/ Tick \/ Clogs \/ Restart

Spec == Init /\ [][Next]_vars
\* The watcher ticks for ever, and the queries it leaves behind are answered.
FairSpec == Spec /\ WF_vars(Tick) /\ WF_vars(Clogs) /\ \A i \in 1..MaxTxs : WF_vars(IndexStart(i))

----------------------------------------------------------------------------
(* What is shown. *)

\* The searches of getMatchingSwapTransfer: from a transfer out of an address, each step goes
\* on with a transfer not visited from where the last one went, for as long as there is one.
Walks(from, rows) ==
    {w \in UNION {[1..n -> rows] : n \in 1..Cardinality(rows)} :
        /\ w[1].from = from
        /\ \A i, j \in DOMAIN w : w[i] = w[j] => i = j
        /\ \A i \in 1 .. Len(w) - 1 : w[i + 1].from = w[i].to
        /\ \A r \in rows \ Range(w) : r.from # Last(w).to}

\* The ends of those that change the coin, or None.
Swapped(from, rows) ==
    IF \A r \in rows : r.from # from THEN {None}
    ELSE {IF Last(w).token = w[1].token THEN None ELSE Last(w) : w \in Walks(from, rows)}

Away(i) == {r \in matched[i] : r.away}
OneOf(S) == IF S = {} THEN {None} ELSE S

\* Slip: an inbound transfer comes from any transfer of its transaction.
CorrespondingAny(r, inbound) ==
    IF matched[r.tx] = {} THEN {None}
    ELSE IF r.to = Cctp \/ inbound THEN matched[r.tx]
    ELSE Swapped(r.from, matched[r.tx])
\* getCorrespondingTransfer, with what it may find.
Corresponding(r, inbound) ==
    IF matched[r.tx] = {} THEN {None}
    ELSE IF r.to = Cctp \/ inbound THEN OneOf(Away(r.tx))
    ELSE Swapped(r.from, matched[r.tx])

WithPaymaster(r) == Paymaster \in {r.from, r.to}

\* createTransferClog for an account: the transfer before this one, and the one after it.
PreSwap(r, a) ==
    IF r.to # a \/ WithPaymaster(r) THEN {None}
    ELSE IF ReceiveForSwap(a, r.tx) # None THEN {ReceiveForSwap(a, r.tx)}
    ELSE Corresponding(r, TRUE)
PostSwap(r, a) == IF r.from # a \/ WithPaymaster(r) THEN {None} ELSE Corresponding(r, FALSE)

\* attachFeeAmounts, of the transfers of one operation.
Fee(rows) == SumOf({r \in rows : r.to = Paymaster}) - SumOf({r \in rows : r.from = Paymaster})

\* filterTransfers, of one transaction: the transfers of the account, and those that are shown.
HomeRows(i, a) == {r \in RowsOf(i) : r.token = Home /\ a \in {r.from, r.to}}
Shown(i, a) == {r \in HomeRows(i, a) : ~WithPaymaster(r)}
FeeOf(i, a) == IF txs[i].op THEN Fee(HomeRows(i, a)) ELSE 0

------------------------------------------------------------------------------
(* Properties *)

Ends(r) == <<r.token, r.from, r.to, r.value>>

\* A line of history never tells of a swap or of another chain what did not happen: the origin
\* of money is a receipt of the same account that the operation swapped, or the start of the
\* transfer on the other chain; its destination is what its operation bought or bridged.
EndsAreReal == \A a \in Accounts, i \in 1..tip : \A r \in Shown(i, a) :
    /\ \A m \in PreSwap(r, a) \ {None} :
         \/ txs[i].kind = "arrive" /\ m = Origin(i)
         \/ txs[i].kind = "swap" /\ m.to = a /\ m.token = txs[i].moves[1].token /\ m.value = txs[i].moves[1].value
    /\ \A m \in PostSwap(r, a) \ {None} :
         \/ txs[i].kind = "bridge" /\ m \in Start(i)
         \/ txs[i].kind = "paySwapped" /\ m.to = Outside /\ m.token # Home /\ m.value = r.value

\* An account pays what it is shown to pay: its transfers and fees are all there, and add up to
\* the change of its balance.
ShownAddsUp == \A a \in Accounts, i \in 2..tip :
    Held(a, Home, i) - Held(a, Home, i - 1) =
        SumOf({r \in Shown(i, a) : r.to = a}) - SumOf({r \in Shown(i, a) : r.from = a}) - FeeOf(i, a)

\* The history shown is true: in what came before and after, in its amounts and fees, and in
\* that no receipt is the origin of two swaps.
ClogsTellTruth == EndsAreReal /\ ShownAddsUp /\ SwappedOnce

\* Transaction i is told in full.
HasFee(i) == \E r \in RowsOf(i) : WithPaymaster(r)
Told(i) == i <= tip /\ \A r \in Shown(i, txs[i].acct) :
    /\ txs[i].kind = "swap" /\ txs[i].acct \notin unmatched /\ TokensCameApart(txs[i].acct)
         => None \notin PreSwap(r, txs[i].acct)
    /\ txs[i].kind = "arrive" /\ i \notin missed => None \notin PreSwap(r, txs[i].acct)
    /\ txs[i].kind = "bridge" \/ (txs[i].kind = "paySwapped" /\ ~HasFee(i)) => None \notin PostSwap(r, txs[i].acct)
\* A swap or a bridged payment is told in full in the end, whatever the order of the loads and
\* wherever the API stopped, once it keeps running.
ToldInTheEnd == <>[][~Restart]_vars => \A i \in 1..MaxTxs : <>[](i <= Len(txs) => Told(i))

=============================================================================
