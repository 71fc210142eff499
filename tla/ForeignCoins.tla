---------------------------- MODULE ForeignCoins ----------------------------
(***************************************************************************)
(* foreignCoinIndexer.ts.  An account receives tokens other than its home  *)
(* coin; the API keeps those it may still swap as pending, proposes them   *)
(* to the phone, and tells of each swap which receipt it came from.  It    *)
(* knows only what the logs of transfers say, those of the accounts that   *)
(* had a name when the logs were loaded.  A list of logs is the set of     *)
(* them here, in the order of their places on the chain.  Quotes, dust and *)
(* the tokens that are not in the registry are left out; a block holds one *)
(* transaction, and a transaction at most one swap.  A definition          *)
(* introduced as a slip is a wrong form of the one after it and not part   *)
(* of the specification.                                                   *)
(***************************************************************************)
EXTENDS Integers, FiniteSets, Sequences

CONSTANTS
    Accounts,      \* accounts of the app
    Tokens,        \* foreign tokens
    Home,          \* the home coin
    Amounts,       \* Amounts[k]: amounts of token k that are sent
    Outside, Dex, Paymaster, Cctp,   \* other addresses
    MaxTxs,        \* bound: transactions on the chain
    None

ASSUME CoinsAssumption ==
    /\ IsFiniteSet(Accounts) /\ Accounts # {} /\ IsFiniteSet(Tokens)
    /\ Home \notin Tokens
    /\ Amounts \in [Tokens \cup {Home} -> SUBSET (Nat \ {0})]
    /\ Accounts \cap {Outside, Dex, Paymaster, Cctp} = {}
    /\ Outside \notin {Dex, Paymaster, Cctp} /\ Dex \notin {Paymaster, Cctp} /\ Paymaster # Cctp
    /\ MaxTxs \in Nat \ {0}

VARIABLES
    txs,           \* the chain: its transactions in order, each with its moves and what
                   \* every account holds after it
    tip,           \* how many of them are indexed
    inbox,         \* inboxBalance
    pending,       \* pendingSwapsByAddr, the logs of each account
    receiveOf,     \* correspondingReceiveOfSend: by account and transaction
    unmatched      \* accounts that sent an amount of a token which was not pending

foreignVars == <<inbox, pending, receiveOf, unmatched>>

Coins == Tokens \cup {Home}
Addresses == Accounts \cup {Outside, Dex, Paymaster, Cctp}
AllAmounts == UNION {Amounts[k] : k \in Coins}
Move == [token : Coins, from : Addresses, to : Addresses, value : Nat]
Row == [tx : 1..MaxTxs, log : Nat, token : Coins, from : Addresses, to : Addresses, value : Nat]

CoinsTypeOK ==
    /\ tip \in 0..Len(txs)
    /\ inbox \in [Accounts \X Tokens -> Nat]
    /\ pending \in [Accounts -> SUBSET Row] /\ \A a \in Accounts : IsFiniteSet(pending[a])
    /\ receiveOf \in [Accounts \X (1..MaxTxs) -> Row \cup {None}]
    /\ unmatched \subseteq Accounts

Nothing ==
    /\ inbox = [p \in Accounts \X Tokens |-> 0]
    /\ pending = [a \in Accounts |-> {}]
    /\ receiveOf = [p \in Accounts \X (1..MaxTxs) |-> None]
    /\ unmatched = {}

\* The accounts with a name in the first n blocks: names are loaded before transfers.
Named(n) == {txs[i].acct : i \in {j \in 1..n : txs[j].kind = "name"}}

\* The k-th transfer of transaction i, and all of them.
LogOf(i, k, m) == [tx |-> i, log |-> k, token |-> m.token, from |-> m.from, to |-> m.to, value |-> m.value]
LogsOf(i, moves) == {LogOf(i, k, moves[k]) : k \in DOMAIN moves}
RowsOf(i) == LogsOf(i, txs[i].moves)

----------------------------------------------------------------------------
\* The state of the indexer in the middle of a load.
Now == [inbox |-> inbox, pending |-> pending, receiveOf |-> receiveOf, unmatched |-> unmatched]

\* A receipt is pending.
Receive(st, a, row) ==
    [st EXCEPT !.inbox[<<a, row.token>>] = @ + row.value, !.pending[a] = @ \cup {row}]

\* The receipts that a transfer out may swap are those of its amount, and it swaps the first.
Matching(st, a, row) == {t \in st.pending[a] : t.token = row.token /\ t.value = row.value}
First(rows) == CHOOSE m \in rows :
    \A t \in rows : m.tx < t.tx \/ (m.tx = t.tx /\ m.log <= t.log)

\* The amount is not pending: the account swaps in bulk, and what is left of the token
\* replaces all that was pending.
BulkSend(st, a, row, left) ==
    [st EXCEPT
        !.inbox[<<a, row.token>>] = left,
        !.pending[a] = IF left > 0 THEN {[row EXCEPT !.from = a, !.to = a, !.value = left]} ELSE {},
        !.unmatched = @ \cup {a}]

\* Slip: the swapped receipt stays pending.
StalePending(st, a, m) == st.pending[a]
\* The receipts of the transaction of the swapped one are not pending any more.
StillPending(st, a, m) == {t \in st.pending[a] : t.tx # m.tx}

MatchedSend(st, a, row, m) ==
    [st EXCEPT
        !.inbox[<<a, row.token>>] = IF @ > row.value THEN @ - row.value ELSE 0,
        !.receiveOf[<<a, row.tx>>] = m,
        !.pending[a] = StillPending(st, a, m)]

\* Slip: the balance goes below zero.
SendOutUnclipped(st, a, row) ==
    LET swaps == Matching(st, a, row)
    IN  IF swaps = {} THEN BulkSend(st, a, row, st.inbox[<<a, row.token>>] - row.value)
        ELSE MatchedSend(st, a, row, First(swaps))
\* A balance never goes below zero, as what came before the account's name is not in it.
SendOut(st, a, row) ==
    LET held == st.inbox[<<a, row.token>>]
        left == IF held > row.value THEN held - row.value ELSE 0
        swaps == Matching(st, a, row)
    IN  IF swaps = {} THEN BulkSend(st, a, row, left) ELSE MatchedSend(st, a, row, First(swaps))

\* processForeignCoinDelta for the recipient and then for the sender.
Process(st, row, named) ==
    LET in == IF row.to \in named THEN Receive(st, row.to, row) ELSE st
    IN  IF row.from \in named THEN SendOut(in, row.from, row) ELSE in

\* The logs of a block are taken in their order, but those of the home coin.
ProcessBlock(st, i, named) ==
    LET n == Len(txs[i].moves)
        S[k \in 0..n] ==
            IF k = 0 THEN st
            ELSE LET row == LogOf(i, k, txs[i].moves[k])
                 IN  IF row.token \in Tokens THEN Process(S[k - 1], row, named) ELSE S[k - 1]
    IN  S[n]

\* The load of the blocks up to n: the state after each of them.
Loaded(n) ==
    LET S[i \in 0..n] ==
            IF i <= tip THEN Now ELSE ProcessBlock(S[i - 1], i, Named(n))
    IN  S

LoadForeign(n) ==
    LET st == Loaded(n)[n]
    IN  /\ inbox' = st.inbox /\ pending' = st.pending
        /\ receiveOf' = st.receiveOf /\ unmatched' = st.unmatched

\* getForeignTokenReceiveForSwap
ReceiveForSwap(a, i) == receiveOf[<<a, i>>]

------------------------------------------------------------------------------
(* Properties *)

\* The sum of some transfers.
SumOf(rows) == Cardinality(UNION {{r} \X (1..r.value) : r \in rows})

InOf(rows, a, k) == {r \in rows : r.token = k /\ r.to = a}
OutOf(rows, a, k) == {r \in rows : r.token = k /\ r.from = a}

\* What an account holds after n blocks.
Held(a, k, n) == txs[n].held[<<a, k>>]

PendingOf(a, k) == SumOf({r \in pending[a] : r.token = k})

\* The phone is never asked to swap more than the account has: the pending receipts of a
\* token add up to no more than what is held of it, whatever was sent before the account
\* had a name, in bulk, or together with other tokens.
PendingAtMostHeld == tip > 0 => \A a \in Accounts, k \in Tokens :
    PendingOf(a, k) <= inbox[<<a, k>>] /\ inbox[<<a, k>>] <= Held(a, k, tip)

\* No account got two tokens in one transaction, or any before it had its name.
TokensCameApart(a) == \A i \in 1..tip : \A r \in RowsOf(i) :
    r.token \in Tokens /\ r.to = a =>
        a \in Named(i) /\ \A s \in RowsOf(i) : s.token \in Tokens /\ s.to = a => s = r

\* An account that only ever sends amounts as it received them is asked to swap all it has.
PendingIsAllHeld == tip > 0 => \A a \in Accounts \ unmatched : TokensCameApart(a) =>
    \A k \in Tokens : PendingOf(a, k) = Held(a, k, tip)

\* The phone is asked to swap what the account holds.
PendingIsHeld == PendingAtMostHeld /\ PendingIsAllHeld

\* A receipt is shown as the origin of one swap at most, and of one that came after it, of
\* the same account, token and amount.
SwappedOnce == \A a \in Accounts : \A i \in 1..MaxTxs : receiveOf[<<a, i>>] # None =>
    LET r == receiveOf[<<a, i>>] IN
    /\ r.to = a /\ r.tx < i
    /\ i <= Len(txs) /\ \E s \in RowsOf(i) : s.from = a /\ s.token = r.token /\ s.value = r.value
    /\ \A j \in 1..MaxTxs : receiveOf[<<a, j>>] = r => j = i

=============================================================================
