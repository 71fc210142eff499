---------------------------- MODULE AccountAssets ----------------------------
(***************************************************************************)
(* What an account owns on its home chain and on another chain, and how it *)
(* gets home: DaimoAccountV2.collect and swapToHomeCoin, which anybody may *)
(* call, forward once a forwarding address is set, the batches its owner   *)
(* executes at home, and what he lets others take.  Swaps go through       *)
(* DaimoFlexSwapper, to a market maker or to SwapbotLP, which adds a tip.  *)
(* The bridge is FastCCTP, taken as a transfer that arrives.               *)
(***************************************************************************)
EXTENDS FlexSwapper, Sequences

CONSTANTS
    HomeChain, ForeignChain,  \* the two chains
    BridgeCoin,     \* what the bridger takes, and pays at home
    HomeCoins,      \* coins an account may choose; Native is no home coin
    FirstHomeCoin,  \* homeCoin at deployment
    Recipients,     \* forwarding addresses
    NoAddress,      \* 0x0 as a forwarding address
    Markets,        \* states of the pools and feeds
    Calm,           \* the market as it is most of the time
    Received,       \* tokens the account receives
    ReceivedAmounts, \* amounts of them
    Approvable,     \* tokens that are approved, a bound
    Parts,          \* amounts named in calls, besides all there is
    Offsets,        \* how far a delivery may be off the minimum, a bound
    Shortfalls,     \* of the inner swap of a tipped one, a bound
    TipFunds,       \* of SwapbotLP, in each token
    MaxTip,         \* lo half of tipAmounts
    MaxReceipts     \* bound on receipts

ASSUME AssetsAssumption ==
    /\ HomeChain # ForeignChain /\ NoAddress \notin Recipients
    /\ BridgeCoin \in OutputTokens
    /\ HomeCoins \subseteq OutputTokens \cup {Native} /\ FirstHomeCoin \in HomeCoins
    /\ Received \subseteq Token /\ Approvable \subseteq Token \ {Native}
    /\ ReceivedAmounts \cup Parts \subseteq Nat \ {0}
    /\ Offsets \cup Shortfalls \subseteq Int
    /\ Calm \in Markets /\ \A m \in Markets : IsMarket(m)
    /\ TipFunds \in Nat /\ MaxTip \in Nat /\ MaxReceipts \in Nat
    /\ IsFiniteSet(Stable)

Chain == {HomeChain, ForeignChain}

VARIABLES
    market,         \* pools and feeds, alike on both chains
    bal,            \* the account's balances, by chain and token
    transit,        \* of BridgeCoin on its way home
    homeCoin,       \* of the account at home
    forwardingAddress,
    forwarded,      \* what the forwarding address got, by token
    spent,          \* what the owner sent elsewhere or others took, by token
    allowance,      \* what others may take of each ERC-20 token at home, together
    lp,             \* balances of SwapbotLP, by chain and output token
    receipts,
    owed            \* history: see OffboardedIsWhole

ownerVars == <<homeCoin, forwardingAddress, spent, allowance>>
assetVars == <<market, bal, transit, ownerVars, forwarded, lp, receipts, owed>>

\* An amount on each chain, or for each token, is an amount.
AssetsTypeOK ==
    /\ market \in Markets
    /\ bal \in [Chain -> [Token -> Nat]] /\ lp \in [Chain -> [OutputTokens -> Nat]]
    /\ transit \in Nat
    /\ homeCoin \in HomeCoins
    /\ forwardingAddress \in Recipients \cup {NoAddress}
    /\ forwarded \in [Token -> Nat] /\ spent \in [Token -> Nat]
    /\ allowance \in [Token -> Nat]
    /\ receipts \in 0..MaxReceipts /\ owed \in Int

NoTokens == [t \in Token |-> 0]

AssetsInit ==
    /\ market \in Markets
    /\ bal = [c \in Chain |-> NoTokens] /\ transit = 0
    /\ homeCoin = FirstHomeCoin /\ forwardingAddress = NoAddress
    /\ forwarded = NoTokens /\ spent = NoTokens /\ allowance = NoTokens
    /\ lp = [c \in Chain |-> [t \in OutputTokens |-> TipFunds]]
    /\ receipts = 0 /\ owed = 0

-----------------------------------------------------------------------------
(* What there is *)

\* What is left of a token to the account: here, there, on its way, or forwarded.
Kept(t) == bal[HomeChain][t] + bal[ForeignChain][t] + (IF t = BridgeCoin THEN transit ELSE 0)
           + forwarded[t]

\* All that came to the account, wherever it is now.
Owned(t) == Kept(t) + spent[t]

\* The sum of the values of a function.
Total(f) == Cardinality(UNION {{x} \X (1..f[x]) : x \in DOMAIN f})

KeptStables == Total([t \in Stable |-> Kept(t)])
ApprovedStables == Total([t \in Stable |-> allowance[t]])

-----------------------------------------------------------------------------
(* The world *)

MarketMoves ==
    /\ market' \in Markets \ {market}
    /\ UNCHANGED <<bal, transit, ownerVars, forwarded, lp, receipts, owed>>

ReceiveOn(c, t, a) ==
    /\ receipts < MaxReceipts
    /\ receipts' = receipts + 1
    /\ bal' = [bal EXCEPT ![c][t] = @ + a]
    /\ owed' = IF forwardingAddress # NoAddress /\ t \in Stable THEN owed + a ELSE owed
    /\ UNCHANGED <<market, transit, ownerVars, forwarded, lp>>

-----------------------------------------------------------------------------
(* Swaps *)

\* swapAndTip takes its input as msg.value or from its caller: the swapper, which has
\* sent an ERC-20 input ahead and approved nobody.
TakesInput(t) == t = Native

\* SwapbotLP.run with isSwapAndTip: the callee is swapAndTip.  It delivers exactly `total`,
\* and keeps or adds what the inner swap brings more or less, less than maxTip.
Tipped(c, t, u, total) ==
    /\ TakesInput(t)
    /\ \E shortfall \in Shortfalls :
          /\ shortfall < MaxTip
          /\ total - shortfall > 0 /\ lp[c][u] >= shortfall
          /\ lp' = [lp EXCEPT ![c][u] = @ - shortfall]

\* What _swap may get for a of t, whoever the swapper is told to pay.
SwapOutputs(t, a, u) == Outputs(market, t, a, u, Offsets)

PaidFor(c, t, u, got) == lp' = lp \/ Tipped(c, t, u, got)

\* Slip: a coin the bridger takes is swapped all the same.
ToBridgeAlways(t, a) == SwapOutputs(t, a, BridgeCoin)

\* What collect has for the bridger: the input itself if it is the coin to bridge.
ToBridge(t, a) == IF t = BridgeCoin THEN {a} ELSE SwapOutputs(t, a, BridgeCoin)

\* collect, with the one tokenBridge the bridger takes.
Collect(t, a) ==
    /\ 0 < a /\ a <= bal[ForeignChain][t]
    /\ bal' = [bal EXCEPT ![ForeignChain][t] = @ - a]
    /\ UNCHANGED <<market, ownerVars, forwarded, receipts, owed>>
    /\ \E amountBridge \in ToBridge(t, a) :
          /\ PaidFor(ForeignChain, t, BridgeCoin, amountBridge)
          /\ transit' = transit + amountBridge

\* The bridge has paid what was sent, all of it or one transfer after the other.
BridgeArrives ==
    /\ transit > 0
    /\ bal' = [bal EXCEPT ![HomeChain][BridgeCoin] = @ + transit]
    /\ transit' = 0
    /\ UNCHANGED <<market, ownerVars, forwarded, lp, receipts, owed>>

SwapToHomeCoin(t, a) ==
    /\ homeCoin # Native
    /\ 0 < a /\ a <= bal[HomeChain][t]
    /\ UNCHANGED <<market, transit, ownerVars, forwarded, receipts, owed>>
    /\ \E amountOut \in SwapOutputs(t, a, homeCoin) :
          /\ PaidFor(HomeChain, t, homeCoin, amountOut)
          /\ bal' = [bal EXCEPT ![HomeChain][t] = @ - a, ![HomeChain][homeCoin] = @ + amountOut]

-----------------------------------------------------------------------------
(* The owner.  A batch runs its calls in order, all of them or none.  Of the calls he may *)
(* make of other contracts it matters what leaves the account and what is approved, whose *)
(* amount is of all spenders together.                                                    *)

OwnState == [coins |-> bal[HomeChain], homeCoin |-> homeCoin,
             forwardingAddress |-> forwardingAddress, spent |-> spent, allowance |-> allowance]

BatchCall ==
    [op : {"transfer"}, token : Received \cup HomeCoins, amount : Parts]
        \cup [op : {"approve"}, token : Approvable, amount : Parts \cup {0}]
        \cup [op : {"updateHomeCoin"}, coin : HomeCoins]
        \cup [op : {"setForwardingAddress"}, to : Recipients]

Active(s) == s.forwardingAddress = NoAddress

\* The call's requirements; a transfer needs the funds.
Succeeds(call, s) ==
    CASE call.op = "transfer" -> call.amount <= s.coins[call.token]
      [] call.op = "approve" -> TRUE
      [] call.op = "updateHomeCoin" -> Active(s) /\ call.coin # s.homeCoin
      [] call.op = "setForwardingAddress" -> Active(s)

After(call, s) ==
    CASE call.op = "transfer" ->
            [s EXCEPT !.coins[call.token] = @ - call.amount, !.spent[call.token] = @ + call.amount]
      [] call.op = "approve" -> [s EXCEPT !.allowance[call.token] = call.amount]
      [] call.op = "updateHomeCoin" -> [s EXCEPT !.homeCoin = call.coin]
      [] call.op = "setForwardingAddress" -> [s EXCEPT !.forwardingAddress = call.to]

\* The account after each of the first k calls.
States(batch) ==
    LET S[k \in 0..Len(batch)] == IF k = 0 THEN OwnState ELSE After(batch[k], S[k - 1]) IN S

\* onlyActiveAndHomeChain of validateUserOp and executeBatch.
MayExecute(s) == Active(s)

ExecuteBatch(batch) ==
    LET last == States(batch)[Len(batch)] IN
    /\ MayExecute(OwnState)
    /\ \A k \in 1..Len(batch) : Succeeds(batch[k], States(batch)[k - 1])
    /\ bal' = [bal EXCEPT ![HomeChain] = last.coins]
    /\ homeCoin' = last.homeCoin /\ forwardingAddress' = last.forwardingAddress
    /\ spent' = last.spent /\ allowance' = last.allowance
    /\ UNCHANGED <<market, transit, forwarded, lp, receipts>>
    /\ owed' = IF Active(last) THEN owed ELSE KeptStables' - ApprovedStables'

\* Slip: whoever has a key signs, whatever became of the account.
MaySignAny(s) == TRUE

\* onlyActiveAndHomeChain of isValidSignature.
MaySign(s) == Active(s)

\* A token takes a message signed for the account, that is, by its isValidSignature, for an
\* approval.
Permit(t, a) ==
    /\ MaySign(OwnState)
    /\ allowance' = [allowance EXCEPT ![t] = a]
    /\ UNCHANGED <<market, bal, transit, homeCoin, forwardingAddress, spent, forwarded, lp, receipts, owed>>

\* Those who were approved take some.
TakeApproved(t, a) ==
    /\ a <= allowance[t] /\ a <= bal[HomeChain][t]
    /\ allowance' = [allowance EXCEPT ![t] = @ - a]
    /\ bal' = [bal EXCEPT ![HomeChain][t] = @ - a]
    /\ spent' = [spent EXCEPT ![t] = @ + a]
    /\ UNCHANGED <<market, transit, homeCoin, forwardingAddress, forwarded, lp, receipts, owed>>

\* forward: all there is of a token, at home, where alone the address is set.
Forward(t) ==
    /\ forwardingAddress # NoAddress
    /\ bal[HomeChain][t] > 0
    /\ forwarded' = [forwarded EXCEPT ![t] = @ + bal[HomeChain][t]]
    /\ bal' = [bal EXCEPT ![HomeChain][t] = 0]
    /\ UNCHANGED <<market, transit, ownerVars, lp, receipts, owed>>

-----------------------------------------------------------------------------
Batches == {<<x>> : x \in BatchCall} \cup (BatchCall \X BatchCall)

AssetsNext ==
    \/ MarketMoves \/ BridgeArrives
    \/ \E t \in Received, a \in ReceivedAmounts, c \in Chain : ReceiveOn(c, t, a)
    \/ \E t \in Token : \/ \E a \in Parts \cup {bal[ForeignChain][t]} : Collect(t, a)
                        \/ \E a \in Parts \cup {bal[HomeChain][t]} : SwapToHomeCoin(t, a)
                        \/ Forward(t)
    \/ \E batch \in Batches : ExecuteBatch(batch)
    \/ \E t \in Approvable, a \in Parts : Permit(t, a) \/ TakeApproved(t, a)

AssetsSpec == AssetsInit /\ [][AssetsNext]_assetVars

\* The market calms down each time; market makers take what pays, as the code says of
\* them (DaimoFlexSwapper.sol:30); the bridge delivers, and anybody may forward.
Fairness ==
    /\ WF_assetVars(MarketMoves /\ market' = Calm) /\ WF_assetVars(BridgeArrives)
    /\ \A t \in Received \cup HomeCoins :
          /\ SF_assetVars(Collect(t, bal[ForeignChain][t]))
          /\ SF_assetVars(SwapToHomeCoin(t, bal[HomeChain][t]))
          /\ WF_assetVars(Forward(t))

AssetsFairSpec == AssetsSpec /\ Fairness

-----------------------------------------------------------------------------
(* Properties *)

\* The dollars of a unit of t are Rate(t) over the power of ten of Scale(t), by the feed; none
\* if nothing prices it.
Rate(t) ==
    LET x == AsERC20(t) IN
    CASE x \in Stable -> 1
      [] x \in Fed \ Stable -> market.feed[x].answer
      [] OTHER -> 0
Scale(t) ==
    LET x == AsERC20(t) IN Decimals[x] + (IF x \in Stable THEN 0 ELSE FeedDecimals[x])

\* The value of n of t, in a fraction of a dollar in which amounts of t and of u are both whole.
Worth(t, n, u) == n * Rate(t) * Pow10[Scale(u)]

Priced(t) == Rate(t) > 0

\* Both have a price, and stablecoins are exchanged one for one in units that are worth the same.
Comparable(t, u) ==
    /\ Priced(t) /\ Priced(u)
    /\ {AsERC20(t), AsERC20(u)} \subseteq Stable => Decimals[AsERC20(t)] = Decimals[AsERC20(u)]

\* Whoever calls collect, swapToHomeCoin or forward, and with whatever market maker:
\* nothing is lost on the way, stablecoins are exchanged one for one, and tokens with a
\* price at 99% of it, to within a unit.
ValueKept ==
    [][\A t \in Token : Owned(t)' < Owned(t) =>
          \E u \in Token \ {t} :
             LET in == Owned(t) - Owned(t)'
                 out == Owned(u)' - Owned(u)
             IN  /\ out > 0
                 /\ {t, u} \subseteq Stable => out >= in
                 /\ Comparable(t, u) =>
                        100 * Worth(u, out + 1, t) >= 99 * Worth(t, in, u)]_assetVars

\* An account that has set its forwarding address loses no more dollars than its owner had
\* approved by then: of its stablecoins, and of those that come later, all the rest is held,
\* on its way or forwarded, whoever swaps them, takes what was approved or has a key.  The
\* history variable has the part that was not approved, and what came since.
OffboardedIsWhole ==
    forwardingAddress # NoAddress /\ BridgeCoin \in Stable /\ homeCoin \in Stable \cup {Native}
        => KeptStables >= owed

\* The smallest amount the comparison with a pool lets through is 25 units of the output.
Enough(t, u) == {n \in Nat : Worth(t, n, u) >= Worth(u, 25, t)}

\* Money that is not where it should be: on the other chain, at home in another coin, or
\* with an account that forwards.
Abroad(t) == bal[ForeignChain][t] \in Enough(t, BridgeCoin)
Stray(t) ==
    \/ homeCoin \notin {t, Native} /\ bal[HomeChain][t] \in Enough(t, homeCoin)
    \/ forwardingAddress # NoAddress /\ bal[HomeChain][t] > 0

\* What is worth a swap leaves the other chain, and at home becomes the home coin and
\* reaches the forwarding address if there is one, though anybody may take it in parts.
ComesHome ==
    /\ \A t \in Received : Abroad(t) ~> ~Abroad(t)
    /\ \A t \in Received : Stray(t) ~> ~Stray(t)

\* The table in _getMinAmountOut (DaimoFlexSwapper.sol:250-264): one for one, or 99% of the
\* reference price, the pools being within 4% of it if they are asked; without a reference
\* 98% of what the pools give; never by an old round of a feed.  Of an amount worth less
\* than a unit of the output the code has no reference, though the pair has.
PricedAsDocumented ==
    \A t \in Token, a \in ReceivedAmounts \cup Parts : \A u \in OutputTokens \ {t} :
        LET x == AsERC20(t)
            est == Quote(market, x, a, u)
            gap == Abs(Worth(u, est, t) - Worth(t, a, u))
            worthAUnit == Worth(t, a, u) >= Worth(u, 1, t)
        IN  \A least \in {n \in MinAmountOut(market, t, a, u) : x # u} :
               /\ {x, u} \subseteq Stable => least = a
               /\ Comparable(t, u) => 100 * Worth(u, least + 1, t) >= 99 * Worth(t, a, u)
               /\ Comparable(t, u) /\ worthAUnit /\ HasUniswap(x, u) =>
                     25 * gap <= Worth(u, est, t)
               /\ ~(Priced(t) /\ Priced(u)) => HasUniswap(x, u) /\ 50 * least >= 49 * est
               /\ \A y \in ({x, u} \cap Fed) \ Stable : market.feed[y].age <= MaxAge

=============================================================================
