----------------------------- MODULE FlexSwapper -----------------------------
(***************************************************************************)
(* DaimoFlexSwapper.sol: the price a swap on behalf of an account must     *)
(* reach, found from Uniswap pools and Chainlink feeds.  A market m is     *)
(* what the contract reads: m.pool[<<t, u>>][k], the pool of a pair in the *)
(* k-th fee tier as seen from t to u, if the pair has pools, and           *)
(* m.feed[t], the last round of the feed of a token.  A call that may      *)
(* revert is a set: what it returns, or nothing.  Amounts are integers in  *)
(* the least unit of a token, and divisions round down as in the code.     *)
(***************************************************************************)
EXTENDS Integers, FiniteSets, FiniteSetsExt

CONSTANTS
    Token,          \* ERC-20 tokens, and Native
    Native,         \* 0x0, the chain's own coin
    Wrapped,        \* wrappedNativeToken
    OutputTokens,   \* tokens a swap may end in
    HopTokens,      \* tokens a path may go through
    FeeTiers,       \* number of tiers, searched in order
    Stable,         \* knownTokens with isStablecoin
    Fed,            \* knownTokens with a feed
    SkipUniswap,    \* knownTokens with skipUniswap
    Decimals,       \* decimals of a token
    FeedDecimals,   \* decimals of its feed
    MaxAge,         \* maxFeedRoundAge
    MaxUint128      \* 2^128 - 1

ASSUME TokenAssumption ==
    /\ Native \in Token /\ Wrapped \in Token /\ Native # Wrapped
    /\ OutputTokens \subseteq Token \ {Native}
    /\ HopTokens \subseteq Token \ {Native} /\ IsFiniteSet(HopTokens)
    /\ Stable \cup Fed \cup SkipUniswap \subseteq Token \ {Native}
    /\ FeeTiers \in Nat /\ MaxAge \in Nat /\ MaxUint128 \in Nat
    /\ Decimals \in [Token -> Nat] /\ FeedDecimals \in [Token -> Nat]

Round == [answer : Int, age : Nat, stale : BOOLEAN]
Pool == [readable : BOOLEAN, liquidity : Nat, num : Nat, den : Nat \ {0}]
IsMarket(m) ==
    /\ m.feed \in [Token -> Round]
    /\ \A pair \in DOMAIN m.pool : m.pool[pair] \in [1..FeeTiers -> Pool]

-----------------------------------------------------------------------------
(* Uniswap.  A pool prices a units of its first token as a * num \div den of the second. *)

EstimateAt(p, a) == (a * p.num) \div p.den

Deep(p, a) == p.liquidity > 0 /\ p.liquidity * p.liquidity >= a * EstimateAt(p, a)

\* Fee tiers whose pool answers and holds enough for the trade.
UsableTiers(m, t, a, u) ==
    {k \in 1..FeeTiers :
        /\ <<t, u>> \in DOMAIN m.pool
        /\ LET p == m.pool[<<t, u>>][k] IN
           p.readable /\ EstimateAt(p, a) <= MaxUint128 /\ Deep(p, a)}

\* getBestPoolTick: the most liquid one, the first of equals.
BestTier(m, t, a, u) ==
    LET usable == UsableTiers(m, t, a, u)
        L(k) == m.pool[<<t, u>>][k].liquidity
    IN  CHOOSE k \in usable : \A j \in usable \ {k} : L(j) < L(k) \/ (L(j) = L(k) /\ k < j)

QuoteDirect(m, t, a, u) ==
    IF UsableTiers(m, t, a, u) = {} THEN 0
    ELSE EstimateAt(m.pool[<<t, u>>][BestTier(m, t, a, u)], a)

\* Both legs through the best hop token; 0 if no hop token has both.
QuoteViaHop(m, t, a, u) ==
    Max({0} \cup UNION {{QuoteDirect(m, h, leg, u) : leg \in {QuoteDirect(m, t, a, h)} \ {0}} :
                           h \in HopTokens \ {t, u}})

Larger[p \in Nat \X Nat] == IF p[1] > p[2] THEN p[1] ELSE p[2]

\* What the pools give: directly or through a hop, whichever is more.
Quote(m, t, a, u) ==
    IF t = u THEN a ELSE Larger[<<QuoteDirect(m, t, a, u), QuoteViaHop(m, t, a, u)>>]

-----------------------------------------------------------------------------
(* Chainlink *)

Recent(f) == f.age <= MaxAge

ValidRound(f) == 0 < f.answer /\ f.answer < MaxUint128 /\ Recent(f) /\ ~f.stale

\* getChainlinkPrice: 1 for a stablecoin, 0 without a feed.
ChainlinkPrice(m, t) ==
    CASE t \in Stable -> {[price |-> 1, dec |-> 0]}
      [] t \notin Stable \cup Fed -> {[price |-> 0, dec |-> 0]}
      [] OTHER -> {[price |-> f.answer, dec |-> FeedDecimals[t]] :
                       f \in {g \in {m.feed[t]} : ValidRound(g)}}

\* The powers of ten.
Pow10[n \in Nat] == IF n = 0 THEN 1 ELSE 10 * Pow10[n - 1]

\* n * 10^e, rounded down.
Shift(n, e) == IF e < 0 THEN n \div Pow10[-e] ELSE n * Pow10[e]

\* getChainlinkQuote: 0 if either token has no reference price.
ChainlinkQuote(m, t, a, u) ==
    {IF p.price = 0 \/ q.price = 0 THEN 0
     ELSE Shift(a * p.price, Decimals[u] + q.dec - Decimals[t] - p.dec) \div q.price :
         p \in ChainlinkPrice(m, t), q \in ChainlinkPrice(m, u)}

-----------------------------------------------------------------------------
(* The minimum output of a swap *)

Abs(n) == IF n < 0 THEN -n ELSE n

\* Slip: the quotes are compared the wrong way about: an estimate far below passes.
CloseAbove(est, ref) == est - ref < est \div 25
Close(est, ref) == Abs(est - ref) < est \div 25

AsERC20(t) == IF t = Native THEN Wrapped ELSE t

HasUniswap(t, u) == {t, u} \cap SkipUniswap = {}

\* swapEstAmountOut: a path must exist, unless the pools are not asked.
Estimate(m, t, a, u) == IF HasUniswap(t, u) THEN {Quote(m, t, a, u)} \ {0} ELSE {0}

\* refAmountOut: one for one between stablecoins, whatever their decimals.
Reference(m, t, a, u) == IF {t, u} \subseteq Stable THEN {a} ELSE ChainlinkQuote(m, t, a, u)

RefMinimum(t, u, ref) == IF {t, u} \subseteq Stable THEN ref ELSE ref - ref \div 100

\* The reference price less 1%, or what the pools give less 2%.
LeastOutput(t, u, est, ref) == IF ref > 0 THEN RefMinimum(t, u, ref) ELSE est - est \div 50

\* "cannot price pair" and "quote sanity check failed".
Sane(est, ref) ==
    /\ ref > 0 \/ est > 0
    /\ ref > 0 /\ est > 0 => Close(est, ref)

\* _getMinAmountOut of two different tokens.
MinimumOfPair(m, t, a, u) ==
    {LeastOutput(t, u, q[1], q[2]) :
        q \in {r \in Estimate(m, t, a, u) \X Reference(m, t, a, u) : Sane(r[1], r[2])}}

MinAmountOut(m, t, a, u) ==
    IF AsERC20(t) = AsERC20(u) THEN {a}
    ELSE {n \in MinimumOfPair(m, AsERC20(t), a, AsERC20(u)) : n > 0}

\* Slip: any output will do.
AcceptedAny(got, least) == 0 < got /\ got < MaxUint128
Accepted(got, least) == 0 < got /\ got < MaxUint128 /\ got >= least

\* swapToCoin: the outputs it accepts, and passes on in full, of a callee that may be off
\* the minimum by one of the offsets.
Outputs(m, t, a, u, offsets) ==
    IF t = u \/ u \notin OutputTokens \/ a = 0 \/ a >= MaxUint128 THEN {}
    ELSE UNION {{least + d : d \in {e \in offsets : Accepted(least + e, least)}} :
                   least \in MinAmountOut(m, t, a, u)}

=============================================================================
