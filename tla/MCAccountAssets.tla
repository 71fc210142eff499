--------------------------- MODULE MCAccountAssets ---------------------------
(* An instance of AccountAssets for TLC.  One weth is two dollars, one op half a dollar;
   steth has a feed and no pool, hig has a pool and no feed. *)
EXTENDS AccountAssets, TLC

CONSTANTS eth, weth, usdc, usdbc, op, steth, hig, base, optimism, friend

MCTokens == {eth, weth, usdc, usdbc, op, steth, hig}
MCDecimals == [t \in MCTokens |-> IF t = weth THEN 1 ELSE 0]
MCFeedDecimals == [t \in MCTokens |-> IF t = op THEN 1 ELSE 0]

\* A pool that gives num of the second token for den of the first.
P(num, den, liquidity) ==
    [readable |-> TRUE, liquidity |-> liquidity, num |-> num, den |-> den]

\* The pools of a pair seen from both sides; the second tier is the deeper one.
Both(t, u, num, den, depth) ==
    (<<t, u>> :> <<P(2 * num, den, 1), P(num, den, depth)>>)
        @@ (<<u, t>> :> <<P(2 * den, num, 1), P(den, num, depth)>>)

Pools(wethPrice, depth) ==
    Both(weth, usdc, wethPrice, 100, depth) @@ Both(op, weth, 25, 100, depth)
        @@ Both(usdbc, usdc, 1, 1, depth) @@ Both(hig, weth, 1, 1, depth)

Feeds(age) ==
    [t \in MCTokens |-> [answer |-> IF t = op THEN 5 ELSE IF t = weth THEN 20 ELSE 2,
                         age |-> IF t = weth THEN age ELSE 1, stale |-> FALSE]]

MCOffsets == {-1, 0}

Market(wethPrice, depth, age) == [pool |-> Pools(wethPrice, depth), feed |-> Feeds(age)]

MCCalm == Market(200, 900, 1)

\* Pools that follow a price the feed has not seen, and a feed that has been silent.
MCMarkets == {MCCalm, Market(190, 900, 1), Market(200, 900, 2)}
=============================================================================
