CONSTANTS
    eth = eth
    weth = weth
    usdc = usdc
    usdbc = usdbc
    op = op
    steth = steth
    hig = hig
    base = base
    optimism = optimism
    friend = friend
    NoAddress = NoAddress
    Token <- MCTokens
    Native = eth
    Wrapped = weth
    OutputTokens = {usdc, usdbc}
    HopTokens = {weth, usdc}
    FeeTiers = 2
    Stable = {usdc, usdbc}
    Fed = {weth, op, steth}
    SkipUniswap = {steth}
    Decimals <- MCDecimals
    FeedDecimals <- MCFeedDecimals
    MaxAge = 1
    MaxUint128 = 100000
    HomeChain = base
    ForeignChain = optimism
    BridgeCoin = usdc
    HomeCoins = {usdc, usdbc, eth}
    FirstHomeCoin = usdc
    Recipients = {friend}
    Markets <- MCMarkets
    Calm <- MCCalm
    Received = {eth, usdc}
    Approvable = {usdc}
    ReceivedAmounts = {100}
    Parts = {50}
    Offsets <- MCOffsets
    Shortfalls = {1, 2}
    TipFunds = 1
    MaxTip = 2
    MaxReceipts = 1
SPECIFICATION AssetsFairSpec
INVARIANTS
    PricedAsDocumented
    OffboardedIsWhole
PROPERTIES
    ValueKept
    ComesHome
CHECK_DEADLOCK FALSE
