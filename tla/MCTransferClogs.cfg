CONSTANTS
    a1 = a1
    a2 = a2
    usdc = usdc
    eth = eth
    dai = dai
    Outside = Outside
    Dex = Dex
    Paymaster = Paymaster
    Cctp = Cctp
    None = None
    Accounts = {a1}
    Tokens = {eth, dai}
    Home = usdc
    Amounts <- SomeAmounts
    MaxTxs = 4
    MaxHome = 1
SPECIFICATION FairSpec
INVARIANTS
    TypeOK
    PendingIsHeld
    ClogsTellTruth
PROPERTIES
    ToldInTheEnd
CHECK_DEADLOCK FALSE
