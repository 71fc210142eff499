CONSTANTS
    d1 = d1
    w1 = w1
    s1 = s1
    s2 = s2
    Deposits = {d1}
    Withdrawals = {w1}
    Syncs = {s1}
    Deadline = 1
    MaxTransfers = 1
    MaxLag = 1
    MaxBlock = 3
SPECIFICATION LandlineFairSpec
INVARIANTS
    LandlineTypeOK
    EveryTxIsOneRow
    BundledOnceKnown
PROPERTIES
    OutcomeShown
    NothingStaysPending
CHECK_DEADLOCK FALSE
