CONSTANTS
    d1 = d1
    w1 = w1
    s1 = s1
    s2 = s2
    Deposits = {d1}
    Withdrawals = {w1}
    Syncs = {s1}
    Deadline = 1
    MaxTransfers = 1
    MaxLag = 1
    MaxBlock = 3
SPECIFICATION LandlineSpec
INVARIANTS
    OnChainPartIsKept
CHECK_DEADLOCK FALSE
