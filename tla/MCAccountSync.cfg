CONSTANTS
    received = received
    sent = sent
    s1 = s1
    s2 = s2
    Transfers = {sent}
    Ops = {sent}
    Syncs = {s1, s2}
    Deadline = 1
    MaxBlock = 2
    MaxReorgs = 1
SPECIFICATION Spec
INVARIANTS
    MissesNothingIndexed
    BalanceIsOfHistory
PROPERTIES
    DroppedIsDead
SYMMETRY SyncSymmetry
CHECK_DEADLOCK FALSE
