CONSTANTS
    c1 = c1
    c2 = c2
    c3 = c3
    None = None
    Calls = {c1, c2, c3}
    Once = {c1}
    MaxAttempts = 3
    MaxTxs = 9
    MaxRestarts = 1
SPECIFICATION FairSpec
PROPERTIES
    KeepsPromise
    EveryCallEnds
CHECK_DEADLOCK FALSE
