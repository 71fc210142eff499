CONSTANTS
    k1 = k1
    k2 = k2
    None = None
    Keys = {k1, k2}
    Founders = {k1}
    LastSlot = 1
    MaxKeys = 2
    MaxLogs = 4
    MaxOps = 1
    MaxAnswers = 1
    MaxRestarts = 1
SPECIFICATION FairSpec
INVARIANTS
    CountIsKeys
    IndexFollowsLog
    MissingOnlyIfRemoved
PROPERTIES
    AddResolves
CHECK_DEADLOCK FALSE
