CONSTANTS
    received = received
    sent = sent
    s1 = s1
    s2 = s2
    Transfers = {sent}
    Ops = {sent}
    Syncs = {s1}
    Deadline = 1
    MaxBlock = 2
    MaxReorgs = 1
SPECIFICATION FairSpec
PROPERTIES
    EventuallySeen
    PendingResolves
CHECK_DEADLOCK FALSE
