CONSTANTS
    received = received
    sent = sent
    s1 = s1
    s2 = s2
    Transfers = {received}
    Ops = {}
    Syncs = {s1, s2}
    Deadline = 1
    MaxBlock = 3
    MaxReorgs = 1
SPECIFICATION Spec
INVARIANTS
    SeesAllEvents
CHECK_DEADLOCK FALSE
