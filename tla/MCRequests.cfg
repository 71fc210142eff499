CONSTANTS
    r1 = r1
    r2 = r2
    c1 = c1
    c2 = c2
    Ids = {r1, r2}
    Addressed = {r1}
    Calls = {c1, c2}
    MaxRestarts = 1
SPECIFICATION FairSpec
INVARIANTS
    FollowsChain
    DeclineRemembered
PROPERTIES
    SettledIsShown
CHECK_DEADLOCK FALSE
