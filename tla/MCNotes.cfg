CONSTANTS
    o1 = o1
    alice = alice
    bob = bob
    Nobody = Nobody
    Owners = {o1}
    Accounts = {alice, bob}
    Amounts = {1}
    Cent = 1
    MaxLogs = 3
    MaxLoads = 2
    MaxRestarts = 1
    Phones = {alice}
SPECIFICATION AllFairSpec
INVARIANTS
    AllTypeOK
    NotifiedRightly
PROPERTIES
    FollowsContract
    ShownInTheEnd
CHECK_DEADLOCK FALSE
