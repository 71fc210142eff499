CONSTANTS
    o1 = o1
    alice = alice
    bob = bob
    Nobody = Nobody
    Owners = {o1}
    Accounts = {alice, bob}
    Amounts = {1}
    Cent = 1
    MaxLogs = 3
    MaxLoads = 1
    MaxRestarts = 1
    Phones = {alice}
SPECIFICATION AllSpec
INVARIANT ClaimerIfRedeemed
CHECK_DEADLOCK FALSE
