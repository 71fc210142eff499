CONSTANTS
    alice = alice
    bob = bob
    lp = lp
    Bridger = Bridger
    NoOne = NoOne
    Accounts = {alice, bob, lp}
    Transfers <- MCTransfers
    Amounts = {1, 2}
    Funds <- MCFunds
SPECIFICATION CCTPFairSpec
INVARIANTS
    ClaimsBackedByBurns
PROPERTIES
    ClaimsKept
    StartedIsClaimed
CHECK_DEADLOCK FALSE
