CONSTANTS
    p1 = p1
    p2 = p2
    stranger = stranger
    i1 = i1
    i2 = i2
    alice = alice
    bob = bob
    base = base
    sepolia = sepolia
    NoAccount = NoAccount
    Phones = {p1}
    Strangers = {stranger}
    Names = {alice}
    Chains = {base, sepolia}
    Testnets = {sepolia}
    Base = base
    Calls = {i1, i2}
    MaxUses = 1
    MaxCount = 2
    MaxPolls = 1
SPECIFICATION FairSpec
INVARIANTS
    AccountIsOnChain
    BonusWithinUses
PROPERTIES
    AccountIsKept
    FoundOnceDeployed
CHECK_DEADLOCK FALSE
