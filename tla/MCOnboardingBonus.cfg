CONSTANTS
    p1 = p1
    p2 = p2
    stranger = stranger
    i1 = i1
    i2 = i2
    alice = alice
    bob = bob
    base = base
    sepolia = sepolia
    NoAccount = NoAccount
    Phones = {p1}
    Strangers = {}
    Names = {alice}
    Chains = {base}
    Testnets = {}
    Base = base
    Calls = {i1, i2}
    MaxUses = 2
    MaxCount = 2
    MaxPolls = 1
SPECIFICATION Spec
INVARIANT BonusOncePerDevice
CHECK_DEADLOCK FALSE
