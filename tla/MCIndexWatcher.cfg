CONSTANTS
    name = name
    op = op
    request = request
    coin = coin
    Boot = Boot
    Nobody = Nobody
    Indexers <- AllIndexers
    Layers <- ThreeLayers
    NumLayers = 3
    CheckLate = {op}
    Unchecked = {request}
    Rows <- SomeRows
    MaxBlock = 3
    BatchSize = 2
    Ticks = {t1, t2}
    MaxFailures = 1
    MaxRestarts = 1
SPECIFICATION FairSpec
INVARIANTS
    CompleteUnlessDisturbed
    LayersInOrderUnlessDisturbed
PROPERTIES
    CatchesUp
    ImplementsIndexLog
CHECK_DEADLOCK FALSE
