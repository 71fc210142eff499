CONSTANTS
    name = name
    op = op
    request = request
    coin = coin
    Boot = Boot
    Nobody = Nobody
    Indexers <- AllIndexers
    Layers <- ThreeLayers
    NumLayers = 3
    CheckLate = {op}
    Unchecked = {request}
    Rows <- SomeRows
    MaxBlock = 3
    BatchSize = 2
    Ticks = {t1}
    MaxFailures = 1
    MaxRestarts = 0
SPECIFICATION Spec
INVARIANT StaleLoadWasProcessed
CHECK_DEADLOCK FALSE
