CONSTANTS
    o1 = o1
    o2 = o2
    n1 = n1
    n2 = n2
    f1 = f1
    a1 = a1
    a2 = a2
    t1 = t1
    p1 = p1
    NoAxis = NoAxis
    Standalone = Standalone
    Owners <- MCOneOwner
    Names <- MCNames
    FeatureSets <- MCFeatureSets
    Arrays <- MCArrays
    Axes <- MCAxes
    Pools <- MCPools
    Batches <- MCSmallBatches
    MaxDepth = 2
    MaxAttempts = 1
    IOFaults = TRUE
    Crashes = FALSE
SPECIFICATION Spec
INVARIANTS
    TxnInv
