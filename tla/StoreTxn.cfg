CONSTANTS
    o1 = o1
    o2 = o2
    n1 = n1
    n2 = n2
    f1 = f1
    a1 = a1
    a2 = a2
    t1 = t1
    p1 = p1
    NoAxis = NoAxis
    Standalone = Standalone
    Owners <- MCOwners
    Names <- MCOneName
    FeatureSets <- MCFeatureSets
    Arrays <- MCArrays
    Axes <- MCAxes
    Pools <- MCPools
    Batches <- MCBatches
    MaxDepth = 2
    MaxAttempts = 1
    IOFaults = FALSE
    Crashes = TRUE
SPECIFICATION Spec
INVARIANTS
    NoDanglingRow
    RollbackIsExact
    SharedSetsPresent
    CommittedSurvivesCrash
PROPERTIES
    AllOrNothing
