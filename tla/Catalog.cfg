CONSTANTS
    o1 = o1
    o2 = o2
    n1 = n1
    a1 = a1
    a2 = a2
    i1 = i1
    h1 = h1
    h2 = h2
    ZeroInterval = ZeroInterval
    NoPeriod = NoPeriod
    Owners <- MCOwners
    Categories <- MCCategories
    Names <- MCNames
    Resolutions <- MCResolutions
    Arrays <- MCArrays
    Intervals <- MCIntervals
    Horizons <- MCHorizons
    Addable <- MCAddable
    Documents <- MCDocuments
    MaxId = 4
    MaxDepth = 1
SPECIFICATION Spec
INVARIANTS
    FamilyExclusive
    IdKeepsItsMeaning
PROPERTIES
    SourceKept
