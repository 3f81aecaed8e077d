\* Two paths, each of which may hold a pair from before stamps; three stamps.
CONSTANTS
    Paths = {p1, p2}
    Arrays = {a1}
    Absent = Absent
    p1 = p1
    p2 = p2
    a1 = a1
    LegacyPaths = {p1, p2}
    MaxGen = 3
    ReopenFails = FALSE
SPECIFICATION LedgerSpec
SYMMETRY PathSymmetry
INVARIANTS
    OpensWhole
    SaveIsAllOrNothing
    AttachedAlwaysReopens
    NothingCommittedIsLost
CHECK_DEADLOCK FALSE
