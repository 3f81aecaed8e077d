SPECIFICATION Spec
CONSTANTS
    Hashes = {h1, h2, h3}
    Axes = {x1}
    Pools = {p1}
    DefaultCols = 3
    ChunkCols <- MCChunkCols
    MaxCols = 2
    MaxBlock = 3
    MaxSets = 3
    Free = Free
    Zero = Zero
    Torn = Torn
    Own = Own
    Absent = Absent
    Faults = {"create", "companion", "data", "row"}
SYMMETRY HashSymmetry
INVARIANTS
    ReadsItsContent
PROPERTIES
    ReopenFindsTheSame
    BlockIsAllOrNothing
