SPECIFICATION Spec
CONSTANTS
    Hashes = {h1, h2}
    Axes = {x1}
    Pools = {p1}
    DefaultCols = 3
    ChunkCols <- MCChunkCols
    MaxCols = 2
    MaxBlock = 2
    MaxSets = 2
    Free = Free
    Zero = Zero
    Torn = Torn
    Own = Own
    Absent = Absent
    Faults = {"create", "companion", "data", "row", "clear", "zero", "unlink",
              "cleanup"}
SYMMETRY HashSymmetry
INVARIANTS
    RowsTellTheTruth
