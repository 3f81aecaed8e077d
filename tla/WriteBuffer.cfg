CONSTANTS
    a1 = a1
    a2 = a2
    a3 = a3
    b1 = b1
    A = A
    B = B
    Hashes = {a1, a2, a3, b1}
    Pools = {A, B}
    NoHash = NoHash
    PoolOf <- MCPoolOf
    ColBytes <- MCColBytes
    ChunkCols <- MCChunkCols
    Budgets = {1, 4}
    WriteFaults = TRUE
    RemoveFaults = TRUE
SPECIFICATION Spec
INVARIANTS
    IndexExact
    ColumnsInArrivalOrder
    BudgetKept
PROPERTIES
    ImplementsPromise
