SPECIFICATION BindingsSpec
CONSTANTS
  MaxBatch = 1
  MaxLive = 3
  MaxText = 3
  MaxStack = 3
  MaxDepth = 2
  MaxBlocks = 2
INVARIANTS
  NothingOrphaned
  FailureIsClean
  TextFits
  NothingChangesUnderACall
