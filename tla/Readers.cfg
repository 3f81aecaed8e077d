SPECIFICATION Spec
CONSTANTS
  MonthLen <- MCMonthLen
  DayMs = 2
  Sub = 2
  YearMonths = 3
  Worlds <- MCWorlds
  BlockCols = 2
  Moments <- MCMoments
  Owners = {1}
  MaxGone = 1
  MaxIds = 2
INVARIANTS
  ReaderHoldsOneInstant
  NothingServedAfterRemoval
  BulkReadsInOrder
