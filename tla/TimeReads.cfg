SPECIFICATION QuestionsSpec
CONSTANTS
  MonthLen <- MCMonthLen
  DayMs = 2
  Sub = 2
  YearMonths = 3
  Starts <- MCStarts
  Bounds <- MCBounds
  Grids <- MCGrids
  Offsets <- MCOffsets
  ZoneWords <- MCZoneWords
  KnownZones <- MCKnownZones
  Floats = {1, 2}
  MaxLen = 4
  CatalogRows <- MCCatalogRows
  Components = {1, 2, 3}
  IdsPerQuery = 2
INVARIANTS
  GridsAreExact
  SpellingsReadBack
  ValuesReadBack
  ReadsAreExact
  ViewsTellTheTruth
  QueriesAgree
  AssociationsHold
