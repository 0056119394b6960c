SPECIFICATION MCSpec
CONSTANTS
  t1 = t1
  t2 = t2
  x = x
  y = y
  Tables <- MCTables
  Kinds <- InsertUpdate
  MultiTable = TRUE
  PowerLoss = TRUE
  FaultAt <- EarlyFaults
  MaxClock = 2
  MaxCrashes = 2
  MaxFaults = 1
  TableNames <- MCTables
  ColumnNames = {x, y}
  TypeNames = {color}
  FirstColumns <- TwoColumns
  PlanCacheMax = 1
  MaxGeneration = 3
  MaxRestarts = 1
  MaxFailures = 1
SYMMETRY Symmetry
INVARIANTS
  CatalogTypeOK
  GroupsAreSingletons
  IInv
  CatalogValid
  CrashLoadsAcknowledged
  ColumnIdsKeepMeaning
  PlanHitsFresh
CHECK_DEADLOCK FALSE
