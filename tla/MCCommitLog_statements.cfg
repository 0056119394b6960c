SPECIFICATION FairSpec
CONSTANTS
  t1 = t1
  t2 = t2
  Tables <- MCTables
  Kinds <- InsertUpdate
  MultiTable = FALSE
  PowerLoss = TRUE
  FaultAt <- EarlyFaults
  MaxClock = 3
  MaxCrashes = 2
  MaxFaults = 1
INVARIANTS
  TypeOK
  StagedPathsFresh
  CommitTsFresh
  SnapshotIntact
  StoreInv
PROPERTIES
  ImplementsAtomicStore
  RecoveryCompletes
