SPECIFICATION Spec
CONSTANTS
  t1 = t1
  t2 = t2
  Tables <- MCTables
  Kinds <- AllStatements
  MultiTable = FALSE
  PowerLoss = TRUE
  FaultAt <- NoFaults
  MaxClock = 2
  MaxCrashes = 1
  MaxFaults = 0
SYMMETRY Symmetry
INVARIANT
  DeletionsKept
