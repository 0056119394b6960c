SPECIFICATION Spec
CONSTANTS
  t1 = t1
  t2 = t2
  Tables <- MCTables
  Kinds <- Inserts
  MultiTable = TRUE
  PowerLoss = FALSE
  FaultAt <- NoFaults
  MaxClock = 1
  MaxCrashes = 1
  MaxFaults = 0
SYMMETRY Symmetry
INVARIANT
  TxnAtomic
