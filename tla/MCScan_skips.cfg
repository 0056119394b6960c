SPECIFICATION TableSpec
CONSTANTS
  Null = Null
  WordBits = 4
  NarrowBits = 2
  Names = {"v", "w"}
  FirstColumns <- MCFirstColumns
  CellsOf <- MCCellsOf
  Defaults <- MCDefaults
  Literals <- MCLiterals
  Limits <- MCLimits
  MaxRows = 3
  MaxCells = 4
  MaxPages = 2
  MaxDead = 0
  MaxAlters = 0
INVARIANT SkipsSound
CHECK_DEADLOCK FALSE
