SPECIFICATION TxSpec
CONSTANTS
  k1 = k1
  k2 = k2
  k3 = k3
  Keys <- MCKeys
  MaxStatements = 3
SYMMETRY Symmetry
INVARIANT
  ReadYourWrites
