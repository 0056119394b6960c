SPECIFICATION CatalogSpec
CONSTANTS
  x = x
  y = y
  z = z
  TableNames = {t1, t2}
  ColumnNames = {x, y, z}
  TypeNames = {color}
  FirstColumns <- TwoColumns
  PlanCacheMax = 1
  MaxGeneration = 3
  MaxRestarts = 0
  MaxFailures = 0
INVARIANTS
  MapsShareCatalog
CHECK_DEADLOCK FALSE
