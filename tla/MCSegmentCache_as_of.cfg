SPECIFICATION CacheSpec
CONSTANTS
  Tables <- MCTables
  Queries <- MCQueries
  CacheSizes = {2}
  MaxTs = 2
INVARIANT
  AsOfPerReference
CHECK_DEADLOCK FALSE
