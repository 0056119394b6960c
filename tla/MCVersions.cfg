SPECIFICATION MCSpec
CONSTANTS
  Paths <- MCPaths
  DVPaths <- MCDVPaths
  MaxRecords = 3
  MaxTrouble = 1
  Keys = {k1, k2, k3}
  MaxStatements = 4
  MaxTs = 4
  MaxCommits = 4
  MaxRows = 2
  MaxReopens = 1
  Tables <- MCTables
  Queries <- MCQueries
  CacheSizes = {1, 2}
  Sizes = {1, 3}
  MaxAppends = 3
  Maintenance = {"compact", "vacuum", "retention"}
INVARIANTS
  LevelTypeOK
  SinceCleanupExact
  NoRowTwice
  ViewsAgree
  SnapshotsStable
  VersionsConsecutive
  OneRewriteExact
  OpenHandlesBounded
  HandlesStayOpen
  OneSnapshotRead
  OpenAccepts
PROPERTIES
  CommitPublishesOverlay
  RollbackLeavesNoFile
  ImplementsDurableLog
