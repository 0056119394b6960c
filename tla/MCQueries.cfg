SPECIFICATION MCSpec
CONSTANTS
    Null = Null
    Err = Err
    WordBits = 4
    StatementNarrowBits = 3
    ChunkRows = 2
    HeapMax = 3
    Catalog <- TwoTables
    Statements <- AllStatements
    Inserts <- SomeInserts
    MaxSegments <- TwoAndOne
    FailsAfter = {1}
    Segments <- MCSegments
    Parallelism = 2
    TopK = FALSE
    NarrowBits = 2
    Names = {"v", "w"}
    FirstColumns <- MCFirstColumns
    CellsOf <- MCCellsOf
    Defaults <- MCDefaults
    Literals <- MCLiterals
    Limits <- MCLimits
    MaxRows = 3
    MaxCells = 4
    MaxPages = 2
    MaxDead = 1
    MaxAlters = 1
INVARIANTS
    TypeOK
    EndIsComplete
    AnswersExact
    ErrorsAccounted
    TableTypeOK
    ScanExact
    TopKExact
    MetadataExact
PROPERTIES
    ImplementsSource
    ScanCloseReturns
CHECK_DEADLOCK FALSE
