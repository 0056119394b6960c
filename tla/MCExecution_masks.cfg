SPECIFICATION Spec
CONSTANTS
    Null = Null
    Err = Err
    WordBits = 4
    NarrowBits = 3
    ChunkRows = 2
    HeapMax = 3
    Catalog <- TwoTables
    Statements <- MaskStatements
    Inserts <- SomeInserts
    MaxSegments <- OneEach
    FailsAfter = {1}
INVARIANT
    NarrowsAndUnions
CHECK_DEADLOCK FALSE
