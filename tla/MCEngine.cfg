SPECIFICATION EngineSpec
CONSTANTS
    c1 = c1
    c2 = c2
    Conns = {c1, c2}
    r1 = r1
    r2 = r2
    Rows = {r1, r2}
    MaxTxNo = 3
    MaxVersion = 4
    SessionWorkloads <- Sessions
    MaxWorkers = 3
    Capacity = 1
    Queries <- Streams
    MinLeaves = 2
    JoinInputs <- SomeJoins
    BatchRows = 2
    Partitions = 2
    Selects <- SomeSelects
    BatchSize = 2
    SpillAt = 2
    MaxInt = 5
    Exprs <- SomeExprs
    Batches <- SomeBatches
    IntMax = 2
    WrittenQueries <- Questions
    Databases <- Contents
    Schemas <- Catalog
INVARIANTS
    EngineTypeOK
    ReadyIndexComplete
    InFlightIsOwned
    IndexSurvives
    AdmittedPlanFits
    SameAsSerial
    JoinAnswer
    SelectAnswer
    GroupAnswer
    ColumnarAgrees
    RewriteKeepsAnswer
PROPERTIES
    DeadRowsReclaimed
    WorkersReturn
CHECK_DEADLOCK FALSE
