SPECIFICATION StorageSpec
CONSTANTS
    p1 = p1
    p2 = p2
    Pagers = {p1, p2}
    MaxPage = 5
    FirstFree = 4
    StoreWorkloads <- Sound
    MaxStmt = 3
    MaxRowNo = 3
    MaxCrash = 2
    t1 = t1
    t2 = t2
    Threads = {t1, t2}
    MaxKey = 5
    ValueSizes = {2, 3}
    MaxInline = 2
    Usable = 4
    MaxNode = 18
    TreeWorkloads <- Trees
    MaxOps = 4
    k1 = k1
    k2 = k2
    Clients = {k1, k2}
    KeyValues = {1, 2}
    MaxRowId = 6
    MaxTxId = 5
    ConstraintWorkloads <- Schemes
INVARIANTS
    StorageTypeOK
    AckedRowsInFile
    StatementAtomic
    FreePagesHoldNothing
    TreeShape
    TreeContents
    ReadsSound
    EntriesMatchRows
    UniqueKeys
PROPERTIES
    DeleteKeepsReferences
CHECK_DEADLOCK FALSE
