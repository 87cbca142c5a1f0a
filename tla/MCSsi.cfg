SPECIFICATION Spec
CONSTANTS
    t1 = t1
    t2 = t2
    t3 = t3
    x = x
    y = y
    z = z
    None = None
    Txn = {t1, t2}
    Item = {x, y, z}
    Loaded = {x, y}
    Reads <- Everything
    Writes <- OwnItem
    Workloads <- Every
INVARIANTS
    TypeOK
    EdgeMarked
    LockCatchesWriter
PROPERTIES
    PairIsBroken
CHECK_DEADLOCK FALSE
