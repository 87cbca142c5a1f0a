SPECIFICATION Spec
CONSTANTS
    s1 = s1
    s2 = s2
    x = x
    y = y
    Session = {s1, s2}
    Item = {x, y}
    Loaded = {x}
    Workloads <- Sound
    MaxTx = 4
    MaxRow = 3
INVARIANTS
    TypeOK
    SnapshotStableAboveWatermark
    UncontestedViewIsDb
    ConflictIsRealWhileUp
CHECK_DEADLOCK FALSE
