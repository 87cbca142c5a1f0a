SPECIFICATION Spec
CONSTANTS
    s1 = s1
    s2 = s2
    x = x
    y = y
    Session = {s1, s2}
    Item = {x, y}
    Loaded = {x}
    Workloads <- Truncating
    MaxTx = 3
    MaxRow = 3
INVARIANTS
    FreshViewIsDb
CHECK_DEADLOCK FALSE
