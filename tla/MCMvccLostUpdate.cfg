SPECIFICATION Spec
CONSTANTS
    s1 = s1
    s2 = s2
    x = x
    y = y
    Session = {s1, s2}
    Item = {x, y}
    Loaded = {x}
    Workloads <- Racing
    MaxTx = 3
    MaxRow = 3
INVARIANTS
    OneLiveVersion
CHECK_DEADLOCK FALSE
