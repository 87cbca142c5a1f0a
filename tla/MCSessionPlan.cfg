SPECIFICATION SessionSpec
CONSTANTS
    c1 = c1
    c2 = c2
    Conns = {c1, c2}
    r1 = r1
    r2 = r2
    Rows = {r1, r2}
    MaxTxNo = 3
    MaxVersion = 4
    SessionWorkloads <- PlansAndDrops
INVARIANT AdmittedPlanIsValid
CHECK_DEADLOCK FALSE
