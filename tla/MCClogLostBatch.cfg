SPECIFICATION Spec
CONSTANTS
    Writer = {w1, w2}
    MaxTx = 2
    MaxIoErrors = 1
    TornWrites = FALSE
INVARIANTS
    AckedIsDurable
