SPECIFICATION Spec
CONSTANTS
    Writer = {w1, w2, w3}
    MaxTx = 3
    MaxIoErrors = 0
    TornWrites = FALSE
INVARIANTS
    TypeOK
    AckedIsDurable
    NoRecordBelowFloor
PROPERTIES
    ImplementsCommitLog
SYMMETRY WriterSymmetry
