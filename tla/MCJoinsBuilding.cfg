SPECIFICATION JoinSpec
CONSTANTS
    JoinInputs <- SomeJoins
    BatchRows = 2
    Partitions = 2
INVARIANT
    JoinIsSql
CHECK_DEADLOCK FALSE
