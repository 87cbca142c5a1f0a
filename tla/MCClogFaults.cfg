SPECIFICATION FairSpec
CONSTANTS
    Writer = {w1, w2}
    MaxTx = 2
    MaxIoErrors = 2
    TornWrites = TRUE
INVARIANTS
    OneOutcome
    VisibleIsDurable
    SlotExclusive
PROPERTIES
    AnswerIsFinal
    AppendReturns
CHECK_DEADLOCK FALSE
