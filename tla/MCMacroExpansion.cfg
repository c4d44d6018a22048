SPECIFICATION Spec
CONSTANTS
    Programs <- MCPrograms
    Levels = {1}
    NestingLimit = 6
    TurnLimit = 2
    RefLimit = 2
INVARIANT ExpandedAsWritten
CHECK_DEADLOCK FALSE
