SPECIFICATION Spec
CONSTANTS
    Programs <- MCHomonyms
    Levels = {1}
    NestingLimit = 6
    TurnLimit = 2
    RefLimit = 2
PROPERTY ArgumentsMeanTheCaller
CHECK_DEADLOCK FALSE
