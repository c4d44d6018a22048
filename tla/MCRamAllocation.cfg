SPECIFICATION FairSpec
CONSTANTS
    Scripts <- MCScripts
    Unresolved = Unresolved
    Unplaced = Unplaced
INVARIANTS
    TypeOK
    NothingSharesBytes
    NoByteIsLost
    PlacedAsDeclared
    GivesUpOnlyWhenFull
    OrderAsSpecified
PROPERTIES
    FirstFit
    Terminates
CHECK_DEADLOCK FALSE
