SPECIFICATION FairSpec
CONSTANTS
    Programs <- MCPrograms
    RamAddresses = {16, 300}
    RamStart = 250
    CursorMax = 70000
    Unplaced = Unplaced
INVARIANTS
    TypeOK
    WalksBounded
    UnstableOnlyFromRam
    PlacementAgrees
    OperandsTrue
    NoMissedNarrowing
CHECK_DEADLOCK FALSE
PROPERTIES
    Terminates
