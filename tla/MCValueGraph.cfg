SPECIFICATION FairSpec
CONSTANTS
    Bits = 4
    ExtentMax = 3
    StringMax = 4
    LiveMax = 8
    Epochs = 3
    NodeLimit = 6
    Unplaced = Unplaced
    Definitions <- MCDefinitions
    Anchors <- MCAnchors
    Addresses <- MCAddresses
    Units <- MCUnits
INVARIANTS TypeOK MemosFollowOperands StringsAreMadeOnce AnswerIsTrue
PROPERTY QueriesEnd
\* A unit that is poisoned has nothing more to do.
CHECK_DEADLOCK FALSE
