SPECIFICATION FairSpec
CONSTANTS
    Scripts <- MCPlacements
    Unresolved = Unresolved
    Unplaced = Unplaced
INVARIANTS
    ZeroPageObjectsStayThere
CHECK_DEADLOCK FALSE
