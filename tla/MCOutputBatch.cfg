SPECIFICATION Spec
CONSTANTS
    Outputs = {bin, listing, xref}
    Binary = bin
    bin = bin
    listing = listing
    xref = xref
INVARIANTS
    TypeOK
    OldContentKept
    AllOrNothing
    NeverTorn
    NothingLeftBehind
PROPERTIES
    FinishReturns
    Atomic
