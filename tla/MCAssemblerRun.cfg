SPECIFICATION RunSpec
CONSTANTS
    bin = bin
    listing = listing
    xref = xref
    summary = summary
    manifest = manifest
    model = model
    diagnosis = diagnosis
    Outputs = {bin, listing, xref, summary, manifest, model, diagnosis}
    Binary = bin
    Listing = listing
    Manifest = manifest
    Model = model
    Diagnosis = diagnosis
    Sidecars <- MCSidecars
    ExitOf <- MCExitOf
    Requests <- MCRequests
    Destinations <- MCDestinations
INVARIANTS
    SuccessIsComplete
    FailurePreserves
    DocumentsTellTruth
    ComparesThisBinary
PROPERTIES
    Ends
CHECK_DEADLOCK FALSE
