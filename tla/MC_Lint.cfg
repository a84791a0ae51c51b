CONSTANTS
    Names <- MCNames
    Asked = {"A", "B"}
    Args <- MCArgs
    Cached <- MCCached
    FirstFiles <- MCFiles
    Edits <- MCEdits
    MaxEdits = 1
    IOErrors = TRUE
    Symbols <- MCSymbols
    Arcs <- MCArcs
    WellKnown <- MCWellKnown
    BaseTypes = {"INTEGER"}
    WellKnownNames = {"iso"}
    Numbers = {}
    BaseMibs = {"S"}
    Before <- MCBefore
    Bodies <- MCBodies
    Markers = {"S"}
    None = None
SPECIFICATION Spec
INVARIANT FindingsAccounted FixesAreExact TypesAreExact
PROPERTIES RewritesResolvedSource Settles
CHECK_DEADLOCK FALSE
