CONSTANTS
    Names <- MCNames
    Asked = {"A"}
    Args <- MCTwice
    Cached <- MCNotCached
    FirstFiles <- MCFiles
    Edits <- MCEdits
    MaxEdits = 0
    IOErrors = FALSE
    Symbols <- MCSymbols
    Arcs <- MCArcs
    WellKnown <- MCWellKnown
    BaseTypes = {"INTEGER"}
    WellKnownNames = {"iso"}
    Numbers = {}
    BaseMibs = {"S"}
    Before <- MCBefore
    Bodies <- MCBodies
    Markers = {"S"}
    None = None
SPECIFICATION Spec
PROPERTIES NoopSecondTime
CHECK_DEADLOCK FALSE
