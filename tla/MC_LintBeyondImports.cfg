CONSTANTS
    Names <- MCNames
    Asked = {"A", "B"}
    Args <- MCArgs
    Cached <- MCCached
    FirstFiles <- MCFiles
    Edits <- MCEdits
    MaxEdits = 1
    IOErrors = TRUE
    Symbols <- MCSymbols
    Arcs <- MCArcs
    WellKnown <- MCWellKnown
    BaseTypes = {"INTEGER"}
    WellKnownNames = {"iso"}
    Numbers = {}
    BaseMibs = {"S"}
    Before <- MCBefore
    Bodies <- MCBodies
    Markers = {"S"}
    None = None
SPECIFICATION Spec
PROPERTIES OnlyImportsChange
CHECK_DEADLOCK FALSE
