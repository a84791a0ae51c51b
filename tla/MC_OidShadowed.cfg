CONSTANTS
    N = 3
    Symbols <- MCSymbols
    Arcs <- MCArcs
    WellKnown <- MCWellKnown
    Listings <- MCDistinct
    Importings <- MCImportings
    Requested = {misnamed}
    aliases <- MCaliases
    Rounds = 2
    None = None
SPECIFICATION Spec
INVARIANT OwnDefinitionsFirst
CHECK_DEADLOCK FALSE
