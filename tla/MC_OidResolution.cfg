CONSTANTS
    N = 3
    Symbols <- MCSymbols
    Arcs <- MCArcs
    WellKnown <- MCWellKnown
    Listings <- MCListings
    Importings <- MCImportings
    Requested = {misnamed}
    aliases <- MCaliases
    Rounds = 2
    None = None
SPECIFICATION FairSpec
INVARIANT Grounded NothingMissed
PROPERTIES Idempotent Termination
CHECK_DEADLOCK FALSE
