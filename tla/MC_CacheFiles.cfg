CONSTANTS
    Proc = {p1, p2}
    Names = {1, 2}
    Texts = {1, 2}
    Temps = {f1, f2}
    Holds <- MCHolds
    None = None
    CacheError = CacheError
SPECIFICATION Spec
SYMMETRY Symmetric
INVARIANT NoLitter
PROPERTIES PublishedWhole ImplementsAtomicCache
