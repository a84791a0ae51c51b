CONSTANTS
    Names <- MCNames
    Texts <- MCTexts
    None = None
    BaseMibs = {4}
    Declares <- MCDeclares
    Imports <- MCImports
    Broken <- MCBroken
    Holds <- AnyText
    Local = {1, 2}
    NotFound = NotFound
    TransportError = TransportError
    SizeLimit = SizeLimit
    Unfetched = Unfetched
    InitialCaches <- MCCaches
    RequestSets <- MCRequestSets
SPECIFICATION FairSpec
INVARIANT ClosureComplete NeverRefetched HonestSupplier
INVARIANT FailuresAreNotModules CachedIsAccurate SourceIsAccurate SizeLimitPropagates
PROPERTIES ResolvedNeverFails FreshReplacesFallback Termination
CHECK_DEADLOCK FALSE
