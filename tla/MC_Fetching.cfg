CONSTANTS
    Tasks = {t1, t2}
    Chain <- MCChain
    Slots = 2
    Urls = 2
    Retries = 2
    MaxSize = 2
    Archives <- MCArchives
    Layouts <- MCLayouts
    Names <- MCNames
    Mib <- MCMib
    Nested <- MCNested
    Bad = {5}
    Edits = 1
    None = None
SPECIFICATION FairSpec
INVARIANT FetchingInv NoErrorIsPassedOver PathOfSupplier
PROPERTIES ScanBudget Termination
CHECK_DEADLOCK FALSE
