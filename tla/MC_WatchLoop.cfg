SPECIFICATION FairSpec
CONSTANTS
    None = None
    Names <- MCNames
    Texts <- MCTexts
    Imports <- MCImports
    Broken <- MCBroken
    Holds <- MCHolds
    InitialFiles <- SomeFiles
    InitialNames <- OneName
    InitialCaches <- MCCaches
    Expiries <- MCExpiries
    MaxChanges = 2
CHECK_DEADLOCK FALSE
INVARIANT SettledIsFresh
INVARIANT ExitContract
INVARIANT WorkIsScheduled
PROPERTY DeletionIsSeen
PROPERTY Quiesces
PROPERTY NewestIsCompiled
