SPECIFICATION FairSpec
CONSTANTS
    None = None
    Names <- MCNames
    Texts <- MCTexts
    Imports <- MCImports
    Broken <- MCBroken
    Holds <- MCHolds
    InitialFiles <- AllFiles
    InitialNames <- OneName
    InitialCaches <- NoEntries
    Expiries <- Never
    MaxChanges = 2
CHECK_DEADLOCK FALSE
PROPERTY LateEditIsCompiled
