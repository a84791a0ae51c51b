CONSTANTS
    Names <- MCNames
    BaseMibs = {"S"}
    Resolutions <- MCResolutions
    Configs <- MCConfigs
    OidsOf <- MCOids
    MaxRuns = 2
    None = None
SPECIFICATION Spec
INVARIANT SidecarsAreBacked IndexIsUnambiguous ReportIsExact CleanExitIsComplete
CHECK_DEADLOCK FALSE
