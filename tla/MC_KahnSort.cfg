CONSTANTS
    Names <- FourNames
    None = None
    Inputs <- AllInputs
SPECIFICATION Spec
INVARIANT DepsComeFirst OutcomeIsExact
CHECK_DEADLOCK FALSE
