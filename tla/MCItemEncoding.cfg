CONSTANTS
    NaNValue = NaNValue
    NaN <- NaNValue
    W = 8
    Inputs <- MCInputs
SPECIFICATION Spec
INVARIANT TypeOK
INVARIANT ItemRoundTrip
CHECK_DEADLOCK FALSE
