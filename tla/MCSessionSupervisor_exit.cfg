CONSTANTS
    s1 = s1
    s2 = s2
    Sessions <- TwoSessions
    MaxRetry = 2
    Args <- MCArgs
SPECIFICATION Spec
INVARIANT ExitStatusReportsFailure
CHECK_DEADLOCK FALSE
