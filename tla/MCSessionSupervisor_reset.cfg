CONSTANTS
    s1 = s1
    s2 = s2
    Sessions <- OneSession
    MaxRetry = 10
    Args <- MCArgs
SPECIFICATION Spec
INVARIANT GivesUpOnlyAfterConsecutiveFailures
CHECK_DEADLOCK FALSE
