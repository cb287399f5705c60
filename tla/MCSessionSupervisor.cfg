CONSTANTS
    s1 = s1
    s2 = s2
    Sessions <- OneSession
    MaxRetry = 10
    Args <- MCArgs
SPECIFICATION Spec
INVARIANT TypeOK
INVARIANT BackoffFollowsSchedule
INVARIANT GivesUpAfterMaxAttempts
INVARIANT StatusStream
CHECK_DEADLOCK FALSE
