CONSTANTS
    c1 = c1
    s1 = s1
    Records = {c1, s1}
    Sources <- MCSources
    Limit = 3
    MaxAttempts = 2
    ChangeBound = 1
    FaultBound = 4
SPECIFICATION FairSpec
PROPERTIES IsOutbox OnlyRetriesGoBack CloudCatchesUp
CHECK_DEADLOCK FALSE
