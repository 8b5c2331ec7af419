CONSTANTS
    d1 = d1
    d2 = d2
    m1 = m1
    m2 = m2
    Dispatches = {d1, d2}
    Calls = {d1, d2}
    Checks = {d1, d2}
    Monitors = {m1, m2}
    Deployments = {{d1, d2}, {d1, m1, m2}}
    FailureThreshold = 2
    MaxRetries = 1
    Burst = 1
    Capacity = 1
    LagBound = 1
    Max429 = 1
    DisableThreshold = 2
    FaultBound = 3
SPECIFICATION FairSpec
INVARIANTS TypeOK BreakerMatchesCount MatchesAtomicBucket EffectsBounded
PROPERTIES BreakerRecovers DeadIsDisabled
CHECK_DEADLOCK FALSE
