CONSTANTS
    t1 = t1
    t2 = t2
    k1 = k1
    k2 = k2
    w1 = w1
    w2 = w2
    c1 = c1
    c2 = c2
    Txns = {t1, t2}
    Keys = {k1, k2}
    Workflows = {w1, w2}
    WorkflowOf <- TwoWorkflows
    Contents = {c1}
    Mode <- IncrementalAndForce
    OnDuplicate <- UpdateAndSkip
    MaxRetries = 1
    Origins = {"event", "direct"}
    AdminOps = {"reset", "clear"}
    NoTxn = NoTxn
    NoKey = NoKey
    NoContent = NoContent
    FailureBound = 1
    MayCrash = TRUE
SPECIFICATION Spec
SYMMETRY Symmetry
INVARIANTS TypeOK MutualExclusion NoRedundantExecution SyncedWasDelivered
PROPERTY LockProtectsRow
