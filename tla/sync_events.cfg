CONSTANTS
    t1 = t1
    t2 = t2
    k1 = k1
    k2 = k2
    w1 = w1
    w2 = w2
    c1 = c1
    c2 = c2
    Txns = {t1, t2}
    Keys = {k1}
    Workflows = {w1}
    WorkflowOf <- OneWorkflow
    Contents = {c1, c2}
    Mode <- AllIncremental
    OnDuplicate <- AllUpdate
    MaxRetries = 2
    Origins = {"event"}
    AdminOps = {"clear"}
    NoTxn = NoTxn
    NoKey = NoKey
    NoContent = NoContent
    FailureBound = 3
    MayCrash = FALSE
SPECIFICATION FairSpec
INVARIANTS LedgerMatchesTarget
PROPERTY FailedIsRetried
