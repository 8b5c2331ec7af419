CONSTANTS
    b1 = b1
    b2 = b2
    p1 = p1
    t1 = t1
    t2 = t2
    Bridges = {b1, b2}
    Partitions = {p1}
    Last = 4
    KindOf <- EventsAndOthers
    Tenants = {t1, t2}
    None = None
    FaultBound = 2
SPECIFICATION FairSpec
INVARIANTS CommittedWasHandled TenantsSettled
PROPERTIES CommittedForward EventuallyHandled
CHECK_DEADLOCK FALSE
