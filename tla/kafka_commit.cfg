CONSTANTS
    b1 = b1
    b2 = b2
    p1 = p1
    t1 = t1
    t2 = t2
    Bridges = {b1}
    Partitions = {p1}
    Last = 2
    KindOf <- BrokenFirst
    Tenants = {t1, t2}
    None = None
    FaultBound = 0
SPECIFICATION Spec
INVARIANT RaisedNotCommitted
CHECK_DEADLOCK FALSE
