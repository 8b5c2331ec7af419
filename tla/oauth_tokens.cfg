CONSTANTS
    f1 = f1
    r1 = r1
    a1 = a1
    a2 = a2
    Refreshers = {f1}
    Requests = {r1}
    Attempts = {a1, a2}
    Vault = Vault
    None = None
    GenBound = 2
    RequestBound = 3
    AgeBound = 1
    FaultBound = 1
SPECIFICATION FairSpec
INVARIANTS TypeOK StoredTokenAccepted VaultMatchesRow
PROPERTIES RevocationSticks LossHasCause DueIsHandled
CHECK_DEADLOCK FALSE
