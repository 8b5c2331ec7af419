CONSTANTS
    r1 = r1
    r2 = r2
    s1 = s1
    f1 = f1
    x1 = x1
    Requests = {r1, r2}
    Sessions = {s1}
    Workers <- AllWorkers
    Flows = {f1}
    OnErrorOf <- Retrying
    RetriesOf <- OneRetry
    NoFlow = NoFlow
    ExternalId <- SameId
    NoId = NoId
    NoWorker = NoWorker
    DeadLetterAfter = 2
    AttemptBound = 1
    Expires = TRUE
SPECIFICATION FairSpec
INVARIANTS TypeOK SingleProcessing NoLateDuplicate RetriesHappened
PROPERTIES ProcessedSettlesFlows AcceptedIsProcessed
