CONSTANTS
    W1 = W1
    W2 = W2
    W3 = W3
    Workflows = {W1, W2, W3}
    Root = W1
    NoNode = NoNode
    Nodes = {"a", "b", "m"}
    Kind <- DiamondKind
    Successors <- DiamondEdges
    AfterTrigger <- DiamondStart
    OnError <- Stop
    MaxRetries <- OneRetry
    CatchFrom <- CatchNothing
    Child <- NoChild
    NestLimit <- AllLimits
    ItemError <- AllItems
    Concurrency <- TwoAtATime
    OncePerRun = {}
    Starts = {"trigger"}
    MaxDepth = 3
    ItemBound = 0
    Tasks = {0}
SPECIFICATION Spec
INVARIANT FailureHasCause
