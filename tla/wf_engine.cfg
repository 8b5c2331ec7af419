CONSTANTS
    W1 = W1
    W2 = W2
    W3 = W3
    Workflows = {W1, W2, W3}
    Root = W1
    NoNode = NoNode
    Nodes = {"a", "p", "b", "c", "d", "r", "e", "f", "h", "l", "s1", "q", "s2", "s3", "y", "z", "x", "k", "m"}
    Kind <- AllKinds
    Successors <- AllEdges
    AfterTrigger <- AllTriggers
    OnError <- AllOnError
    MaxRetries <- OneRetry
    CatchFrom <- AllCatch
    Child <- AllChildren
    NestLimit <- AllLimits
    ItemError <- AllItems
    Concurrency <- TwoAtATime
    OncePerRun = {"a", "b", "d", "h"}
    Starts = {"trigger", "p", "r", "l", "x", "m"}
    MaxDepth = 4
    ItemBound = 2
    Tasks = {0, 1, 2}
SPECIFICATION FairSpec
INVARIANTS TypeOK NoOrphanTasks ChainAcyclic NoRepeatedEffects FailureHasCause ErrorNodeRecorded
PROPERTY ExecutionEnds
