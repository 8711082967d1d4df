SPECIFICATION FairSpec
CONSTANTS
    Worker = {w1, w2}
    Caller = {a1}
    Session = {s1}
    Key = {k1}
    Body = {b1}
    Kind = {"extract", "artifact"}
    MaxTasks = 1
    MaxQueued = 2
    MaxRecent = 2
    Window = 0
    RunningLimits = {2}
    MaxAttempts = 2
    LeaseTTL = 4
    MaxRetryDelay = 1
    ExecutionTimeout = 2
    ClaimDelay = 1
    QueryDelay = 1
    MaxFaults = 2
INVARIANTS
    ArtifactStored
    ExecutionCovered
PROPERTIES
    OwnerDecides
    PromiseKept
    TasksFinish
