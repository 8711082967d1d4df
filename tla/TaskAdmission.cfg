SPECIFICATION Spec
CONSTANTS
    Worker = {w1, w2}
    Caller = {a1, a2}
    Session = {s1, s2}
    Key = {k1, k2}
    Body = {b1, b2}
    Kind = {"extract"}
    MaxTasks = 2
    MaxQueued = 2
    MaxRecent = 1
    Window = 1
    RunningLimits = {1, 2}
    MaxAttempts = 1
    LeaseTTL = 3
    MaxRetryDelay = 1
    ExecutionTimeout = 1
    ClaimDelay = 1
    QueryDelay = 1
    MaxFaults = 0
INVARIANTS
    QuotasRespected
    OneBrowserUser
    AnswersAgree
SYMMETRY Symmetry
