SPECIFICATION Spec
CONSTANTS
    Conn = {c1, c2}
    Relay = {r1}
    LeaseTTL = 3
    CheckInterval = 1
    ConnectTimeout = 1
    DrainTimeout = 3
    CallDelay = 0
    MaxFaults = 0
    MaxFlushes = 0
INVARIANTS
    NoLeakedOwnership
