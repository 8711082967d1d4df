SPECIFICATION FairSpec
CONSTANTS
    Conn = {c1, c2}
    Relay = {r1}
    LeaseTTL = 2
    CheckInterval = 1
    ConnectTimeout = 1
    DrainTimeout = 1
    CallDelay = 0
    MaxFaults = 1
    MaxFlushes = 1
INVARIANTS
    StalePairsClose
PROPERTIES
    EndedSettles
