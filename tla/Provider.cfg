SPECIFICATION Spec
CONSTANTS
  Caller = {c1, c2, c3}
  Session = {s1, s2}
  Nobody = Nobody
  ErrorResponse = {"server", "rejected"}
  MaxTimeout = 2
  CleanupTimeout = 1
  CacheSize = 1
  CacheTTL = 2
SYMMETRY Symmetry
INVARIANTS
  OneDeleteInFlight
  TerminatedIsGone
  OwnInterruptionOnly
PROPERTIES
  DeadlinesKept
CHECK_DEADLOCK FALSE
