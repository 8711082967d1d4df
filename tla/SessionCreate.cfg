SPECIFICATION Spec
CONSTANTS
  Creator = {c1, c2}
  Terminator = {}
  Reconciler = {r1}
  Key = {k1, k2}
  Body = {b1, b2}
  MaxConcurrentSessions = 1
  MaxFaults = 1
CHECK_DEADLOCK FALSE
SYMMETRY Symmetry
INVARIANTS
  QuotaRespected
  SingleAllocation
  OneBrowserPerSession
  CreatedIsDurable
  FailedCreateIsClean
