SPECIFICATION Spec
CONSTANTS
  Creator = {c1}
  Terminator = {t1, t2}
  Reconciler = {}
  Key = {k1}
  Body = {b1}
  MaxConcurrentSessions = 1
  MaxFaults = 0
CHECK_DEADLOCK FALSE
INVARIANTS
  DeleteIsIdempotent
