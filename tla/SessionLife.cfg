SPECIFICATION FairSpec
CONSTANTS
  Creator = {c1}
  Terminator = {t1}
  Reconciler = {r1}
  Key = {k1}
  Body = {b1}
  MaxConcurrentSessions = 1
  MaxFaults = 2
CHECK_DEADLOCK FALSE
INVARIANTS
  TerminatedMeansReleased
  ReceivedAccounted
PROPERTIES
  PromiseKept
  UnfinishedSettles
  FailedClaimsSettle
