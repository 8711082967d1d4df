SPECIFICATION Spec
SYMMETRY Symmetry
CONSTANTS
  new1 = new1
  new2 = new2
  old = old
  Run = {new1, new2, old}
  Directory <- MCDirectory
  OnlineIndex = {2, 4}
  MaxFaults = 2
INVARIANTS
  LedgerTruthful
  ReadyMeansMigrated
  RerunSucceeds
CHECK_DEADLOCK FALSE
