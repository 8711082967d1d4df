SPECIFICATION MCSpec
CONSTANTS
  Capability <- MCCapability
  Candidate <- MCCandidate
  MaxSessionDuration = 2
INVARIANTS
  HardConstraints
  DecisionIsValid
  OrderIndependent
  StateParses
  AttemptFits
PROPERTIES
  PolicyImplemented
CHECK_DEADLOCK FALSE
