CONSTANTS
  Window = 2
  Uncertainty = 1
  QueueSize = 4
  MaxTime = 5
  MaxSequence = 4
  MaxSyncs = 1
SPECIFICATION Spec
INVARIANTS
  VerdictsAreTrue
PROPERTIES
  VerdictsAreFinal
CHECK_DEADLOCK FALSE
