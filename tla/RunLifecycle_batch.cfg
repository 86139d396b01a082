CONSTANTS
  MaxRepetitions = 3
  MaxAgents = 1
  MaxFaults = 2
SPECIFICATION FairSpec
INVARIANTS StoppedRunsDoNotComplete IterationsDoNotOverlap RecordedErrorsReachTheDisk
PROPERTY BatchesEnd
CHECK_DEADLOCK FALSE
