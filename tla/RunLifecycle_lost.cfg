CONSTANTS
  MaxRepetitions = 1
  MaxAgents = 1
  MaxFaults = 1
SPECIFICATION Spec
INVARIANT RecordedErrorsAreKept
CHECK_DEADLOCK FALSE
