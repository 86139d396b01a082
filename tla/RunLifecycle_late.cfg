CONSTANTS
  MaxRepetitions = 1
  MaxAgents = 0
  MaxFaults = 1
SPECIFICATION Spec
INVARIANT RecordedErrorsFailTheRun
CHECK_DEADLOCK FALSE
