CONSTANTS
  MaxRepetitions = 2
  MaxFresh = 1
  MaxFaults = 1
  MaxCrashes = 2
SPECIFICATION Spec
INVARIANTS
  AdmissionIsAtomic
  OneCurrentAttemptPerIteration
  WorkIsDoneOnce
CHECK_DEADLOCK FALSE
