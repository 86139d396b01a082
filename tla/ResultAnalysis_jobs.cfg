SPECIFICATION Spec
CONSTANTS
  RunCount = 2
  MaxRequests = 2
  MaxEvents = 2
  JobLimit = 2
  MeasureLimit = 1
INVARIANTS
  SizesAreExact
  WaitsAreForWork
  ShownAnalysesAreCurrent
  DeletedRunsStayDeleted
CHECK_DEADLOCK FALSE
