SPECIFICATION Spec
CONSTANTS
  RunCount = 2
  MaxRequests = 2
  MaxEvents = 2
  JobLimit = 2
  MeasureLimit = 1
CHECK_DEADLOCK FALSE
PROPERTY DeletedBatchesStayDeleted
