CONSTANTS
  p1 = p1
  p2 = p2
  r1 = r1
  r2 = r2
  Peers = {p1}
  Runs = {r1}
  RunOf <- SameRun
  MaxEvents = 3
  Limit = 4
  MaxBatch = 2
  MaxFaults = 2
SPECIFICATION Spec
INVARIANTS AcceptedEventsAreDurable DrainedRunsAreLogged LogsAreInOrderOnce
CHECK_DEADLOCK FALSE
