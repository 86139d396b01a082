CONSTANTS
  p1 = p1
  p2 = p2
  r1 = r1
  r2 = r2
  Peers = {p1, p2}
  Runs = {r1, r2}
  RunOf <- TwoRuns
  MaxEvents = 1
  Limit = 3
  MaxBatch = 2
  MaxFaults = 1
SPECIFICATION FairSpec
PROPERTY AcceptedEventsAreLogged
CHECK_DEADLOCK FALSE
