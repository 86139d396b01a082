CONSTANTS
  a1 = a1
  a2 = a2
  n1 = n1
  n2 = n2
  NoAgent = NoAgent
  Agents = {a1, a2}
  Nodes = {n1, n2}
  Capacity <- OneSlot
  MaxInstances = 2
  MaxReports = 4
  MaxInFlight = 2
  MaxRestarts = 1
SYMMETRY Perms
CONSTRAINT Bounded
SPECIFICATION Spec
INVARIANTS OneAgentPerNode CapacityIsAccounted LiveRecordsHaveAPeer AcknowledgedExitsAreKnown
PROPERTY StopIsNotUndone
CHECK_DEADLOCK FALSE
