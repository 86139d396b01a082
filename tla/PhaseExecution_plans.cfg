SPECIFICATION Spec
CONSTANTS
  Agents = {a1, a2}
  Plans <- LongPlans
  PublishingGroups <- Anything
  Capacity = 1
  Overridden = {a1}
  MaxJob = 3
  MaxPeers = 3
  MaxFaults = 1
INVARIANTS
  NamesResolve
  ResultsTellFailures
  EarlierGenerationsAreGone
PROPERTIES
  FailedRunsEnd
CHECK_DEADLOCK FALSE
