SPECIFICATION Spec
CONSTANTS
  n1 = n1
  n2 = n2
  r1 = r1
  r2 = r2
  w1 = w1
  w2 = w2
  Nodes = {n1, n2}
  Runs = {r1}
  MaxGeneration = 2
  Capacities = {1, 2}
  Mortal = {n1, n2}
  Requests = {w1}
  MaxFailures = 1
SYMMETRY Perms
INVARIANTS
  TypeOK
  CapacityIsRespected
  FailedCleanupIsRetryable
  StoppedGenerationIsGone
  RunningPeersAreCharged
  OneTerminationPerPeer
  CleanExitLeavesNoPeers
PROPERTIES
  StopIsFinal
