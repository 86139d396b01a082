SPECIFICATION FairSpec
CONSTANTS
  n1 = n1
  n2 = n2
  r1 = r1
  r2 = r2
  w1 = w1
  w2 = w2
  Nodes = {n1}
  Runs = {r1}
  MaxGeneration = 2
  Capacities = {1}
  Mortal = {n1}
  Requests = {w1, w2}
  MaxFailures = 1
PROPERTIES
  ImplementsRunBarrier
  StopLeadsToExit
  RequestsAreAnswered
