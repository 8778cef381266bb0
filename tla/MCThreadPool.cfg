SPECIFICATION Spec
CONSTANTS
  Graphs <- MCGraphs
  NThreads = 3
  PlanThreads = {1, 2, 4}
  MaxGraphs = 2
INVARIANTS EachPartOnce WorkersOutOfGraph
PROPERTIES ImplementsGraphExec ComputeReturns FreeReturns
CHECK_DEADLOCK FALSE
