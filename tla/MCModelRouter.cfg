SPECIFICATION Spec
CONSTANTS
  m1 = m1
  m2 = m2
  t1 = t1
  t2 = t2
  None = None
  New = New
  Models <- MCModels
  Threads <- MCThreads
  ModelsMax = 1
  Requests <- MCRequests
  Crashing <- MCCrashing
  Sleeping <- MCSleeping
  SlowCrash = FALSE
  MaxOut = 1
INVARIANTS AtMostModelsMax StatusTracksInstance KillsOwnChild
PROPERTIES LoadReturns UnloadEnds
CHECK_DEADLOCK FALSE
