SPECIFICATION Spec
CONSTANTS
  m1 = m1
  m2 = m2
  t1 = t1
  t2 = t2
  None = None
  New = New
  Models <- MCModels
  Threads <- MCThreads
  ModelsMax = 1
  Requests <- MCRequests
  Crashing <- MCCrashing
  Sleeping <- MCSleeping
  SlowCrash = TRUE
  MaxOut = 1
PROPERTY CrashNoticed
CHECK_DEADLOCK FALSE
