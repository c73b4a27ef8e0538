SPECIFICATION Spec
CONSTANTS
  h1 = h1
  h2 = h2
  j1 = j1
  j2 = j2
  None = None
  Hosts <- MCHosts
  Jobs <- MCJobs
  Programs <- MCShutdownPrograms
  MaxPools = 4
  MaxWorkers = 2
  Capacity = 1
PROPERTIES
  ShutdownAlwaysReturns
CHECK_DEADLOCK FALSE
