SPECIFICATION Spec
CONSTANTS
  h1 = h1
  h2 = h2
  j1 = j1
  j2 = j2
  None = None
  Hosts <- MCHosts
  Jobs <- MCJobs
  Programs <- MCPrograms
  MaxPools = 4
  MaxWorkers = 2
  Capacity = 1
INVARIANTS
  OnePoolAlive
  SpawnedJobsKept
PROPERTIES
  ShutdownReturns
  ProgramsEnd
  PoolsAreJobPools
CHECK_DEADLOCK FALSE
