SPECIFICATION Spec
CONSTANTS
  j1 = j1
  j2 = j2
  j3 = j3
  None = None
  o1 = o1
  NumWorkers = 2
  Jobs <- MCJobs
  Panicking <- MCPanicking
  Outside <- MCOutside
INVARIANTS
  JobsInOnePlace
  ActiveJobsExact
PROPERTIES
  IdleIsStable
  ImplementsJobPool
  EveryJobRuns
  ShutdownReturns
CHECK_DEADLOCK FALSE
