SPECIFICATION Spec
CONSTANTS
  a = a
  b = b
  c = c
  d = d
  Threads <- MCThreads
  Plans <- MCPlans
  Capacities <- MCCapacities
INVARIANTS
  CountersExact
  NoLostWakeup
PROPERTIES
  ImplementsFifo
  Completes
CHECK_DEADLOCK FALSE
