SPECIFICATION Spec
CONSTANTS
  p1 = p1
  p2 = p2
  p3 = p3
  None = None
  Blank = Blank
  ProcFs = TRUE
  Procs <- MCProcs
  MaxCrashes = 1
INVARIANTS
  OneBuilder
  RanComplete
PROPERTIES
  FreshIsKept
  EveryProcessEnds
CHECK_DEADLOCK FALSE
