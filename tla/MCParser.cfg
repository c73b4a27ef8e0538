SPECIFICATION Spec
CONSTANTS
  Kinds <- MCKinds
  Openings <- MCOpenings
  Free = 2
  Code <- MCCode
  Start = "parse"
  Known <- MCKnown
  Level <- MCLevel
  CallsPerToken = 5
  Length = 13
INVARIANTS
  NoneIsReported
  AcceptedIsBalanced
  DepthBounded
CHECK_DEADLOCK FALSE
PROPERTIES
  EndsUnlessRefused
