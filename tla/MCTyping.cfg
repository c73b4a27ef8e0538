CONSTANTS
  Classes <- MCClasses
  Interfaces <- MCInterfaces
  Enums <- MCEnums
  Families <- MCFamilies
  Depth = 3
SPECIFICATION Spec
INVARIANT AcceptedRunsWell
INVARIANT MatchesCover
INVARIANT RedundantNeverRuns
CHECK_DEADLOCK FALSE
