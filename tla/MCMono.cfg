SPECIFICATION Spec
CONSTANTS
  Programs <- MCPrograms
  MaxInsts = 10
INVARIANTS
  NothingMissed
  EmissionFinds
  CollectionEnds
CHECK_DEADLOCK FALSE
