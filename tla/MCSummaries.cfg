SPECIFICATION Spec
CONSTANTS
  fa = fa
  fb = fb
  fc = fc
  Funs <- MCFuns
  Slots <- MCSlots
  Programs <- MCPrograms
INVARIANTS
  ComponentsExact
  CalleesComeFirst
  NothingStricterThanNeeded
  CyclesConverge
PROPERTIES
  InferenceTerminates
CHECK_DEADLOCK FALSE
