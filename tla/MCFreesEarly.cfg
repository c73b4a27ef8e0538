SPECIFICATION Spec
CONSTANTS
  Names = {"a", "b", "f", "g", "i"}
  Copies = {"f", "g", "i"}
  Effects <- MCEffects
  Contracts <- MCContracts
  Voids = {"sink", "both"}
  Programs <- MCBranches
  Rounds = 2
INVARIANT FreedAfterLastUse
CHECK_DEADLOCK FALSE
