SPECIFICATION Spec
CONSTANTS
  Names = {"a", "b", "f", "g", "i"}
  Copies = {"f", "g", "i"}
  Effects <- MCEffects
  Contracts <- MCContracts
  Voids = {"sink", "both"}
  Programs <- MCPrograms
  Rounds = 2
INVARIANTS
  MovesAreSeen
  FreesOnlyOwned
  FreesAreSafe
CHECK_DEADLOCK FALSE
