CONSTANTS
  Containers = {c1, c2}
  Users = {1}
  Starts = {2, 8, 12, 14}
  Floor = 2
  MaxTroubles = 2
  None = None
SPECIFICATION Spec
CHECK_DEADLOCK FALSE
INVARIANTS IInv AccountsKept DamageConfined
PROPERTIES FailsForCause
SYMMETRY ContainerSymmetry
