\* A plan is shown and applied: what the sync resolves is something else.
SPECIFICATION Spec
CONSTANTS
  A = A  B = B  C = C  None = None
  Mod = {A, B, C}
  Flying = 2
  Presses = 2
  Lists <- MCLists
  Defaults <- MCDefaults
INVARIANTS
  AppliedAsShown
CHECK_DEADLOCK FALSE
