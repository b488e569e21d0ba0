\* Three packages; the surroundings are MCSettings.
SPECIFICATION Spec
CONSTANTS
  Presses = 2
  Packages = 3
  Settings <- MCSettings
  None = None
INVARIANTS
  TypeOK
  HeardInOrder
  CompleteMeansEnded
PROPERTIES
  ApplyEnds
  WaitsEnd
  EndsUnlessUnheard
CHECK_DEADLOCK FALSE
