\* Two keys beside the first load, at most three commands at once.
SPECIFICATION FairSpec
CONSTANTS
  A = A  B = B  C = C  None = None
  Mod = {A, B, C}
  Flying = 3
  Presses = 2
  Lists <- MCLists
  Defaults <- MCDefaults
INVARIANTS
  TypeOK
  StaleOnlyIfOvertaken
  OnlySelectedGo
PROPERTIES
  LoadingEnds
CHECK_DEADLOCK FALSE
