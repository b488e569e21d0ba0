\* Three operations in progress at once; any call may fail and any client die.
SPECIFICATION Spec
CONSTANTS
  mod = mod  v1 = v1
  Client = {c1, c2, c3}
  Mod = {mod}
  Release = {v1}
  Latest = Latest
  Ops <- MCOps
  Faults = {"failure", "crash"}
  None = None  Absent = Absent  Torn = Torn
INVARIANTS
  TypeOK
  TornNeedsOverlap
  TornIsBeingWritten
PROPERTIES
  AloneIsAtomic
  TornIsForEver
SYMMETRY Clients
