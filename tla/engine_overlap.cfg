\* Two syncs that overlap in every way, the sidecar dying anywhere, and files deleted.
SPECIFICATION Spec
CONSTANTS
  A = A  B = B  C = C  A1 = A1  A2 = A2  B1 = B1  B2 = B2  C1 = C1  C2 = C2
  dll = dll  cfg = cfg  extra = extra
  None = None  Absent = Absent  Partial = Partial  Complete = Complete  Foreign = Foreign
  Session = {s1, s2}
  Package <- MCPackage
  Version <- MCVersion
  Path <- MCPath
  ConfigPath = {cfg}
  PackageOf <- MCPackageOf
  Archive <- MCArchive
  Plans <- MeetingPlans
  Faults = {"crash"}
  Writable = {}
  Removable = {extra}
SYMMETRY Sessions
INVARIANTS
  RecordedFilesExist
  UniqueOwner
