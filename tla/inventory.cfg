\* A scan beside a sync, and people who write one file and delete another.
SPECIFICATION InventorySpec
CONSTANTS
  A = A  B = B  A1 = A1  A2 = A2  B1 = B1  dll = dll  cfg = cfg
  None = None  Absent = Absent  Partial = Partial  Complete = Complete  Foreign = Foreign
  Session = {s1}
  Package <- MCPackage
  Version <- MCVersion
  Path <- MCPath
  ConfigPath = {cfg}
  PackageOf <- MCPackageOf
  Archive <- MCArchive
  Plans <- MCPlans
  Faults = {}
  Writable = {cfg}
  Removable = {dll}
INVARIANTS
  ScanTypeOK
  UntouchedAreRight
  DriftIsSomebodys
