\* Six lists of roots over every graph of MCResolver.
SPECIFICATION FairSpec
CONSTANTS
  A = A  B = B  C = C  D = D  Bep = Bep
  Malformed = Malformed
  Newest = Newest
  None = None
  Package <- MCPackage
  Ambient = Bep
  Indexes <- MCIndexes
  RootLists <- MCRootLists
INVARIANTS
  TypeOK
  OncePerPackage
  Closed
  Justified
  OlderIsWarned
PROPERTIES
  Ends
CHECK_DEADLOCK FALSE
