\* Three packages of two releases, any sequence of rounds.
SPECIFICATION Spec
CONSTANTS
  A = A  B = B  C = C
  a = a  b = b  c = c  x = x
  Mod = {A, B, C}
  Path = {a, b, c, x}
  Releases = 2
  Requires <- MCRequires
  Ships <- MCShips
  Broken <- MCBroken
INVARIANTS
  TypeOK
  Accounted
  OneOwner
  UpdatesExplained
  ResolvesAgain
  RefusedOverContested
