\* LatestActive on every package of up to three versions.
SPECIFICATION Spec
CONSTANTS
  Malformed = Malformed
  Listings <- MCListings
INVARIANTS
  AnswerIsRight
CHECK_DEADLOCK FALSE
