----------------------------- MODULE LatestActive -----------------------------
(***************************************************************************)
(* The loop of thunderstore.LatestActive (client.go:78), which picks the   *)
(* version that "latest" means: one pass over the versions in the order of *)
(* the index, comparing each active one with the best so far.              *)
(***************************************************************************)
EXTENDS Versions

CONSTANT Listings       \* the packages it is asked about

ASSUME ListingsAssumption == Listings \subseteq Listing

VARIABLES
  versions,   \* the argument
  next,       \* the position the loop is at
  latest,     \* position of `latest`, 0 while `found` is false
  result      \* "scanning", then "found", "none" or "error"

vars == <<versions, next, latest, result>>

Init ==
  /\ versions \in Listings
  /\ next = 1
  /\ latest = 0
  /\ result = "scanning"

Scanning == result = "scanning" /\ next <= Len(versions)

Here == versions[next]
Best == versions[latest].number

Advance == next' = next + 1 /\ UNCHANGED <<versions, result>>

Inactive ==
  /\ Scanning /\ ~ Here.active
  /\ Advance /\ UNCHANGED latest

\* The first active version is taken without being parsed.
First ==
  /\ Scanning /\ Here.active /\ latest = 0
  /\ Advance /\ latest' = next

CannotCompare ==
  /\ Scanning /\ Here.active /\ latest # 0
  /\ ~ (Parses(Here.number) /\ Parses(Best))
  /\ result' = "error"
  /\ UNCHANGED <<versions, next, latest>>

Compare_KeepsLast ==
  /\ Scanning /\ Here.active /\ latest # 0
  /\ Parses(Here.number) /\ Parses(Best)
  /\ latest' = IF Newer(Best, Here.number) THEN latest ELSE next
  /\ Advance

Compare ==
  /\ Scanning /\ Here.active /\ latest # 0
  /\ Parses(Here.number) /\ Parses(Best)
  /\ latest' = IF Newer(Here.number, Best) THEN next ELSE latest
  /\ Advance

Return ==
  /\ result = "scanning" /\ next > Len(versions)
  /\ result' = IF latest = 0 THEN "none" ELSE "found"
  /\ UNCHANGED <<versions, next, latest>>

Next == Inactive \/ First \/ CannotCompare \/ Compare \/ Return

Spec == Init /\ [][Next]_vars

-------------------------------------------------------------------------------
\* The answer is the newest active version, the first listed of equals; an
\* error exactly when there are two to compare and one does not parse; and
\* "none" exactly when no version is active.
AnswerIsRight ==
  /\ result = "found" => IsLatest(versions, latest) /\ ~ LatestFails(versions)
  /\ result = "none"  => Active(versions) = {}
  /\ result = "error" => LatestFails(versions)
===============================================================================
