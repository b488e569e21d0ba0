----------------------------- MODULE MCSyncEngine -----------------------------
(***************************************************************************)
(* Small instances of SyncEngine: package A in two versions, the second    *)
(* with one file more, and package B, which ships a file of the same name  *)
(* as A's new one and as C2.  B2 has an entry that leaves the directory,   *)
(* and C1 has no file.                                                     *)
(***************************************************************************)
EXTENDS SyncEngine, TLC

CONSTANTS A, B, C, A1, A2, B1, B2, C1, C2, dll, cfg, extra

File(p) == [kind |-> "file", path |-> p]
Meta    == [kind |-> "meta", path |-> dll]
Unsafe  == [kind |-> "unsafe", path |-> dll]

MCPackage   == {A, B, C}
MCVersion   == {A1, A2, B1, B2, C1, C2}
MCPath      == {dll, cfg, extra}
MCPackageOf ==
  [v \in MCVersion |-> CASE v \in {A1, A2} -> A [] v \in {B1, B2} -> B [] v \in {C1, C2} -> C]

MCArchive ==
  [v \in MCVersion |->
     CASE v = A1 -> <<Meta, File(dll), File(cfg)>>
       [] v = A2 -> <<File(cfg), File(dll), File(extra)>>
       [] v = B1 -> <<File(extra)>>
       [] v = B2 -> <<File(extra), Unsafe>>
       [] v = C1 -> <<Meta>>
       [] v = C2 -> <<File(dll), File(extra)>>]

\* A2 then A1 is a root at its latest version that another root also needs,
\* at an older version.
UpdatePlans == {<<A1>>, <<A2>>, <<A1, B1>>, <<B1, A1>>, <<A2, A1>>}

\* With an archive that is rejected.
AllPlans == UpdatePlans \cup {<<B2>>}

\* For syncs that overlap: two packages that have nothing to do with each other.
OverlappingPlans == {<<A1>>, <<B1>>}

\* Two that meet in one file, and one without a file.
MeetingPlans == {<<B1>>, <<C2>>, <<C1>>}

Sessions == Permutations(Session)

\* For the failures a single sync may meet.
OnePlan == {<<A1, B1>>}
===============================================================================
