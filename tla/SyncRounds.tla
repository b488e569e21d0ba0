------------------------------ MODULE SyncRounds ------------------------------
(***************************************************************************)
(* Rounds of track, untrack, publish and sync over months: what the        *)
(* manifest's list of tracked packages becomes, and with it the next plan, *)
(* the files on disk and the list of updates.  One sync at a time.         *)
(*                                                                         *)
(* A round composes three parts of the code: resolve.Resolve, here by what *)
(* the module Resolver checks of its plans; Engine.Apply, one package at a *)
(* step (file by file in SyncEngine), with upsertManifest, which makes the *)
(* dependencies of one round roots of the next; and LoadState's updates.   *)
(***************************************************************************)
EXTENDS Naturals, Sequences

CONSTANTS
  Mod,       \* Thunderstore packages
  Releases,  \* how many releases a package may come to have
  Requires,  \* the versions each version declares
  Ships,     \* the files of each version
  Broken,    \* the versions whose number does not parse
  Path

Newest == 0  \* the desired version "latest"
NotYet == 0  \* the installed version of a package that was never installed

Version == Mod \X (1..Releases)
Entry   == [mod : Mod, desired : 0..Releases, installed : 0..Releases, files : SUBSET Path]

ASSUME RoundsAssumption ==
  /\ Releases \in Nat \ {0}
  /\ Requires \in [Version -> SUBSET Version]
  /\ Ships \in [Version -> (SUBSET Path) \ {{}}]
  /\ Broken \subseteq Version

VARIABLES
  published,  \* the Thunderstore index: how many releases each package has
  tracked,    \* manifest.Tracked
  disk,       \* the files in the plugins directory
  draft,      \* Apply's manifest
  rootsLeft,  \* the roots of the plan that are still to be installed
  depsLeft,   \* and its dependencies
  phase,      \* "rest", "sync"
  steady,     \* history: the last sync went well and nothing has changed since
  loose       \* history: files that lost their record, or never got one saved

syncVars == <<draft, rootsLeft, depsLeft, phase>>
vars == <<published, tracked, disk, syncVars, steady, loose>>

-------------------------------------------------------------------------------
(* The index and the manifest.                                             *)

Index == {v \in Version : v[2] <= published[v[1]]}
Among(q) == {q[i] : i \in DOMAIN q}

\* FindVersion: "latest" compares all versions, as soon as there are two.
LatestFails(e) ==
  e.desired = Newest /\ published[e.mod] > 1 /\ \E v \in Index \cap Broken : v[1] = e.mod
Found(e)  == published[e.mod] > 0 /\ e.desired <= published[e.mod] /\ ~ LatestFails(e)
Wanted(e) == IF e.desired = Newest THEN published[e.mod] ELSE e.desired

EntriesOf(list, m) == {e \in Among(list) : e.mod = m}
Recorded(list)     == UNION {e.files : e \in Among(list)}

Upsert_Appends(list, v) ==
  Append(list, [mod |-> v[1], desired |-> Newest, installed |-> v[2], files |-> Ships[v]])

Upsert_KeepsRecords(list, v) ==
  IF EntriesOf(list, v[1]) = {}
  THEN Append(list, [mod |-> v[1], desired |-> Newest, installed |-> v[2], files |-> Ships[v]])
  ELSE [i \in DOMAIN list |-> IF list[i].mod = v[1] THEN [list[i] EXCEPT !.installed = v[2]] ELSE list[i]]

Upsert_Unpins(list, v) ==
  LET new(desired) == [mod |-> v[1], desired |-> desired, installed |-> v[2], files |-> Ships[v]] IN
    IF EntriesOf(list, v[1]) = {} THEN Append(list, new(Newest))
    ELSE [i \in DOMAIN list |-> IF list[i].mod = v[1] THEN new(Newest) ELSE list[i]]

\* upsertManifest: a package it meets for the first time, a dependency as a
\* rule, is tracked from now on and desired at its latest version.
Upsert(list, v) ==
  LET new(desired) == [mod |-> v[1], desired |-> desired, installed |-> v[2], files |-> Ships[v]] IN
    IF EntriesOf(list, v[1]) = {} THEN Append(list, new(Newest))
    ELSE [i \in DOMAIN list |-> IF list[i].mod = v[1] THEN new(list[i].desired) ELSE list[i]]

\* LoadState: the packages it lists under Updates.  It compares what is
\* installed with what FindVersion selects, if both numbers parse.
Comparable(e) ==
  Found(e) /\ e.installed # NotYet /\ {<<e.mod, Wanted(e)>>, <<e.mod, e.installed>>} \cap Broken = {}
Updates == {e.mod : e \in {f \in Among(tracked) : Comparable(f) /\ Wanted(f) > f.installed}}

-------------------------------------------------------------------------------
(* The plan.                                                               *)

Roots(list) == [i \in DOMAIN list |-> <<list[i].mod, Wanted(list[i])>>]
Needs(V)    == UNION {Requires[v] : v \in V \cap Index}

\* What Resolver checks: one version of each package that is needed, each
\* required by something listed before it, all in the index.  Further
\* versions of a package that was selected are only warned about.
IsPlan(roots, deps) ==
  LET need == Needs(Among(roots) \cup deps) IN
    /\ need \cap Broken = {}
    /\ \A r \in need : \E d \in deps : d[1] = r[1]
    /\ \A d, e \in deps : d[1] = e[1] => d = e
    /\ \A S \in SUBSET deps : deps \cap Needs(Among(roots) \cup S) \subseteq S => S = deps

\* What the roots need, whichever versions are selected.
Reached(roots) ==
  {v \in Version : \A S \in SUBSET Version : Needs(Among(roots) \cup S) \subseteq S => v \in S}

\* The packages that the roots and their needs name at two versions.
Contested(roots) ==
  LET named == Among(roots) \cup Reached(roots) IN
    {v[1] : v \in {w \in named : \E u \in named : u[1] = w[1] /\ u # w}}

\* Resolve returns an error, in whatever order the versions it meets declare
\* theirs: a root has no such version, or there is no plan.
Unresolvable ==
  \/ \E e \in Among(tracked) : ~ Found(e)
  \/ ~ \E deps \in SUBSET Index : IsPlan(Roots(tracked), deps)

-------------------------------------------------------------------------------
Init ==
  /\ published \in [Mod -> 0..1]
  /\ tracked = <<>> /\ disk = {}
  /\ draft = <<>> /\ rootsLeft = <<>> /\ depsLeft = {}
  /\ phase = "rest" /\ steady = FALSE /\ loose = {}

\* A new version appears on Thunderstore.
Publish(m) ==
  /\ phase = "rest" /\ published[m] < Releases
  /\ published' = [published EXCEPT ![m] = @ + 1]
  /\ steady' = FALSE
  /\ UNCHANGED <<tracked, disk, syncVars, loose>>

\* TrackMod: a package is added at the end or gets another desired version,
\* which need not exist; what is installed of it stays recorded.
WithDesired(list, m, desired) ==
  IF EntriesOf(list, m) = {}
  THEN Append(list, [mod |-> m, desired |-> desired, installed |-> NotYet, files |-> {}])
  ELSE [i \in DOMAIN list |-> IF list[i].mod = m THEN [list[i] EXCEPT !.desired = desired] ELSE list[i]]

Track(m, desired) ==
  /\ phase = "rest"
  /\ tracked' = WithDesired(tracked, m, desired)
  /\ steady' = FALSE
  /\ UNCHANGED <<published, disk, syncVars, loose>>

\* UntrackMod filters the list (a package is in it at most once): the entry
\* goes with its records, the files stay.
Untrack(m) ==
  /\ phase = "rest"
  /\ \E i \in DOMAIN tracked :
       /\ tracked[i].mod = m
       /\ tracked' = SubSeq(tracked, 1, i - 1) \o SubSeq(tracked, i + 1, Len(tracked))
       /\ loose' = loose \cup tracked[i].files
  /\ steady' = FALSE
  /\ UNCHANGED <<published, disk, syncVars>>

\* StartSync: the sidecar resolves what its manifest tracks; nothing happens
\* when that fails.
StartSync ==
  /\ phase = "rest"
  /\ \A e \in Among(tracked) : Found(e)
  /\ \E deps \in SUBSET Index : IsPlan(Roots(tracked), deps) /\ depsLeft' = deps
  /\ rootsLeft' = Roots(tracked)
  /\ draft' = tracked
  /\ phase' = "sync"
  /\ UNCHANGED <<published, tracked, disk, steady, loose>>

-------------------------------------------------------------------------------
(* Apply, package by package: the roots in order, then the dependencies.   *)

IsNext(v) ==
  /\ phase = "sync"
  /\ IF rootsLeft # <<>> THEN v = Head(rootsLeft) ELSE v \in depsLeft

NextDone(v) ==
  IF rootsLeft # <<>> THEN rootsLeft' = Tail(rootsLeft) /\ UNCHANGED depsLeft
                      ELSE depsLeft' = depsLeft \ {v} /\ UNCHANGED rootsLeft

\* The files that are recorded for v's package.
Own(v) == UNION {e.files : e \in EntriesOf(draft, v[1])}

Blocked_Unowned(v) == (Ships[v] \cap disk) \ Recorded(draft)

Blocked_Present(v) == Ships[v] \cap disk

\* The files of v that exist and are not recorded for its package.
Blocked(v) == (Ships[v] \cap disk) \ Own(v)

Install(v) ==
  /\ IsNext(v) /\ Blocked(v) = {}
  /\ disk' = disk \cup Ships[v]
  /\ draft' = Upsert(draft, v)
  /\ NextDone(v)
  /\ loose' = loose \cup (Own(v) \ Ships[v])
  /\ UNCHANGED <<published, tracked, phase, steady>>

\* The sync is over; the locals of Apply are gone.
Return ==
  /\ phase' = "rest"
  /\ draft' = <<>> /\ rootsLeft' = <<>> /\ depsLeft' = {}
  /\ UNCHANGED published

\* The files written so far stay, and the manifest is not saved.
Abandon(files) ==
  /\ disk' = disk \cup files
  /\ loose' = loose \cup ((files \cup Recorded(draft)) \ Recorded(tracked))
  /\ steady' = FALSE
  /\ Return
  /\ UNCHANGED tracked

\* A file of v is in the way; or its download, or a write, fails.
Fail(v) ==
  /\ IsNext(v)
  /\ \E files \in SUBSET (Ships[v] \ Blocked(v)) : Abandon(files)

AllDone == phase = "sync" /\ rootsLeft = <<>> /\ depsLeft = {}

SaveFails == AllDone /\ Abandon({})

Save ==
  /\ AllDone
  /\ tracked' = draft
  /\ steady' = TRUE
  /\ Return
  /\ UNCHANGED <<disk, loose>>

Next ==
  \/ \E m \in Mod : Publish(m) \/ Untrack(m) \/ \E d \in 0..Releases : Track(m, d)
  \/ StartSync \/ Save \/ SaveFails
  \/ \E v \in Version : Install(v) \/ Fail(v)

Spec == Init /\ [][Next]_vars

-------------------------------------------------------------------------------
(* Properties.                                                             *)

Unique(list) == \A i, j \in DOMAIN list : list[i].mod = list[j].mod => i = j

\* Every variable has its type; no package is tracked twice, though every
\* sync tracks what it installs; Apply's locals live as long as the sync.
TypeOK ==
  /\ published \in [Mod -> 0..Releases]
  /\ tracked \in Seq(Entry) /\ Unique(tracked)
  /\ draft \in Seq(Entry) /\ Unique(draft)
  /\ disk \subseteq Path /\ loose \subseteq Path
  /\ rootsLeft \in Seq(Version) /\ depsLeft \subseteq Version
  /\ phase \in {"rest", "sync"} /\ steady \in BOOLEAN
  /\ phase = "rest" => draft = <<>> /\ rootsLeft = <<>> /\ depsLeft = {}

\* What the manifest records is on disk; and a file on disk that the manifest
\* does not record was left by an untracked package, by a version that was
\* replaced or by a sync that failed: those, and no others, block a
\* later version that ships it ("refusing to overwrite untracked file").
Accounted ==
  /\ Recorded(tracked) \cup Recorded(draft) \subseteq disk
  /\ disk \subseteq loose \cup Recorded(IF phase = "sync" THEN draft ELSE tracked)

\* While syncs do not overlap, no file is recorded for two packages, however
\* often packages are untracked, tracked again, updated, and syncs fail.
OneOwner ==
  \A list \in {tracked, draft} : \A e, f \in Among(list) : e.files \cap f.files # {} => e = f

\* After a sync that went well, and until something changes, LoadState lists
\* an update only for a package that is needed at another version than the
\* one it is tracked at.  (For such a package it lists one for ever: the
\* dependency is installed after the root.)
UpdatesExplained == phase = "rest" /\ steady => Updates \subseteq Contested(Roots(tracked))

\* A sync with the index and the manifest as the last good sync left them is
\* refused only over a package that is needed at two versions, where the one
\* installed last has taken the other's records away, or over one that it
\* meets for the first time because such a package is now needed at "latest".
RefusedOverContested ==
  \A v \in Version : steady /\ IsNext(v) /\ Blocked(v) # {} =>
    \/ v[1] \in Contested(Roots(tracked))
    \/ EntriesOf(tracked, v[1]) = {} /\ Contested(Roots(tracked)) # {}

\* Such a sync resolves again, unless the last one began to track, at
\* "latest", a dependency that is required at another version.
ResolvesAgain ==
  phase = "rest" /\ steady /\ Unresolvable =>
    \E e \in Among(tracked), v \in Reached(Roots(tracked)) :
      e.desired = Newest /\ v[1] = e.mod /\ (Found(e) => v[2] # Wanted(e))
===============================================================================
