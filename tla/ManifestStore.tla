----------------------------- MODULE ManifestStore -----------------------------
(***************************************************************************)
(* Store.Load and Store.Save (internal/inventory/store.go) under the three *)
(* operations that load the manifest, change it and save it: TrackMod and  *)
(* UntrackMod (internal/app/service.go), and a sync (Engine.Apply, whose   *)
(* steps between Load and Save are in SyncEngine).                         *)
(*                                                                         *)
(* Nothing locks the manifest, and every Save writes the same              *)
(* installed.json.tmp: clients are the commands of one Rekja, which run in *)
(* goroutines of their own, and the syncs of a sidecar that shares the     *)
(* plugins directory.  A file that is open is followed through a rename:   *)
(* what a client writes goes to the file it opened, whatever its name is   *)
(* by then.                                                                *)
(***************************************************************************)
CONSTANTS
  Client,     \* operations that may be in progress at once
  Mod,        \* Thunderstore packages
  Release,    \* their versions
  Latest,     \* the desired version "latest"
  Ops,        \* the operations that clients ask for
  Faults,     \* which of "failure" (of an I/O call) and "crash" happen
  None,
  Absent,     \* a file that does not exist
  Torn        \* a file that is empty or cut short, and does not decode

Entry    == [desired : Release \cup {Latest}, installed : Release \cup {None}]
Manifest == [Mod -> Entry \cup {None}]
Op       == [kind : {"track", "untrack", "sync"}, mod : Mod, release : Release \cup {Latest}]

ASSUME StoreAssumption ==
  /\ Ops \subseteq Op /\ Ops # {}
  /\ \A o \in Ops : o.kind = "sync" => o.release \in Release
  /\ {Absent, Torn} \cap Manifest = {} /\ Absent # Torn
  /\ None \notin Entry /\ None \notin {"temp", "installed", "unlinked"}
  /\ Faults \subseteq {"failure", "crash"}

VARIABLES
  installed,  \* installed.json
  temp,       \* installed.json.tmp
  pc,         \* where each client is
  op,         \* what it was asked for
  value,      \* the manifest it is about to save
  fd,         \* which file it has open for writing: "temp", "installed", "unlinked"
  alone,      \* history: no other operation was in progress since it began
  overlapped, \* history: two operations were once in progress together
  faulted     \* history: a call has failed or a client has died

files   == <<installed, temp>>
history == <<alone, overlapped, faulted>>
vars    == <<files, pc, op, value, fd, history>>

-------------------------------------------------------------------------------
Empty   == [k \in Mod |-> None]
Resting == {"idle", "ok", "failed"}
Active(c) == pc[c] \notin Resting

\* What an operation does to the manifest it has loaded.  Track keeps what is
\* installed, a sync keeps what is desired, and a package that a sync meets for
\* the first time is desired at its latest version from then on.
Change(m, o) ==
  LET old == m[o.mod] IN
    CASE o.kind = "track" ->
           [m EXCEPT ![o.mod] = [desired |-> o.release,
                                 installed |-> IF old = None THEN None ELSE old.installed]]
      [] o.kind = "untrack" -> [m EXCEPT ![o.mod] = None]
      [] o.kind = "sync" ->
           [m EXCEPT ![o.mod] = [desired |-> IF old = None THEN Latest ELSE old.desired,
                                 installed |-> o.release]]

\* Load: a file that is missing is an empty manifest.
Decoded(f) == IF f = Absent THEN Empty ELSE f

Init ==
  /\ installed = Absent /\ temp = Absent
  /\ pc = [c \in Client |-> "idle"]
  /\ op \in [Client -> {CHOOSE o \in Ops : TRUE}]
  /\ value = [c \in Client |-> Empty]
  /\ fd = [c \in Client |-> None]
  /\ alone = [c \in Client |-> FALSE]
  /\ overlapped = FALSE /\ faulted = FALSE

Return_LeavesOpen(c, result) ==
  /\ pc' = [pc EXCEPT ![c] = result]
  /\ value' = [value EXCEPT ![c] = Empty]
  /\ alone' = [alone EXCEPT ![c] = FALSE]
  /\ UNCHANGED <<op, fd, overlapped>>

\* The operation returns; an open file is closed.
Return(c, result) ==
  /\ pc' = [pc EXCEPT ![c] = result]
  /\ value' = [value EXCEPT ![c] = Empty]
  /\ fd' = [fd EXCEPT ![c] = None]
  /\ alone' = [alone EXCEPT ![c] = FALSE]
  /\ UNCHANGED <<op, overlapped>>

Goto(c, l) == pc' = [pc EXCEPT ![c] = l]

Begin(c) ==
  /\ ~ Active(c)
  /\ \E o \in Ops : op' = [op EXCEPT ![c] = o]
  /\ Goto(c, "load")
  /\ LET others == {d \in Client : Active(d)} IN
       /\ alone' = [d \in Client |-> d = c /\ others = {}]
       /\ overlapped' = (overlapped \/ others # {})
  /\ UNCHANGED <<files, value, fd, faulted>>

-------------------------------------------------------------------------------
(* Load, and the change.                                                   *)

\* The file is read in one step, and the change is made in memory.
Load(c) ==
  /\ pc[c] = "load"
  /\ installed # Torn
  /\ value' = [value EXCEPT ![c] = Change(Decoded(installed), op[c])]
  /\ Goto(c, "open")
  /\ UNCHANGED <<files, op, fd, history>>

LoadFails_AsMissing(c) ==
  /\ pc[c] = "load"
  /\ installed = Torn
  /\ value' = [value EXCEPT ![c] = Change(Empty, op[c])]
  /\ Goto(c, "open")
  /\ UNCHANGED <<files, op, fd, history>>

\* What is there does not decode, or cannot be read.
LoadFails(c) ==
  /\ pc[c] = "load"
  /\ \/ installed = Torn /\ UNCHANGED faulted
     \/ "failure" \in Faults /\ faulted' = TRUE
  /\ Return(c, "failed")
  /\ UNCHANGED files

-------------------------------------------------------------------------------
(* Save.                                                                   *)

OpenTemp_InPlace(c) ==
  /\ pc[c] = "open"
  /\ installed' = Torn
  /\ fd' = [fd EXCEPT ![c] = "installed"]
  /\ Goto(c, "write")
  /\ UNCHANGED <<temp, op, value, history>>

\* O_CREATE|O_TRUNC: the temporary file is made, or another client's emptied.
OpenTemp(c) ==
  /\ pc[c] = "open"
  /\ temp' = Torn
  /\ fd' = [fd EXCEPT ![c] = "temp"]
  /\ Goto(c, "write")
  /\ UNCHANGED <<installed, op, value, history>>

\* MkdirAll or OpenFile fails.
OpenFails(c) ==
  /\ "failure" \in Faults
  /\ pc[c] = "open"
  /\ Return(c, "failed") /\ faulted' = TRUE
  /\ UNCHANGED files

\* The file c has open now holds f; one that was replaced is nobody's.
Put(c, f) ==
  /\ temp' = IF fd[c] = "temp" THEN f ELSE temp
  /\ installed' = IF fd[c] = "installed" THEN f ELSE installed

Write_NotFlushed(c) ==
  /\ pc[c] = "write"
  /\ Put(c, Torn)
  /\ fd' = [fd EXCEPT ![c] = None]
  /\ Goto(c, "rename")
  /\ UNCHANGED <<op, value, history>>

\* Encode makes one write, from the start of the file, and the file is closed.
\* Of two writes to one file the last one counts: a longer one's tail follows
\* the value that Decode reads.
Write(c) ==
  /\ pc[c] = "write"
  /\ Put(c, value[c])
  /\ fd' = [fd EXCEPT ![c] = None]
  /\ Goto(c, "rename")
  /\ UNCHANGED <<op, value, history>>

WriteFails_Ignored(c) ==
  /\ "failure" \in Faults
  /\ pc[c] = "write"
  /\ Put(c, Torn)
  /\ fd' = [fd EXCEPT ![c] = None]
  /\ Goto(c, "rename")
  /\ faulted' = TRUE
  /\ UNCHANGED <<op, value, alone, overlapped>>

\* Encode or Close fails half way.  What is in the file stays there.
WriteFails(c) ==
  /\ "failure" \in Faults
  /\ pc[c] = "write"
  /\ Put(c, Torn)
  /\ Return(c, "failed") /\ faulted' = TRUE

\* Whatever has the temporary name becomes the manifest, and the clients that
\* are still writing it write the manifest from here on.
Rename(c) ==
  /\ pc[c] = "rename"
  /\ temp # Absent
  /\ installed' = temp /\ temp' = Absent
  /\ pc' = [pc EXCEPT ![c] = "ok"]
  /\ fd' = [d \in Client |-> CASE fd[d] = "temp" -> "installed"
                               [] fd[d] = "installed" -> "unlinked"
                               [] OTHER -> fd[d]]
  /\ value' = [value EXCEPT ![c] = Empty]
  /\ alone' = [alone EXCEPT ![c] = FALSE]
  /\ UNCHANGED <<op, overlapped, faulted>>

\* Another client has renamed the temporary file, or the call fails.
RenameFails(c) ==
  /\ pc[c] = "rename"
  /\ \/ temp = Absent /\ UNCHANGED faulted
     \/ "failure" \in Faults /\ faulted' = TRUE
  /\ Return(c, "failed")
  /\ UNCHANGED files

\* The process of c dies, in the middle of a write perhaps.
Crash(c) ==
  /\ "crash" \in Faults
  /\ Active(c)
  /\ Put(c, Torn) \/ UNCHANGED files
  /\ Return(c, "idle") /\ faulted' = TRUE

-------------------------------------------------------------------------------
Step(c) ==
  \/ Begin(c) \/ Load(c) \/ LoadFails(c)
  \/ OpenTemp(c) \/ OpenFails(c) \/ Write(c) \/ WriteFails(c)
  \/ Rename(c) \/ RenameFails(c) \/ Crash(c)

Next == \E c \in Client : Step(c)

Spec == Init /\ [][Next]_vars

-------------------------------------------------------------------------------
(* Properties.                                                             *)

\* Every variable has its type, and only a client that writes has a file open.
TypeOK ==
  /\ installed \in Manifest \cup {Absent, Torn}
  /\ temp \in Manifest \cup {Absent, Torn}
  /\ pc \in [Client -> Resting \cup {"load", "open", "write", "rename"}]
  /\ op \in [Client -> Ops]
  /\ value \in [Client -> Manifest]
  /\ fd \in [Client -> {None, "temp", "installed", "unlinked"}]
  /\ \A c \in Client : fd[c] # None <=> pc[c] = "write"
  /\ alone \in [Client -> BOOLEAN]
  /\ overlapped \in BOOLEAN /\ faulted \in BOOLEAN

\* An operation that nobody else's overlaps is atomic, whatever was left by
\* the failures, crashes and overlaps before it: the manifest changes in the
\* step that answers "ok", by what was asked, and in no other.
AloneIsAtomic ==
  [][\A c \in Client : alone[c] /\ Active(c) =>
       installed' = IF pc'[c] = "ok" THEN Change(Decoded(installed), op[c]) ELSE installed]_vars

\* store.go:48, "through a temporary file and rename": as long as no two
\* operations have overlapped the manifest decodes, however many have failed
\* or died half way.
TornNeedsOverlap == installed = Torn => overlapped

\* Overlap alone does no lasting harm: while no call fails, a manifest that
\* does not decode is one that somebody is about to complete.
TornIsBeingWritten ==
  installed = Torn /\ ~ faulted => \E c \in Client : fd[c] = "installed"

\* Nobody is going to write the manifest, and it does not decode.
Wedged == installed = Torn /\ \A c \in Client : pc[c] \in Resting \cup {"load"}

\* There is no way back from a torn manifest: every operation begins with a
\* Load that fails (store.go:36), so none reaches the Save that would mend it.
TornIsForEver == [][Wedged => Wedged']_vars
===============================================================================
