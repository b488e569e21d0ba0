------------------------------ MODULE SyncEngine ------------------------------
(***************************************************************************)
(* Engine.Apply of internal/sync/engine.go with the disk it works on: the  *)
(* plugins directory, the <file>.rekja-tmp files beside its targets, the   *)
(* staged archives, the manifest and the manifest's own temporary file.    *)
(*                                                                         *)
(* A session is one run of Apply.  The sidecar starts one per StartSync    *)
(* call (cmd/sidecar/server.go:174) and takes no lock, so sessions         *)
(* interleave at every file operation.  The sidecar may die between any    *)
(* two steps, any file operation may fail, and people or the game server   *)
(* write and delete files in the plugins directory at any time.            *)
(*                                                                         *)
(* A file's content is named by the package version it was extracted from, *)
(* so the content is also its SHA-256; Foreign is content that Rekja did   *)
(* not write and Partial is a file cut short.                              *)
(***************************************************************************)
EXTENDS Naturals, Sequences

CONSTANTS
  Session,      \* runs of Apply that may overlap
  Package,      \* Thunderstore packages, by full name
  Version,      \* package versions, by full name (Owner-Name-1.2.3)
  Path,         \* files under the plugins directory, after normalisation
  ConfigPath,   \* the paths isConfig accepts
  PackageOf,    \* the package of each version
  Archive,      \* the entries of each version's zip, in order
  Plans,        \* the plans handed to Apply: roots, then dependencies
  Faults,       \* which of "failure" (of an operation) and "crash" happen
  Writable,     \* the paths outside actors write
  Removable,    \* the paths outside actors delete
  None, Absent, Partial, Complete, Foreign

Entry    == [kind: {"meta", "unsafe", "file"}, path: Path]
Content  == Version \cup {Foreign, Partial}
Record   == [path: Path, sha: Content, preserve: BOOLEAN]
Tracked  == [installed: Version \cup {None}, files: SUBSET Record]
Manifest == [Package -> Tracked]

\* The sentinels differ from every value they stand beside, and from each other.
ASSUME SentinelAssumption ==
  /\ {None, Absent, Partial, Foreign} \cap Version = {}
  /\ Absent # Partial /\ Absent # Foreign /\ Partial # Foreign
  /\ {Absent, Partial} \cap Manifest = {}
  /\ Complete \notin Session /\ Absent \notin Session /\ Complete # Absent

ASSUME InputAssumption ==
  /\ PackageOf \in [Version -> Package]
  /\ Archive \in [Version -> Seq(Entry)]
  /\ Plans \subseteq Seq(Version)
  /\ ConfigPath \subseteq Path /\ Writable \subseteq Path /\ Removable \subseteq Path
  /\ Faults \subseteq {"failure", "crash"}

VARIABLES
  disk,         \* the plugins directory
  temp,         \* destination + ".rekja-tmp"
  staging,      \* staged archive of a version; a session while that one fills it
  manifest,     \* installed.json (EmptyManifest while the file is missing)
  saveTemp,     \* installed.json.tmp
  pc,           \* where each session is
  plan,         \* Apply's local `all`
  item,         \* index in plan of the package being installed
  entry,        \* index in its archive of the entry being extracted
  current,      \* Apply's local manifest
  records,      \* extractPackage's local records
  removed,      \* history: paths an outside actor has deleted
  raced         \* history: paths one wrote between a session's check and rename

fileVars  == <<disk, temp>>
storeVars == <<manifest, saveTemp>>
localVars == <<plan, item, entry, current, records>>
history   == <<removed, raced>>
vars == <<fileVars, staging, storeVars, pc, localVars, history>>

-------------------------------------------------------------------------------
(* What a session is looking at.                                           *)

EmptyManifest == [k \in Package |-> [installed |-> None, files |-> {}]]

Resting == {"idle", "done", "failed"}

ItemsLeft_OffByOne(s) == item[s] < Len(plan[s])

ItemsLeft(s) == item[s] <= Len(plan[s])

Item(s)        == plan[s][item[s]]
Owner(s)       == PackageOf[Item(s)]
EntriesLeft(s) == entry[s] <= Len(Archive[Item(s)])
Zipped(s)      == Archive[Item(s)][entry[s]]
Target(s)      == Zipped(s).path

\* The packages whose records name p.  The code keeps the last one it meets
\* (fileOwnership); the order of manifest.Tracked is left out, so any may win.
Owners(m, p) == {k \in Package : \E r \in m[k].files : r.path = p}

MayReplace_AnyOwner(m, p, k) == Owners(m, p) # {}
MayReplace_Untracked(m, p, k) == k \in Owners(m, p) \/ Owners(m, p) = {}

\* A file that exists may be replaced by its owner only.
MayReplace(m, p, k) == k \in Owners(m, p)

\* A file that exists is refused to a package that does not own it.
MayRefuse(m, p, k) == Owners(m, p) # {k}

\* The owner's record says that the file is a config to keep.
Preserves(m, p, k) ==
  /\ p \in ConfigPath
  /\ \E r \in m[k].files : r.path = p /\ r.preserve

NewRecord(p, v) == [path |-> p, sha |-> v, preserve |-> p \in ConfigPath]

PreservedRecord_FlagLost(p) == [path |-> p, sha |-> disk[p], preserve |-> FALSE]

PreservedRecord(p) == [path |-> p, sha |-> disk[p], preserve |-> TRUE]

-------------------------------------------------------------------------------
Init ==
  /\ disk \in [Path -> {Absent, Foreign}]
  /\ temp = [p \in Path |-> Absent]
  /\ staging = [v \in Version |-> Absent]
  /\ manifest = EmptyManifest
  /\ saveTemp = Absent
  /\ pc = [s \in Session |-> "idle"]
  /\ plan = [s \in Session |-> <<>>]
  /\ item = [s \in Session |-> 1]
  /\ entry = [s \in Session |-> 1]
  /\ current = [s \in Session |-> EmptyManifest]
  /\ records = [s \in Session |-> {}]
  /\ removed = {}
  /\ raced = {}

Goto(s, l) == pc' = [pc EXCEPT ![s] = l]

Return_StaleCursor(s, result) ==
  /\ Goto(s, result)
  /\ plan' = [plan EXCEPT ![s] = <<>>]
  /\ item' = [item EXCEPT ![s] = 0]
  /\ entry' = [entry EXCEPT ![s] = 1]
  /\ current' = [current EXCEPT ![s] = EmptyManifest]
  /\ records' = [records EXCEPT ![s] = {}]

\* Apply returns and its locals are gone.
Return(s, result) ==
  /\ Goto(s, result)
  /\ plan' = [plan EXCEPT ![s] = <<>>]
  /\ item' = [item EXCEPT ![s] = 1]
  /\ entry' = [entry EXCEPT ![s] = 1]
  /\ current' = [current EXCEPT ![s] = EmptyManifest]
  /\ records' = [records EXCEPT ![s] = {}]

\* Apply is called and loads the manifest; one cut short does not decode.
Begin(s) ==
  /\ pc[s] \in Resting
  /\ \E p \in Plans :
       \/ /\ manifest # Partial
          /\ Goto(s, "item")
          /\ plan' = [plan EXCEPT ![s] = p]
          /\ current' = [current EXCEPT ![s] = manifest]
          /\ UNCHANGED <<item, entry, records>>
       \/ /\ manifest = Partial
          /\ Return(s, "failed")
  /\ UNCHANGED <<fileVars, staging, storeVars, history>>

\* The response arrived; the staged archive is opened with O_TRUNC.
Download(s) ==
  /\ pc[s] = "item" /\ ItemsLeft(s)
  /\ staging' = [staging EXCEPT ![Item(s)] = s]
  /\ Goto(s, "copy")
  /\ UNCHANGED <<fileVars, storeVars, localVars, history>>

\* No response, or a directory or the archive cannot be created.
DownloadFails(s) ==
  /\ "failure" \in Faults
  /\ pc[s] = "item" /\ ItemsLeft(s)
  /\ Return(s, "failed")
  /\ UNCHANGED <<fileVars, staging, storeVars, history>>

\* The body is on disk.  Bytes that another session has truncated since are
\* still missing: only the session that truncated last completes the file.
Copy(s) ==
  /\ pc[s] = "copy"
  /\ staging' = IF staging[Item(s)] = s
                THEN [staging EXCEPT ![Item(s)] = Complete] ELSE staging
  /\ Goto(s, "open")
  /\ UNCHANGED <<fileVars, storeVars, localVars, history>>

CopyFails(s) ==
  /\ "failure" \in Faults
  /\ pc[s] = "copy"
  /\ Return(s, "failed")
  /\ UNCHANGED <<fileVars, staging, storeVars, history>>

\* zip.OpenReader needs the directory at the end of the archive.
Open(s) ==
  /\ pc[s] = "open"
  /\ staging[Item(s)] = Complete
  /\ Goto(s, "entry")
  /\ entry' = [entry EXCEPT ![s] = 1]
  /\ records' = [records EXCEPT ![s] = {}]
  /\ UNCHANGED <<fileVars, staging, storeVars, plan, item, current, history>>

OpenFails(s) ==
  /\ pc[s] = "open"
  /\ staging[Item(s)] # Complete \/ "failure" \in Faults
  /\ Return(s, "failed")
  /\ UNCHANGED <<fileVars, staging, storeVars, history>>

-------------------------------------------------------------------------------
(* extractPackage: one pass of its loop per entry.                         *)

InEntry(s) == pc[s] = "entry" /\ EntriesLeft(s)

NextEntry(s) ==
  /\ Goto(s, "entry")
  /\ entry' = [entry EXCEPT ![s] = @ + 1]
  /\ UNCHANGED <<plan, item, current>>

\* Directories, manifest.json, readme.md, icon.png and changelog.md.
Skip(s) ==
  /\ InEntry(s) /\ Zipped(s).kind = "meta"
  /\ NextEntry(s)
  /\ UNCHANGED <<fileVars, staging, storeVars, records, history>>

\* cleanArchivePath or the prefix check rejects the name.
RejectUnsafe(s) ==
  /\ InEntry(s) /\ Zipped(s).kind = "unsafe"
  /\ Return(s, "failed")
  /\ UNCHANGED <<fileVars, staging, storeVars, history>>

\* "refusing to overwrite": the file is untracked or another package's.
Refuse(s) ==
  /\ InEntry(s) /\ Zipped(s).kind = "file"
  /\ disk[Target(s)] # Absent
  /\ MayRefuse(current[s], Target(s), Owner(s))
  /\ Return(s, "failed")
  /\ UNCHANGED <<fileVars, staging, storeVars, history>>

\* The package's own config file stays as it is and is hashed as it is.
Keep(s) ==
  /\ InEntry(s) /\ Zipped(s).kind = "file"
  /\ disk[Target(s)] # Absent
  /\ MayReplace(current[s], Target(s), Owner(s))
  /\ Preserves(current[s], Target(s), Owner(s))
  /\ records' = [records EXCEPT ![s] = @ \cup {PreservedRecord(Target(s))}]
  /\ NextEntry(s)
  /\ UNCHANGED <<fileVars, staging, storeVars, history>>

\* Stat found nothing, or a file this package may replace.  Nobody owns
\* the path from here to the rename.
Accept(s) ==
  /\ InEntry(s) /\ Zipped(s).kind = "file"
  /\ \/ disk[Target(s)] = Absent
     \/ /\ MayReplace(current[s], Target(s), Owner(s))
        /\ ~ Preserves(current[s], Target(s), Owner(s))
  /\ Goto(s, "write")
  /\ UNCHANGED <<fileVars, staging, storeVars, localVars, history>>

\* MkdirAll, Stat or hashExisting fails.
CheckFails(s) ==
  /\ "failure" \in Faults
  /\ InEntry(s) /\ Zipped(s).kind = "file"
  /\ Return(s, "failed")
  /\ UNCHANGED <<fileVars, staging, storeVars, history>>

\* writeZipFile up to Close.  Every session writes the same temporary name.
WriteTemp(s) ==
  /\ pc[s] = "write"
  /\ temp' = [temp EXCEPT ![Target(s)] = Item(s)]
  /\ Goto(s, "rename")
  /\ UNCHANGED <<disk, staging, storeVars, localVars, history>>

WriteFails_Ignored(s) ==
  /\ pc[s] = "write"
  /\ "failure" \in Faults \/ staging[Item(s)] # Complete
  /\ temp' = [temp EXCEPT ![Target(s)] = Partial]
  /\ records' = [records EXCEPT ![s] = @ \cup {NewRecord(Target(s), Item(s))}]
  /\ NextEntry(s)
  /\ UNCHANGED <<disk, staging, storeVars, history>>

WriteFails_InPlace(s) ==
  /\ pc[s] = "write"
  /\ "failure" \in Faults \/ staging[Item(s)] # Complete
  /\ disk' = [disk EXCEPT ![Target(s)] = Partial]
  /\ Return(s, "failed")
  /\ UNCHANGED <<temp, staging, storeVars, history>>

\* The copy stops half way: the disk is full, or another session has
\* truncated the archive that is being read.  The temporary file stays.
WriteFails(s) ==
  /\ pc[s] = "write"
  /\ "failure" \in Faults \/ staging[Item(s)] # Complete
  /\ temp' = [temp EXCEPT ![Target(s)] = Partial]
  /\ Return(s, "failed")
  /\ UNCHANGED <<disk, staging, storeVars, history>>

\* os.Rename installs whatever the temporary name holds now; the record has
\* the hash of what this session wrote to it.
Rename(s) ==
  /\ pc[s] = "rename"
  /\ temp[Target(s)] # Absent
  /\ disk' = [disk EXCEPT ![Target(s)] = temp[Target(s)]]
  /\ temp' = [temp EXCEPT ![Target(s)] = Absent]
  /\ records' = [records EXCEPT ![s] = @ \cup {NewRecord(Target(s), Item(s))}]
  /\ NextEntry(s)
  /\ UNCHANGED <<staging, storeVars, history>>

\* Another session has renamed the temporary file away, or an I/O error.
RenameFails(s) ==
  /\ pc[s] = "rename"
  /\ temp[Target(s)] = Absent \/ "failure" \in Faults
  /\ Return(s, "failed")
  /\ UNCHANGED <<fileVars, staging, storeVars, history>>

Upsert_MergesFiles(s) ==
  /\ pc[s] = "entry" /\ ~ EntriesLeft(s)
  /\ records[s] # {}
  /\ current' = [current EXCEPT ![s][Owner(s)] =
                    [installed |-> Item(s), files |-> @.files \cup records[s]]]
  /\ item' = [item EXCEPT ![s] = @ + 1]
  /\ Goto(s, "item")
  /\ UNCHANGED <<fileVars, staging, storeVars, plan, entry, records, history>>

\* The archive is read: upsertManifest replaces the package's entry.
Upsert(s) ==
  /\ pc[s] = "entry" /\ ~ EntriesLeft(s)
  /\ records[s] # {}
  /\ current' = [current EXCEPT ![s][Owner(s)] =
                    [installed |-> Item(s), files |-> records[s]]]
  /\ item' = [item EXCEPT ![s] = @ + 1]
  /\ Goto(s, "item")
  /\ UNCHANGED <<fileVars, staging, storeVars, plan, entry, records, history>>

\* "did not contain installable files"
NothingInstalled(s) ==
  /\ pc[s] = "entry" /\ ~ EntriesLeft(s)
  /\ records[s] = {}
  /\ Return(s, "failed")
  /\ UNCHANGED <<fileVars, staging, storeVars, history>>

-------------------------------------------------------------------------------
(* Store.Save.                                                             *)

\* The manifest is encoded into installed.json.tmp, the same for everyone.
SaveTemp(s) ==
  /\ pc[s] = "item" /\ ~ ItemsLeft(s)
  /\ saveTemp' = current[s]
  /\ Goto(s, "commit")
  /\ UNCHANGED <<fileVars, staging, manifest, localVars, history>>

\* Nothing was opened, or the encoder stopped half way.
SaveFails(s) ==
  /\ "failure" \in Faults
  /\ pc[s] = "item" /\ ~ ItemsLeft(s)
  /\ saveTemp' \in {saveTemp, Partial}
  /\ Return(s, "failed")
  /\ UNCHANGED <<fileVars, staging, manifest, history>>

Commit(s) ==
  /\ pc[s] = "commit"
  /\ saveTemp # Absent
  /\ manifest' = saveTemp
  /\ saveTemp' = Absent
  /\ Return(s, "done")
  /\ UNCHANGED <<fileVars, staging, history>>

CommitFails(s) ==
  /\ pc[s] = "commit"
  /\ saveTemp = Absent \/ "failure" \in Faults
  /\ Return(s, "failed")
  /\ UNCHANGED <<fileVars, staging, storeVars, history>>

-------------------------------------------------------------------------------
(* The process and its surroundings.                                       *)

\* The sidecar dies.  A file that was being written may be left cut short.
Crash ==
  /\ "crash" \in Faults
  /\ \E s \in Session : pc[s] \notin Resting
  /\ \E torn \in SUBSET {Target(s) : s \in {t \in Session : pc[t] = "write"}} :
       temp' = [p \in Path |-> IF p \in torn THEN Partial ELSE temp[p]]
  /\ \/ UNCHANGED saveTemp
     \/ /\ \E s \in Session : pc[s] = "item" /\ ~ ItemsLeft(s)
        /\ saveTemp' = Partial
  /\ pc' = [s \in Session |-> "idle"]
  /\ plan' = [s \in Session |-> <<>>]
  /\ item' = [s \in Session |-> 1]
  /\ entry' = [s \in Session |-> 1]
  /\ current' = [s \in Session |-> EmptyManifest]
  /\ records' = [s \in Session |-> {}]
  /\ UNCHANGED <<disk, staging, manifest, history>>

\* Some session has checked p and not yet renamed a file onto it.
InWindow(p) == \E s \in Session : pc[s] \in {"write", "rename"} /\ Target(s) = p

\* An administrator or the game server writes a file.
OutsideWrite(p) ==
  /\ p \in Writable
  /\ disk' = [disk EXCEPT ![p] = Foreign]
  /\ raced' = IF InWindow(p) THEN raced \cup {p} ELSE raced
  /\ UNCHANGED <<temp, staging, storeVars, pc, localVars, removed>>

OutsideDelete(p) ==
  /\ p \in Removable
  /\ disk[p] # Absent
  /\ disk' = [disk EXCEPT ![p] = Absent]
  /\ removed' = removed \cup {p}
  /\ UNCHANGED <<temp, staging, storeVars, pc, localVars, raced>>

Step(s) ==
  \/ Begin(s) \/ Download(s) \/ DownloadFails(s) \/ Copy(s) \/ CopyFails(s)
  \/ Open(s) \/ OpenFails(s)
  \/ Skip(s) \/ RejectUnsafe(s) \/ Refuse(s) \/ Keep(s) \/ Accept(s) \/ CheckFails(s)
  \/ WriteTemp(s) \/ WriteFails(s) \/ Rename(s) \/ RenameFails(s)
  \/ Upsert(s) \/ NothingInstalled(s)
  \/ SaveTemp(s) \/ SaveFails(s) \/ Commit(s) \/ CommitFails(s)

Outside == \E p \in Path : OutsideWrite(p) \/ OutsideDelete(p)

Next == (\E s \in Session : Step(s)) \/ Crash \/ Outside

Spec == Init /\ [][Next]_vars

-------------------------------------------------------------------------------
(* Properties.                                                             *)

Locations == Resting \cup {"item", "copy", "open", "entry", "write", "rename", "commit"}

\* Every variable has its type: the disk holds known contents, the cursors
\* count from one, and each session's manifest is a manifest.
TypeOK ==
  /\ disk \in [Path -> Content \cup {Absent}]
  /\ temp \in [Path -> Content \cup {Absent}]
  /\ staging \in [Version -> Session \cup {Absent, Complete}]
  /\ manifest \in Manifest \cup {Partial}
  /\ saveTemp \in Manifest \cup {Absent, Partial}
  /\ pc \in [Session -> Locations]
  /\ plan \in [Session -> Seq(Version)]
  /\ item \in [Session -> Nat \ {0}]
  /\ entry \in [Session -> Nat \ {0}]
  /\ current \in [Session -> Manifest]
  /\ records \in [Session -> SUBSET Record]
  /\ removed \subseteq Path /\ raced \subseteq Path

\* The saved manifest names no file that is not there: a record is made when
\* the file is in place, sync never deletes, and a failed or killed sync
\* saves nothing.  Paths that somebody else deleted are exempt.
RecordedFilesExist ==
  manifest # Partial =>
    \A k \in Package : \A r \in manifest[k].files :
      r.path \in removed \/ disk[r.path] # Absent

OneOwner(m, P) ==
  \A p \in P : \A k1, k2 \in Owners(m, p) : k1 = k2

\* The saved manifest gives no file to two packages, however many syncs
\* overlap, fail or die.  Paths that somebody deleted are exempt.
UniqueOwner == manifest # Partial => OneOwner(manifest, Path \ removed)

\* No half-written file is ever visible under its own name in the plugins
\* directory: writeZipFile writes beside it and renames.
NoPartialFile == \A p \in Path : disk[p] # Partial

\* A sync leaves a config file that exists as it is, through every update,
\* failure and crash (README.md, "Config-like files are preserved on update by
\* default").  A file somebody drops between the check and the rename is exempt.
ConfigNeverOverwritten ==
  [][\A p \in ConfigPath \ raced :
       disk[p] # Absent => disk'[p] = disk[p] \/ disk'[p] \in {Foreign, Absent}]_disk

\* Somebody's record gives p to package k: the saved manifest's or a running
\* session's.
Recorded(p, k) ==
  \/ manifest # Partial /\ k \in Owners(manifest, p)
  \/ \E s \in Session : k \in Owners(current[s], p)

\* A file Rekja did not write is replaced only by a package that some record
\* makes its owner (README.md:447, "Untracked files block overwrite").
UntrackedBlocksOverwrite ==
  [][\A p \in Path \ raced :
       disk[p] = Foreign /\ disk'[p] \in Version => Recorded(p, PackageOf[disk'[p]])]_disk

\* One package's bytes are never replaced by another's (README.md:448, "Files
\* owned by another tracked package block overwrite").
BytesStayInPackage ==
  [][\A p \in Path \ removed :
       disk[p] \in Version /\ disk'[p] \in Version =>
         PackageOf[disk[p]] = PackageOf[disk'[p]]]_disk

\* The version of k that the plan p leaves installed: the last one listed, a
\* package that is a root and a dependency being listed twice.
Positions(p, k) == {i \in DOMAIN p : PackageOf[p[i]] = k}
LastVersion(p, k) ==
  p[CHOOSE i \in Positions(p, k) : \A j \in Positions(p, k) : j <= i]

\* When a sync saves, every package of its plan is recorded at the version its
\* plan ends with, with every file of that version recorded and, unless it is
\* a config or somebody touched it, holding that version's bytes.
InstalledAsPlanned(s) ==
  \A k \in {PackageOf[plan[s][i]] : i \in DOMAIN plan[s]} :
    LET v == LastVersion(plan[s], k) IN
      /\ manifest'[k].installed = v
      /\ \A e \in {Archive[v][i] : i \in DOMAIN Archive[v]} :
           e.kind = "file" =>
             /\ \E r \in manifest'[k].files : r.path = e.path
             /\ e.path \in ConfigPath \cup removed \/ disk[e.path] \in {v, Foreign}

SaveMeansInstalled ==
  [][\A s \in Session :
       pc[s] = "commit" /\ pc'[s] = "done" => InstalledAsPlanned(s)]_pc

\* Every file with a package's bytes is recorded for that package.
FilesAreOwned ==
  \A p \in Path : disk[p] \in Version => PackageOf[disk[p]] \in Owners(manifest, p)

\* manifest.go:7: the manifest is the "source of truth for Thunderstore package
\* ownership of files written under the ValheimPlus plugin directory", whenever
\* no sync runs, however the last ones ended.
WrittenFilesAreOwned == (\A s \in Session : pc[s] \in Resting) => FilesAreOwned

\* The same after syncs that all went well, each having saved the manifest.
SavedFilesAreOwned == (\A s \in Session : pc[s] = "done") => FilesAreOwned

\* With one session at a time, Apply implements SyncPromise: a sync that ends
\* well has saved its whole plan in one step, and one that fails or dies has
\* changed nothing in the saved manifest.
Promise == INSTANCE SyncPromise WITH
             installed <- [k \in Package |-> manifest[k].installed],
             status <- [s \in Session |-> IF pc[s] \in Resting THEN pc[s] ELSE "busy"]
SyncIsAtomic == Promise!Spec
===============================================================================
