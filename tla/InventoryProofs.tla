---------------------------- MODULE InventoryProofs ----------------------------
(***************************************************************************)
(* What a scan tells, for any directory, any syncs and any outside actors: *)
(* the types of its variables, that it is right about what nobody touches, *)
(* and that drift is somebody's doing.                                     *)
(***************************************************************************)
EXTENDS Inventory, SyncEngineProofs

\* The syncs and the outside actors do beside a scan what they do without.
LEMMA WorldSteps ==
  ASSUME [InventoryNext]_inventoryVars
  PROVE  [Next]_vars
PROOF BY DEF InventoryNext, inventoryVars, Scanning, World

\* A scan holds a manifest and hashes listed names.
LEMMA ScanTypesInductive ==
  ASSUME TypeOK, ScanTypeOK, [InventoryNext]_inventoryVars
  PROVE  ScanTypeOK'
PROOF
  <1>1. CASE Scanning
    <2> USE DEF ScanTypeOK
    <2>1. UNCHANGED <<meddled, stumbled>>
      BY <1>1 DEF Scanning
    <2>2. CASE ScanLoad
      BY <2>1, <2>2, EmptyIsManifest DEF ScanLoad, TypeOK
    <2>3. CASE ListFiles \/ FinishScan \/ ScanFails
      BY <2>1, <2>3 DEF ListFiles, FinishScan, ScanFails, Answer
    <2>4. ASSUME NEW n \in Name, HashFile(n) \/ FileVanished(n)
          PROVE  ScanTypeOK'
      BY <2>1, <2>4 DEF HashFile, FileVanished, Answer
    <2> QED BY <1>1, <2>2, <2>3, <2>4 DEF Scanning
  <1>2. CASE World
    BY <1>2 DEF World, scanVars, ScanTypeOK
  <1>3. CASE UNCHANGED inventoryVars
    BY <1>3 DEF inventoryVars, scanVars, ScanTypeOK
  <1> QED BY <1>1, <1>2, <1>3 DEF InventoryNext

\* Every variable of a scan keeps its type, whatever happens beside it.
THEOREM ScanTypeCorrect == InventorySpec => []ScanTypeOK
PROOF
  <1>1. InventoryInit => TypeInv /\ ScanTypeOK
    BY TypeInvInit, EmptyIsManifest DEF InventoryInit, ScanInit, ScanTypeOK
  <1>2. TypeInv /\ ScanTypeOK /\ [InventoryNext]_inventoryVars => (TypeInv /\ ScanTypeOK)'
    BY WorldSteps, TypeInvInductive, ScanTypesInductive DEF TypeInv
  <1> QED BY <1>1, <1>2, PTL DEF InventorySpec

-------------------------------------------------------------------------------
(* A walk is right so far about every name that nobody has touched: what is *)
(* left to hash is there, and what is hashed is where it belongs.           *)

WalkIsRight ==
  \A n \in Name \ touched :
    /\ n \in todo => Exists(n)
    /\ n \in untracked <=> Exists(n) /\ ~ Managed(n) /\ n \notin todo
    /\ n \in drift => Exists(n) /\ Differs(n)
    /\ Exists(n) /\ Managed(n) /\ n \notin drift /\ n \notin todo => Matches(n)

ScanInv ==
  /\ scan = "list" => drift = {} /\ untracked = {}
  /\ scan = "walk" => WalkIsRight
  /\ scan = "answered" =>
       /\ todo = {}
       /\ ~ whole => touched # {} /\ drift = {}
       /\ whole => WalkIsRight

\* A step of the scan itself keeps it right.
LEMMA ScanningIsRight ==
  ASSUME ScanTypeOK, ScanInv, Scanning
  PROVE  ScanInv'
PROOF
  <1>1. UNCHANGED <<disk, temp>>
    BY DEF Scanning, vars, fileVars
  <1>2. \A n \in Name : Holds(n)' = Holds(n) /\ Exists(n)' = Exists(n)
    BY <1>1 DEF Holds, Exists
  <1>3. held' = held => \A n \in Name : /\ Managed(n)' = Managed(n)
                                        /\ Differs(n)' = Differs(n)
                                        /\ Matches(n)' = Matches(n)
    BY <1>2 DEF Managed, Differs, Matches, RecordsOf
  <1>4. CASE ScanLoad
    BY <1>4 DEF ScanLoad, ScanInv
  <1>5. CASE ListFiles
    BY <1>2, <1>3, <1>5 DEF ListFiles, ScanInv, WalkIsRight
  <1>6. ASSUME NEW n \in Name, HashFile(n)
        PROVE  ScanInv'
    <2>1. held' = held /\ scan = "walk" /\ scan' = "walk" /\ touched' = touched /\ WalkIsRight
      BY <1>6 DEF HashFile, ScanInv
    <2>2. WalkIsRight'
      <3> SUFFICES ASSUME NEW m \in Name \ touched
                   PROVE  /\ m \in todo' => Exists(m)
                          /\ m \in untracked' <=> Exists(m) /\ ~ Managed(m) /\ m \notin todo'
                          /\ m \in drift' => Exists(m) /\ Differs(m)
                          /\ Exists(m) /\ Managed(m) /\ m \notin drift' /\ m \notin todo' => Matches(m)
        BY <1>2, <1>3, <2>1 DEF WalkIsRight
      <3> QED BY <1>6, <2>1 DEF HashFile, WalkIsRight
    <2> QED BY <2>1, <2>2 DEF ScanInv
  <1>7. ASSUME NEW n \in Name, FileVanished(n)
        PROVE  ScanInv'
    BY <1>7 DEF FileVanished, Answer, ScanInv, WalkIsRight
  <1>8. CASE FinishScan
    BY <1>2, <1>3, <1>8 DEF FinishScan, Answer, ScanInv, WalkIsRight
  <1>9. CASE ScanFails
    BY <1>9 DEF ScanFails, ScanInv
  <1> QED BY <1>4, <1>5, <1>6, <1>7, <1>8, <1>9 DEF Scanning

\* So does whatever happens beside it: what changes is touched from then on.
LEMMA ScanInvInductive ==
  ASSUME ScanTypeOK, ScanInv, [InventoryNext]_inventoryVars
  PROVE  ScanInv'
PROOF
  <1>1. CASE World \/ UNCHANGED inventoryVars
    <2>1. /\ UNCHANGED scanVars /\ touched \subseteq touched'
          /\ \A n \in Name \ touched' : Holds(n)' = Holds(n)
      BY <1>1 DEF World, inventoryVars, vars, fileVars, Holds
    <2>2. \A n \in Name \ touched' : /\ Exists(n)' = Exists(n) /\ Managed(n)' = Managed(n)
                                     /\ Differs(n)' = Differs(n) /\ Matches(n)' = Matches(n)
      BY <2>1 DEF Exists, Managed, Differs, Matches, RecordsOf, scanVars
    <2>3. WalkIsRight => WalkIsRight'
      BY <2>1, <2>2 DEF WalkIsRight, scanVars
    <2> QED BY <2>1, <2>3 DEF ScanInv, scanVars
  <1> QED BY <1>1, ScanningIsRight DEF InventoryNext

\* Whatever syncs and people do meanwhile, a snapshot is right about every file
\* that nobody touched, and hides all of them only if one went away.
THEOREM SnapshotsAreRight == InventorySpec => []UntouchedAreRight
PROOF
  <1> DEFINE Inv == TypeInv /\ ScanTypeOK /\ ScanInv
  <1>1. InventoryInit => Inv
    BY TypeInvInit, EmptyIsManifest DEF InventoryInit, ScanInit, ScanTypeOK, ScanInv
  <1>2. Inv /\ [InventoryNext]_inventoryVars => Inv'
    BY WorldSteps, TypeInvInductive, ScanTypesInductive, ScanInvInductive DEF TypeInv
  <1>3. Inv => UntouchedAreRight
    BY DEF ScanInv, WalkIsRight, UntouchedAreRight
  <1> QED BY <1>1, <1>2, <1>3, PTL DEF InventorySpec

-------------------------------------------------------------------------------
(* Records tell the truth about the disk, as long as nobody else writes     *)
(* there, no sync fails, and syncs follow one another.                      *)

Others == meddled \cup removed

\* The records of the packages K name what is on disk.
TrueShas(m, K) ==
  \A k \in K : \A r \in m[k].files : r.path \notin Others => r.sha = disk[r.path]

\* So do the records of the archive that is read.
RecordsTrue(s) ==
  \A r \in records[s] :
    r.path \notin Others =>
      /\ r.sha = disk[r.path]
      /\ r.sha = Item(s) \/ Preserves(current[s], r.path, Owner(s))

\* What is about to be replaced is no config that is kept.
WindowTrue(s) ==
  Target(s) \notin Others =>
    disk[Target(s)] = Absent \/ ~ Preserves(current[s], Target(s), Owner(s))

Truthful(s) ==
  /\ Running(s) => TrueShas(current[s], IF Working(s) THEN Package \ {Owner(s)} ELSE Package)
  /\ Extracting(s) => RecordsTrue(s)
  /\ InTheWindow(s) => WindowTrue(s)

TruthInv ==
  ~ stumbled =>
    /\ (\A s \in Session : pc[s] \in Resting) => TrueShas(manifest, Package)
    /\ \A s \in Session : Truthful(s)

\* What held before a step that changes only files of others holds after it.
LEMMA TruthLasts ==
  ASSUME NEW m \in Manifest, NEW K \in SUBSET Package, TrueShas(m, K),
         Others \subseteq Others', \A p \in Path \ Others' : disk'[p] = disk[p]
  PROVE  TrueShas(m, K)'
PROOF
  <1> SUFFICES ASSUME NEW k \in K, NEW r \in m[k].files, r.path \notin Others'
               PROVE  r.sha = disk'[r.path]
    BY DEF TrueShas
  <1>1. r.path \in Path
    BY DEF Manifest, Tracked, Record
  <1> QED BY <1>1 DEF TrueShas

\* A step of a sync leaves alone what it does not rename.
LEMMA StepsTouchLittle ==
  ASSUME SerialInv, NEW s \in Session, Step(s), ~ Rename(s), World
  PROVE  /\ disk' = disk /\ Others \subseteq Others'
         /\ \A p \in Path \ Others' : disk'[p] = disk[p]
PROOF
  BY DEF World, Others, Step, fileVars, history, Begin, Download, DownloadFails, Copy, CopyFails, Open, OpenFails,
        Skip, RejectUnsafe, Refuse, Keep, Accept, CheckFails, WriteTemp, WriteFails, RenameFails,
        Upsert, NothingInstalled, SaveTemp, SaveFails, Commit, CommitFails

\* A sync that does not fail begins with what is saved and ends by saving it.
LEMMA EndsTruthful ==
  ASSUME SerialInv, OneAtATime, OneAtATime', TruthInv, ~ stumbled, World,
         NEW s \in Session, Step(s), Begin(s) \/ Commit(s)
  PROVE  /\ (\A t \in Session : pc'[t] \in Resting) => TrueShas(manifest, Package)'
         /\ Truthful(s)'
PROOF
  <1>0. TypeInv /\ OnCourse(s) /\ manifest # Partial
    BY DEF SerialInv, ApartInv, SafeInv
  <1>1. Others \subseteq Others' /\ \A p \in Path \ Others' : disk'[p] = disk[p]
    <2>1. ~ Rename(s)
      BY DEF Begin, Commit, Rename, Resting
    <2> QED BY <2>1, StepsTouchLittle
  <1>2. CASE Begin(s)
    <2>1. pc[s] \in Resting /\ pc'[s] = "item" /\ current'[s] = manifest
      BY <1>0, <1>2 DEF Begin, Goto, TypeInv, TypeOK
    <2>2. \A t \in Session : pc[t] \in Resting
      BY <1>0, <2>1, OthersRest DEF Running
    <2>3. TrueShas(manifest, Package) /\ manifest \in Manifest
      BY <1>0, <2>2 DEF TruthInv, TypeInv, TypeOK
    <2>4. \A m : m = manifest => TrueShas(m, Package)'
      BY <1>1, <2>3, TruthLasts
    <2>5. TrueShas(current[s], Package)'
      BY <2>1, <2>4
    <2> QED BY <2>1, <2>5 DEF Truthful, Working, Extracting, InTheWindow, Resting
  <1>3. CASE Commit(s)
    <2>1. pc[s] = "commit" /\ pc'[s] = "done" /\ manifest' = current[s]
      BY <1>0, <1>3, ReturnsEmpty DEF Commit, OnCourse, Resting
    <2>2. TrueShas(current[s], Package) /\ current[s] \in Manifest
      BY <1>0, <2>1 DEF TruthInv, Truthful, Running, Resting, Working, TypeInv, TypeOK
    <2>3. \A m : m = current[s] => TrueShas(m, Package)'
      BY <1>1, <2>2, TruthLasts
    <2> QED BY <2>1, <2>3 DEF Truthful, Running, Extracting, InTheWindow, Resting
  <1> QED BY <1>2, <1>3

\* Between its beginning and its end a sync keeps its records true ...
LEMMA PassesTruthful ==
  ASSUME SerialInv, TruthInv, ~ stumbled, World, NEW s \in Session, Step(s),
         \/ Download(s) \/ Copy(s) \/ Open(s) \/ Skip(s) \/ Keep(s) \/ Accept(s)
         \/ WriteTemp(s) \/ Upsert(s) \/ SaveTemp(s)
  PROVE  Running(s)' /\ Truthful(s)'
PROOF
  <1>0. TypeInv /\ Truthful(s) /\ current[s] \in Manifest
    BY DEF SerialInv, ApartInv, SafeInv, TruthInv, TypeInv, TypeOK
  <1>1. disk' = disk /\ Others \subseteq Others' /\ \A p \in Path \ Others' : disk'[p] = disk[p]
    <2>1. ~ Rename(s)
      BY DEF Download, Copy, Open, Skip, Keep, Accept, WriteTemp, Upsert, SaveTemp, Rename, InEntry
    <2> QED BY <2>1, StepsTouchLittle
  <1>2. ASSUME NEW K \in SUBSET Package, TrueShas(current[s], K)
        PROVE  \A m : m = current[s] => TrueShas(m, K)'
    BY <1>0, <1>1, <1>2, TruthLasts
  <1>3. CASE Download(s) \/ Copy(s) \/ Open(s)
    <2>1. /\ plan'[s] = plan[s] /\ item'[s] = item[s] /\ current'[s] = current[s]
          /\ Running(s) /\ Running(s)' /\ Working(s)' /\ ~ InTheWindow(s)'
          /\ Extracting(s)' => records'[s] = {}
      BY <1>0, <1>3
      DEF Download, Copy, Open, Goto, TypeInv, TypeOK, localVars, Running, Resting, Working,
          InTheWindow, Extracting
    <2>2. Owner(s)' = Owner(s)
      BY <2>1, SameLook
    <2>3. TrueShas(current[s], Package \ {Owner(s)})
      BY <1>0, <2>1 DEF Truthful, TrueShas
    <2> QED BY <1>2, <2>1, <2>2, <2>3 DEF Truthful, RecordsTrue
  <1>4. CASE Skip(s) \/ Keep(s) \/ Accept(s) \/ WriteTemp(s)
    <2>1. /\ plan'[s] = plan[s] /\ item'[s] = item[s] /\ current'[s] = current[s]
          /\ Running(s) /\ Running(s)' /\ Working(s) /\ Working(s)' /\ Extracting(s)
      BY <1>0, <1>4
      DEF Skip, Keep, Accept, WriteTemp, InEntry, NextEntry, Goto, TypeInv, TypeOK, localVars, Running,
          Resting, Working, Extracting
    <2>2. Owner(s)' = Owner(s) /\ Item(s)' = Item(s) /\ (entry'[s] = entry[s] => Target(s)' = Target(s))
      BY <2>1, SameLook
    <2>3. TrueShas(current[s], Package \ {Owner(s)}) /\ RecordsTrue(s)
      BY <1>0, <2>1 DEF Truthful
    <2>4. RecordsTrue(s)'
      <3>1. \A r \in records'[s] :
              \/ r \in records[s]
              \/ r.sha = disk[r.path] /\ Preserves(current[s], r.path, Owner(s))
        <4>1. CASE Keep(s)
          BY <1>0, <4>1 DEF Keep, PreservedRecord, TypeInv, TypeOK
        <4>2. CASE Skip(s) \/ Accept(s) \/ WriteTemp(s)
          BY <4>2 DEF Skip, Accept, WriteTemp, localVars
        <4> QED BY <1>4, <4>1, <4>2
      <3> QED BY <1>1, <2>1, <2>2, <2>3, <3>1 DEF RecordsTrue, Preserves
    <2>5. InTheWindow(s)' => WindowTrue(s)'
      <3>1. CASE Accept(s) \/ WriteTemp(s)
        <4>1. Target(s)' = Target(s) /\ (InTheWindow(s) \/ Accept(s))
          BY <2>2, <3>1 DEF Accept, WriteTemp, localVars, InTheWindow
        <4>2. WindowTrue(s)
          BY <1>0, <4>1 DEF Truthful, Accept, WindowTrue
        <4> QED BY <1>1, <2>1, <2>2, <4>1, <4>2 DEF WindowTrue, Preserves
      <3>2. CASE Skip(s) \/ Keep(s)
        BY <1>0, <3>2 DEF Skip, Keep, NextEntry, Goto, InTheWindow, TypeInv, TypeOK
      <3> QED BY <1>4, <3>1, <3>2
    <2> QED BY <1>2, <2>1, <2>2, <2>3, <2>4, <2>5 DEF Truthful
  <1>5. CASE Upsert(s)
    <2>1. Owner(s) \in Package
      BY <1>0, <1>5, CursorTypes DEF Upsert, TypeInv, CursorOK
    <2>2. /\ pc[s] = "entry" /\ pc'[s] = "item"
          /\ \A k \in Package :
               current'[s][k].files = IF k = Owner(s) THEN records[s] ELSE current[s][k].files
      BY <1>0, <1>5, <2>1 DEF Upsert, Goto, TypeInv, TypeOK, Manifest
    <2>3. TrueShas(current[s], Package \ {Owner(s)}) /\ RecordsTrue(s)
      BY <1>0, <2>2 DEF Truthful, Running, Resting, Working, Extracting
    <2>4. TrueShas(current[s], Package)'
      BY <1>1, <2>2, <2>3 DEF TrueShas, RecordsTrue
    <2> QED BY <2>2, <2>4 DEF Truthful, Running, Resting, Working, Extracting, InTheWindow
  <1>6. CASE SaveTemp(s)
    <2>1. current'[s] = current[s] /\ pc[s] = "item" /\ pc'[s] = "commit"
      BY <1>0, <1>6 DEF SaveTemp, Goto, TypeInv, TypeOK, localVars
    <2>2. TrueShas(current[s], Package)
      BY <1>0, <2>1 DEF Truthful, Running, Resting, Working
    <2> QED BY <1>2, <2>1, <2>2 DEF Truthful, Running, Resting, Working, Extracting, InTheWindow
  <1> QED BY <1>3, <1>4, <1>5, <1>6

\* ... and what it renames into place is recorded by nobody else.
LEMMA RenamesTruthful ==
  ASSUME SerialInv, TruthInv, ~ stumbled, World, NEW s \in Session, Step(s), Rename(s)
  PROVE  Running(s)' /\ Truthful(s)'
PROOF
  <1>0. TypeInv /\ Truthful(s) /\ TempIsMine /\ AllAgree /\ AllReal
    BY DEF SerialInv, ApartInv, SafeInv, TruthInv
  <1>1. Item(s) \in Version /\ Owner(s) \in Package /\ Target(s) \in Path
    BY <1>0, CursorTypes DEF Rename, TypeInv, CursorOK
  <1>2. /\ removed' = removed
        /\ plan'[s] = plan[s] /\ item'[s] = item[s] /\ current'[s] = current[s]
        /\ pc[s] = "rename" /\ pc'[s] = "entry"
        /\ records'[s] = records[s] \cup {NewRecord(Target(s), Item(s))}
        /\ Item(s)' = Item(s) /\ Owner(s)' = Owner(s)
    BY <1>0, SameLook DEF Rename, NextEntry, Goto, TypeInv, TypeOK, history
  <1>3. disk' = [disk EXCEPT ![Target(s)] = Item(s)]
    BY <1>0 DEF Rename, TempIsMine
  <1>4. /\ Others \subseteq Others'
        /\ \A p \in Path : disk'[p] = IF p = Target(s) THEN Item(s) ELSE disk[p]
    BY <1>0, <1>1, <1>2, <1>3 DEF World, Others, TypeInv, TypeOK
  <1>5. TrueShas(current[s], Package \ {Owner(s)}) /\ RecordsTrue(s) /\ WindowTrue(s)
    BY <1>0, <1>2 DEF Truthful, Running, Resting, Working, Extracting, InTheWindow
  <1>6. ASSUME NEW k \in Package \ {Owner(s)}, NEW r \in current[s][k].files, r.path \notin Others'
        PROVE  r.sha = disk'[r.path]
    <2>1. r.path \in Path
      BY <1>0 DEF TypeInv, TypeOK, Manifest, Tracked, Record
    <2>2. r.path # Target(s)
      <3> SUFFICES ASSUME r.path = Target(s) PROVE FALSE
        OBVIOUS
      <3>1. Claims(k, Target(s)) /\ Claims(Owner(s), Target(s))
        BY <1>2 DEF Claims, Owners, InTheWindow
      <3>2. Target(s) \in Kept
        BY <1>1, <1>2, <1>6 DEF Kept, Others
      <3> QED BY <1>0, <1>1, <3>1, <3>2 DEF AllAgree
    <2> QED BY <1>4, <1>5, <1>6, <2>1, <2>2 DEF TrueShas
  <1>7. ASSUME NEW r \in records[s], r.path \notin Others'
        PROVE  r.sha = disk'[r.path] /\ (r.sha = Item(s) \/ Preserves(current[s], r.path, Owner(s)))
    <2>1. r.path \in Path /\ r.path \notin Missing /\ r.path \notin removed
      BY <1>0, <1>2, <1>7 DEF TypeInv, TypeOK, Record, AllReal, Others
    <2>2. r.path = Target(s) => r.sha = Item(s)
      BY <1>4, <1>5, <1>7, <2>1 DEF RecordsTrue, WindowTrue, Missing
    <2> QED BY <1>4, <1>5, <1>7, <2>1, <2>2 DEF RecordsTrue
  <1>8. RecordsTrue(s)'
    <2> SUFFICES ASSUME NEW r \in records'[s], r.path \notin Others'
                 PROVE  r.sha = disk'[r.path] /\ (r.sha = Item(s) \/ Preserves(current[s], r.path, Owner(s)))
      BY <1>2 DEF RecordsTrue, Preserves
    <2>1. CASE r = NewRecord(Target(s), Item(s))
      BY <1>1, <1>4, <2>1 DEF NewRecord
    <2> QED BY <1>2, <1>7, <2>1
  <1>9. TrueShas(current[s], Package \ {Owner(s)})'
    BY <1>2, <1>6 DEF TrueShas
  <1> QED BY <1>2, <1>8, <1>9 DEF Truthful, Running, Resting, Working, InTheWindow

\* A step of a sync keeps the truth, or the sync fails and it is over.
LEMMA StepTruthful ==
  ASSUME SerialInv, OneAtATime, OneAtATime', TruthInv, World, NEW s \in Session, Step(s)
  PROVE  TruthInv'
PROOF
  <1>0. TypeInv /\ manifest # Partial
    BY DEF SerialInv, ApartInv, SafeInv
  <1> SUFFICES ASSUME ~ stumbled'
               PROVE  /\ (\A t \in Session : pc'[t] \in Resting) => TrueShas(manifest, Package)'
                      /\ \A t \in Session : Truthful(t)'
    BY DEF TruthInv
  <1>1. ~ stumbled /\ ~ (pc'[s] # pc[s] /\ pc'[s] = "failed")
    BY DEF World
  <1>2. ASSUME \/ DownloadFails(s) \/ CopyFails(s) \/ OpenFails(s)
               \/ RejectUnsafe(s) \/ Refuse(s) \/ CheckFails(s) \/ WriteFails(s) \/ RenameFails(s)
               \/ NothingInstalled(s) \/ SaveFails(s) \/ CommitFails(s)
        PROVE  FALSE
    <2>1. Return(s, "failed") /\ pc[s] # "failed"
      BY <1>2
      DEF DownloadFails, CopyFails, OpenFails, RejectUnsafe, Refuse, CheckFails, WriteFails, RenameFails,
          NothingInstalled, SaveFails, CommitFails, InEntry
    <2> QED BY <1>0, <1>1, <2>1, ReturnsEmpty DEF Resting
  <1>3. /\ (\A t \in Session : pc'[t] \in Resting) => TrueShas(manifest, Package)'
        /\ Truthful(s)'
    <2>1. CASE Begin(s) \/ Commit(s)
      BY <1>1, <2>1, EndsTruthful
    <2>2. CASE ~ (Begin(s) \/ Commit(s))
      <3>1. Running(s)' /\ Truthful(s)'
        BY <1>1, <1>2, <2>2, PassesTruthful, RenamesTruthful DEF Step
      <3> QED BY <3>1 DEF Running
    <2> QED BY <2>1, <2>2
  <1>4. ASSUME NEW t \in Session, t # s PROVE Truthful(t)'
    <2>1. ~ Running(t)'
      BY <1>0, <1>4, OthersRest
    <2> QED BY <2>1 DEF Truthful, Running, Extracting, InTheWindow, Resting
  <1> QED BY <1>3, <1>4

\* What others write and delete is theirs from then on.
LEMMA OutsideTruthful ==
  ASSUME SerialInv, TruthInv, World, Outside
  PROVE  TruthInv'
PROOF
  <1>0. TypeInv /\ manifest \in Manifest
    BY DEF SerialInv, ApartInv, SafeInv, TypeInv, TypeOK
  <1>1. UNCHANGED <<storeVars, pc, localVars>>
    BY DEF Outside, OutsideWrite, OutsideDelete
  <1>2. Others \subseteq Others' /\ \A p \in Path \ Others' : disk'[p] = disk[p]
    BY <1>0 DEF Outside, OutsideWrite, OutsideDelete, World, Others, TypeInv, TypeOK
  <1> SUFFICES ASSUME ~ stumbled'
               PROVE  /\ (\A t \in Session : pc'[t] \in Resting) => TrueShas(manifest, Package)'
                      /\ \A t \in Session : Truthful(t)'
    BY DEF TruthInv
  <1>3. ~ stumbled
    BY DEF World
  <1>4. \A m \in Manifest : \A K \in SUBSET Package : TrueShas(m, K) => TrueShas(m, K)'
    BY <1>2, TruthLasts
  <1>5. (\A t \in Session : pc'[t] \in Resting) => TrueShas(manifest, Package)'
    BY <1>0, <1>1, <1>3, <1>4 DEF TruthInv, storeVars
  <1>6. ASSUME NEW t \in Session PROVE Truthful(t)'
    <2>1. /\ Item(t)' = Item(t) /\ Owner(t)' = Owner(t) /\ Target(t)' = Target(t)
          /\ Working(t)' = Working(t) /\ Running(t)' = Running(t)
          /\ Extracting(t)' = Extracting(t) /\ InTheWindow(t)' = InTheWindow(t)
      BY <1>1 DEF localVars, Item, Owner, Target, Zipped, Working, Running, Extracting, InTheWindow
    <2>2. Truthful(t) /\ current[t] \in Manifest
      BY <1>0, <1>3 DEF TruthInv, TypeInv, TypeOK
    <2>3. Running(t) => TrueShas(current[t], IF Working(t) THEN Package \ {Owner(t)} ELSE Package)'
      <3>1. (IF Working(t) THEN Package \ {Owner(t)} ELSE Package) \in SUBSET Package
        OBVIOUS
      <3> QED BY <1>1, <1>4, <2>1, <2>2, <3>1 DEF Truthful, localVars
    <2>4. Extracting(t) => RecordsTrue(t)'
      <3>1. \A r \in records[t] : r.path \in Path
        BY <1>0 DEF TypeInv, TypeOK, Record
      <3> QED BY <1>1, <1>2, <2>1, <2>2, <3>1 DEF Truthful, RecordsTrue, Preserves, localVars
    <2>5. InTheWindow(t) => WindowTrue(t)'
      <3>1. InTheWindow(t) => Target(t) \in Path
        BY <1>0, CursorTypes DEF InTheWindow, TypeInv, CursorOK
      <3> QED BY <1>1, <1>2, <2>1, <2>2, <3>1 DEF Truthful, WindowTrue, Preserves, localVars
    <2> QED BY <2>1, <2>3, <2>4, <2>5 DEF Truthful
  <1> QED BY <1>5, <1>6

\* Nothing that happens, beside a scan or in it, makes a record lie.
LEMMA TruthInvInductive ==
  ASSUME SerialInv, OneAtATime, OneAtATime', TruthInv, [InventoryNext]_inventoryVars
  PROVE  TruthInv'
PROOF
  <1>1. ASSUME World, NEW s \in Session, Step(s) PROVE TruthInv'
    BY <1>1, StepTruthful
  <1>2. ASSUME World, Crash PROVE TruthInv'
    <2>1. PICK s \in Session : pc[s] \notin Resting
      BY <1>2 DEF Crash
    <2>2. pc'[s] = "idle" /\ pc'[s] # pc[s]
      BY <1>2, <2>1 DEF Crash, Resting
    <2> QED BY <1>2, <2>2 DEF World, TruthInv
  <1>3. ASSUME World, Outside PROVE TruthInv'
    BY <1>3, OutsideTruthful
  <1>4. CASE Scanning \/ UNCHANGED inventoryVars
    <2>1. UNCHANGED <<disk, manifest, pc, plan, item, entry, current, records, removed, meddled, stumbled>>
      BY <1>4 DEF Scanning, inventoryVars, vars, fileVars, storeVars, localVars, history
    <2>2. \A m, K : TrueShas(m, K)' <=> TrueShas(m, K)
      BY <2>1 DEF TrueShas, Others
    <2>3. ASSUME NEW t \in Session, Truthful(t) PROVE Truthful(t)'
      <3>1. /\ Item(t)' = Item(t) /\ Owner(t)' = Owner(t) /\ Target(t)' = Target(t)
            /\ Working(t)' = Working(t) /\ Running(t)' = Running(t)
            /\ Extracting(t)' = Extracting(t) /\ InTheWindow(t)' = InTheWindow(t)
        BY <2>1 DEF Item, Owner, Target, Zipped, Working, Running, Extracting, InTheWindow
      <3>2. RecordsTrue(t) => RecordsTrue(t)'
        BY <2>1, <3>1 DEF RecordsTrue, Others, Preserves
      <3>3. WindowTrue(t) => WindowTrue(t)'
        BY <2>1, <3>1 DEF WindowTrue, Others, Preserves
      <3> QED BY <2>1, <2>2, <2>3, <3>1, <3>2, <3>3 DEF Truthful
    <2> QED BY <2>1, <2>2, <2>3 DEF TruthInv
  <1> QED BY <1>1, <1>2, <1>3, <1>4 DEF InventoryNext, World, Next

\* When syncs follow one another and none has failed, a scan shows drift only in
\* files that somebody outside has written or deleted: the engine's own records
\* never lie, through every update and every config that is kept.
THEOREM DriftIsForeign == InventorySpec /\ []OneAtATime => []DriftIsSomebodys
PROOF
  <1> DEFINE Inv == SerialInv /\ ScanTypeOK /\ ScanInv /\ TruthInv
  <1>1. InventoryInit => Inv
    <2> SUFFICES ASSUME InventoryInit PROVE Inv
      OBVIOUS
    <2>1. SerialInv /\ ScanTypeOK /\ ScanInv
      BY SerialInvInit, EmptyIsManifest DEF InventoryInit, ScanInit, ScanTypeOK, ScanInv
    <2>2. TruthInv
      BY DEF InventoryInit, Init, TruthInv, TrueShas, EmptyManifest, Truthful, Running, Resting,
             Extracting, InTheWindow
    <2> QED BY <2>1, <2>2
  <1>2. Inv /\ OneAtATime /\ OneAtATime' /\ [InventoryNext]_inventoryVars => Inv'
    <2> SUFFICES ASSUME Inv, OneAtATime, OneAtATime', [InventoryNext]_inventoryVars PROVE Inv'
      OBVIOUS
    <2>1. SerialInv'
      BY WorldSteps, SerialInvInductive
    <2>2. TypeOK /\ TypeOK'
      BY <2>1 DEF SerialInv, ApartInv, SafeInv, TypeInv
    <2>3. ScanTypeOK' /\ ScanInv'
      BY <2>2, ScanTypesInductive, ScanInvInductive
    <2>4. TruthInv'
      BY TruthInvInductive
    <2> QED BY <2>1, <2>3, <2>4
  <1>3. Inv => DriftIsSomebodys
    <2> SUFFICES ASSUME Inv, scan = "answered", held = manifest, ~ stumbled,
                        \A s \in Session : pc[s] \in Resting,
                        NEW n \in drift \ touched, n[1] \notin Others
                 PROVE  FALSE
      BY DEF DriftIsSomebodys, Others
    <2>1. n \in Name /\ Differs(n)
      BY DEF ScanTypeOK, ScanInv, WalkIsRight
    <2>2. PICK k \in Package : \E r \in manifest[k].files : n = <<r.path, "file">> /\ r.sha # Holds(n)
      BY <2>1 DEF Differs, RecordsOf
    <2>3. PICK r \in manifest[k].files : n = <<r.path, "file">> /\ r.sha # disk[r.path]
      BY <2>2 DEF Holds
    <2> QED BY <2>2, <2>3 DEF TruthInv, TrueShas
  <1> QED BY <1>1, <1>2, <1>3, PTL DEF InventorySpec
===============================================================================
