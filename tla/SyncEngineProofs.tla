--------------------------- MODULE SyncEngineProofs ---------------------------
(***************************************************************************)
(* What holds of SyncEngine for every number of overlapping sessions, every *)
(* set of packages, plans and archives, and every interleaving, failure,    *)
(* crash and outside write.                                                 *)
(***************************************************************************)
EXTENDS SyncEngine, TLAPS

\* The cursors of a session point into its plan and its archive.
CursorOK ==
  \A s \in Session :
    /\ pc[s] \in {"copy", "open", "entry", "write", "rename"} => item[s] <= Len(plan[s])
    /\ pc[s] \in {"write", "rename"} => EntriesLeft(s)

TypeInv == TypeOK /\ CursorOK

\* The manifest of a new server is a manifest, and no sentinel is one.
LEMMA EmptyIsManifest ==
  /\ EmptyManifest \in Manifest
  /\ Absent \notin Manifest /\ Partial \notin Manifest
PROOF BY SentinelAssumption DEF EmptyManifest, Manifest, Tracked

\* A session that is past its download looks at a version of a package, and
\* one that is past its check looks at a path.
LEMMA CursorTypes ==
  ASSUME TypeInv, NEW s \in Session
  PROVE  /\ pc[s] = "item" /\ ItemsLeft(s) => Item(s) \in Version /\ Owner(s) \in Package
         /\ pc[s] \in {"copy", "open", "entry", "write", "rename"} =>
              /\ Item(s) \in Version /\ Owner(s) \in Package
              /\ EntriesLeft(s) => Zipped(s) \in Entry /\ Target(s) \in Path
PROOF
  <1>1. (pc[s] = "item" /\ ItemsLeft(s)) \/ pc[s] \in {"copy", "open", "entry", "write", "rename"}
          => Item(s) \in Version
    BY DEF TypeInv, TypeOK, CursorOK, ItemsLeft, Item
  <1>2. Item(s) \in Version => Owner(s) \in Package
    BY InputAssumption DEF Owner
  <1>3. Item(s) \in Version /\ EntriesLeft(s) => Zipped(s) \in Entry
    BY InputAssumption DEF EntriesLeft, Zipped, TypeInv, TypeOK
  <1>4. Zipped(s) \in Entry => Target(s) \in Path
    BY DEF Target, Entry
  <1> QED BY <1>1, <1>2, <1>3, <1>4

\* Returning from Apply keeps every type.
LEMMA ReturnTypes ==
  ASSUME TypeInv, NEW s \in Session, NEW result \in Resting, Return(s, result),
         UNCHANGED <<fileVars, staging, history>>,
         manifest' \in Manifest \cup {Partial},
         saveTemp' \in Manifest \cup {Absent, Partial}
  PROVE  TypeInv'
PROOF
  BY EmptyIsManifest
  DEF TypeInv, TypeOK, CursorOK, Return, Goto, fileVars, history, Locations, Resting,
      EntriesLeft, Item

\* The steps of a session from Begin to Open keep every type.
LEMMA FetchTypes ==
  ASSUME TypeInv, NEW s \in Session,
         Begin(s) \/ Download(s) \/ DownloadFails(s) \/ Copy(s) \/ CopyFails(s)
           \/ Open(s) \/ OpenFails(s)
  PROVE  TypeInv'
PROOF
  <1> USE DEF Locations, Resting
  <1>1. CASE Begin(s)
    <2>1. CASE manifest # Partial
      <3>1. PICK p \in Plans : /\ Goto(s, "item")
                               /\ plan' = [plan EXCEPT ![s] = p]
                               /\ current' = [current EXCEPT ![s] = manifest]
                               /\ UNCHANGED <<item, entry, records>>
        BY <1>1, <2>1 DEF Begin
      <3>2. UNCHANGED <<fileVars, staging, storeVars, history>> /\ p \in Seq(Version)
        BY <1>1, InputAssumption DEF Begin
      <3>3. TypeOK'
        BY <2>1, <3>1, <3>2 DEF Goto, TypeInv, TypeOK, fileVars, storeVars, history
      <3>4. CursorOK'
        BY <3>1 DEF Goto, TypeInv, TypeOK, CursorOK, EntriesLeft, Item
      <3> QED BY <3>3, <3>4 DEF TypeInv
    <2>2. CASE manifest = Partial
      BY <1>1, <2>2, ReturnTypes DEF Begin, storeVars, TypeInv, TypeOK
    <2> QED BY <2>1, <2>2
  <1>2. CASE Download(s)
    BY <1>2
    DEF Download, Goto, TypeInv, TypeOK, CursorOK, fileVars, storeVars, localVars, history,
        EntriesLeft, ItemsLeft, Item
  <1>3. CASE Copy(s)
    BY <1>3
    DEF Copy, Goto, TypeInv, TypeOK, CursorOK, fileVars, storeVars, localVars, history,
        EntriesLeft, Item
  <1>4. CASE Open(s)
    BY <1>4
    DEF Open, Goto, TypeInv, TypeOK, CursorOK, fileVars, storeVars, history, EntriesLeft, Item
  <1>5. CASE DownloadFails(s) \/ CopyFails(s) \/ OpenFails(s)
    BY <1>5, ReturnTypes DEF DownloadFails, CopyFails, OpenFails, storeVars, TypeInv, TypeOK
  <1> QED BY <1>1, <1>2, <1>3, <1>4, <1>5

\* The steps of extractPackage keep every type.
LEMMA ExtractTypes ==
  ASSUME TypeInv, NEW s \in Session,
         Skip(s) \/ RejectUnsafe(s) \/ Refuse(s) \/ Keep(s) \/ Accept(s) \/ CheckFails(s)
           \/ WriteTemp(s) \/ WriteFails(s) \/ Rename(s) \/ RenameFails(s)
           \/ Upsert(s) \/ NothingInstalled(s)
  PROVE  TypeInv'
PROOF
  <1> USE DEF Locations, Resting
  <1>1. CASE Skip(s)
    BY <1>1
    DEF Skip, InEntry, NextEntry, Goto, TypeInv, TypeOK, CursorOK, fileVars, storeVars, history,
        EntriesLeft, Item
  <1>2. CASE Keep(s)
    <2>1. PreservedRecord(Target(s)) \in Record
      BY <1>2, CursorTypes DEF Keep, InEntry, PreservedRecord, Record, TypeInv, TypeOK
    <2> QED
      BY <1>2, <2>1
      DEF Keep, InEntry, NextEntry, Goto, TypeInv, TypeOK, CursorOK, fileVars, storeVars, history,
          EntriesLeft, Item
  <1>3. CASE Accept(s)
    BY <1>3
    DEF Accept, InEntry, Goto, TypeInv, TypeOK, CursorOK, fileVars, storeVars, localVars, history,
        EntriesLeft, Item
  <1>4. CASE WriteTemp(s)
    BY <1>4, CursorTypes
    DEF WriteTemp, Goto, TypeInv, TypeOK, CursorOK, storeVars, localVars, history, Content,
        EntriesLeft, Item
  <1>5. CASE WriteFails(s)
    <2>1. temp' \in [Path -> Content \cup {Absent}]
      BY <1>5 DEF WriteFails, TypeInv, TypeOK, Content
    <2> QED
      BY <1>5, <2>1, EmptyIsManifest
      DEF WriteFails, Return, Goto, TypeInv, TypeOK, CursorOK, storeVars, history,
          EntriesLeft, Item
  <1>6. CASE Rename(s)
    <2>1. Target(s) \in Path /\ Item(s) \in Version
      BY <1>6, CursorTypes DEF Rename, TypeInv, CursorOK
    <2>2. NewRecord(Target(s), Item(s)) \in Record
      BY <2>1 DEF NewRecord, Record, Content
    <2>3. /\ disk' \in [Path -> Content \cup {Absent}]
          /\ temp' \in [Path -> Content \cup {Absent}]
      BY <1>6, <2>1 DEF Rename, TypeInv, TypeOK
    <2> QED
      BY <1>6, <2>2, <2>3
      DEF Rename, NextEntry, Goto, TypeInv, TypeOK, CursorOK, storeVars, history,
          EntriesLeft, Item
  <1>7. CASE Upsert(s)
    <2>1. Item(s) \in Version /\ Owner(s) \in Package
      BY <1>7, CursorTypes DEF Upsert
    <2>2. current' \in [Session -> Manifest]
      BY <1>7, <2>1 DEF Upsert, TypeInv, TypeOK, Manifest, Tracked
    <2> QED
      BY <1>7, <2>2
      DEF Upsert, Goto, TypeInv, TypeOK, CursorOK, fileVars, storeVars, history,
          EntriesLeft, Item
  <1>8. CASE RejectUnsafe(s) \/ Refuse(s) \/ CheckFails(s) \/ RenameFails(s) \/ NothingInstalled(s)
    BY <1>8, ReturnTypes
    DEF RejectUnsafe, Refuse, CheckFails, RenameFails, NothingInstalled, storeVars, TypeInv, TypeOK
  <1> QED BY <1>1, <1>2, <1>3, <1>4, <1>5, <1>6, <1>7, <1>8

\* The steps of Store.Save keep every type.
LEMMA SaveTypes ==
  ASSUME TypeInv, NEW s \in Session,
         SaveTemp(s) \/ SaveFails(s) \/ Commit(s) \/ CommitFails(s)
  PROVE  TypeInv'
PROOF
  <1> USE DEF Locations, Resting
  <1>1. CASE SaveTemp(s)
    BY <1>1
    DEF SaveTemp, Goto, TypeInv, TypeOK, CursorOK, fileVars, localVars, history, EntriesLeft, Item
  <1>2. CASE SaveFails(s)
    BY <1>2, ReturnTypes DEF SaveFails, TypeInv, TypeOK
  <1>3. CASE Commit(s)
    BY <1>3, ReturnTypes DEF Commit, TypeInv, TypeOK
  <1>4. CASE CommitFails(s)
    BY <1>4, ReturnTypes DEF CommitFails, storeVars, TypeInv, TypeOK
  <1> QED BY <1>1, <1>2, <1>3, <1>4

\* A crash and the outside actors keep every type.
LEMMA OutsideTypes ==
  ASSUME TypeInv, Crash \/ Outside
  PROVE  TypeInv'
PROOF
  <1>1. CASE Crash
    <2>1. temp' \in [Path -> Content \cup {Absent}]
      BY <1>1 DEF Crash, TypeInv, TypeOK, Content
    <2>2. saveTemp' \in Manifest \cup {Absent, Partial}
      BY <1>1 DEF Crash, TypeInv, TypeOK
    <2> QED
      BY <1>1, <2>1, <2>2, EmptyIsManifest
      DEF Crash, TypeInv, TypeOK, CursorOK, history, Locations, Resting
  <1>2. CASE Outside
    BY <1>2, InputAssumption
    DEF Outside, OutsideWrite, OutsideDelete, TypeInv, TypeOK, CursorOK, Content,
        storeVars, localVars, EntriesLeft, Item
  <1> QED BY <1>1, <1>2

LEMMA TypeInvInductive ==
  ASSUME TypeInv, [Next]_vars
  PROVE  TypeInv'
PROOF
  <1>1. CASE \E s \in Session : Step(s)
    BY <1>1, FetchTypes, ExtractTypes, SaveTypes DEF Step
  <1>2. CASE Crash \/ Outside
    BY <1>2, OutsideTypes
  <1>3. CASE UNCHANGED vars
    BY <1>3
    DEF vars, fileVars, storeVars, localVars, history, TypeInv, TypeOK, CursorOK, EntriesLeft, Item
  <1> QED BY <1>1, <1>2, <1>3 DEF Next

LEMMA TypeInvInit == Init => TypeInv
PROOF
  BY EmptyIsManifest DEF Init, TypeInv, TypeOK, CursorOK, Content, Locations, Resting

\* Every variable of the engine keeps its type, whatever overlaps, fails or dies.
THEOREM TypeCorrect == Spec => []TypeOK
PROOF
  <1>1. TypeInv => TypeOK
    BY DEF TypeInv
  <1> QED BY <1>1, TypeInvInit, TypeInvInductive, PTL DEF Spec

-------------------------------------------------------------------------------
(* What is recorded exists and has one owner.  The saved manifest alone is  *)
(* not inductive: it is replaced by saveTemp, which was some session's      *)
(* current, which was built from records; all of them obey the same rules.  *)

Missing == {p \in Path : p \notin removed /\ disk[p] = Absent}

NamesNone(m, P) == \A k \in Package : \A r \in m[k].files : r.path \notin P

\* No manifest, saved, half saved or private, names a missing file.
AllReal ==
  /\ manifest # Partial => NamesNone(manifest, Missing)
  /\ saveTemp \notin {Absent, Partial} => NamesNone(saveTemp, Missing)
  /\ \A s \in Session : NamesNone(current[s], Missing)
  /\ \A s \in Session : \A r \in records[s] : r.path \notin Missing

Kept == Path \ removed

\* No manifest gives a file to two packages.
AllSole ==
  /\ manifest # Partial => OneOwner(manifest, Kept)
  /\ saveTemp \notin {Absent, Partial} => OneOwner(saveTemp, Kept)
  /\ \A s \in Session : OneOwner(current[s], Kept)

\* No package but the one being installed owns p.
Free(s, p) == Owners(current[s], p) \subseteq {Owner(s)}

\* What a session has recorded and what it is about to write is free.
AllFree ==
  \A s \in Session :
    /\ pc[s] \in {"entry", "write", "rename"} =>
         \A r \in records[s] : r.path \in Kept => Free(s, r.path)
    /\ pc[s] \in {"write", "rename"} /\ Target(s) \in Kept => Free(s, Target(s))

SafeInv == TypeInv /\ AllReal /\ AllSole /\ AllFree

\* A file that was there stays there unless an outside actor deletes it.
LEMMA NothingVanishes ==
  ASSUME TypeInv, [Next]_vars
  PROVE  Missing' \subseteq Missing /\ Kept' \subseteq Kept
PROOF
  <1>1. ASSUME NEW s \in Session, Rename(s)
        PROVE  Missing' \subseteq Missing /\ Kept' \subseteq Kept
    <2>1. Target(s) \in Path
      BY <1>1, CursorTypes DEF Rename, TypeInv, CursorOK
    <2> QED BY <1>1, <2>1 DEF Rename, Missing, Kept, TypeInv, TypeOK, history
  <1>2. ASSUME NEW s \in Session, Step(s), ~ Rename(s)
        PROVE  UNCHANGED <<disk, removed>>
    BY <1>2
    DEF Step, fileVars, history, Begin, Download, DownloadFails, Copy, CopyFails, Open, OpenFails,
        Skip, RejectUnsafe, Refuse, Keep, Accept, CheckFails, WriteTemp, WriteFails, RenameFails,
        Upsert, NothingInstalled, SaveTemp, SaveFails, Commit, CommitFails
  <1>3. CASE Crash
    BY <1>3 DEF Crash, history, Missing, Kept
  <1>4. CASE Outside
    BY <1>4, SentinelAssumption
    DEF Outside, OutsideWrite, OutsideDelete, Missing, Kept, TypeInv, TypeOK
  <1>5. CASE UNCHANGED vars
    BY <1>5 DEF vars, fileVars, history, Missing, Kept
  <1> QED BY <1>1, <1>2, <1>3, <1>4, <1>5 DEF Next, Missing, Kept

\* What held of more paths holds of fewer.
LEMMA FewerPaths ==
  ASSUME NEW m, NEW P, NEW Q, Q \subseteq P
  PROVE  /\ NamesNone(m, P) => NamesNone(m, Q)
         /\ OneOwner(m, P) => OneOwner(m, Q)
PROOF BY DEF NamesNone, OneOwner

\* The empty manifest obeys every rule.
LEMMA EmptyIsSafe ==
  ASSUME NEW P
  PROVE  NamesNone(EmptyManifest, P) /\ OneOwner(EmptyManifest, P)
PROOF BY DEF NamesNone, OneOwner, Owners, EmptyManifest

\* Returning from Apply leaves nothing behind that breaks a rule.
LEMMA ReturnSafe ==
  ASSUME SafeInv, NEW s \in Session, NEW result \in Resting, Return(s, result),
         UNCHANGED <<disk, removed>>,
         manifest' \in {manifest, saveTemp}, manifest' # Absent,
         saveTemp' \in {saveTemp, Absent, Partial}
  PROVE  AllReal' /\ AllSole' /\ AllFree'
PROOF
  <1>1. Missing' = Missing /\ Kept' = Kept
    BY DEF Missing, Kept
  <1>2. /\ \A t \in Session : current'[t] = IF t = s THEN EmptyManifest ELSE current[t]
        /\ \A t \in Session : records'[t] = IF t = s THEN {} ELSE records[t]
        /\ \A t \in Session : pc'[t] = IF t = s THEN result ELSE pc[t]
        /\ \A t \in Session : t # s =>
             plan'[t] = plan[t] /\ item'[t] = item[t] /\ entry'[t] = entry[t]
    BY DEF Return, Goto, SafeInv, TypeInv, TypeOK
  <1>3. AllReal'
    BY <1>1, <1>2, EmptyIsSafe DEF SafeInv, AllReal
  <1>4. AllSole'
    BY <1>1, <1>2, EmptyIsSafe DEF SafeInv, AllSole
  <1>5. AllFree'
    <2> SUFFICES ASSUME NEW t \in Session, pc'[t] \in {"entry", "write", "rename"}
                 PROVE  /\ \A r \in records'[t] : r.path \in Kept => Free(t, r.path)'
                        /\ pc'[t] \in {"write", "rename"} /\ (Target(t) \in Kept)'
                              => Free(t, Target(t))'
      BY <1>1 DEF AllFree
    <2>1. t # s
      BY <1>2 DEF Resting
    <2> QED
      BY <1>1, <1>2, <2>1 DEF SafeInv, AllFree, Free, Owner, Item, Target, Zipped
  <1> QED BY <1>3, <1>4, <1>5

\* The steps from Begin to Open copy the saved manifest and forget records.
LEMMA FetchSafe ==
  ASSUME SafeInv, NEW s \in Session,
         Begin(s) \/ Download(s) \/ DownloadFails(s) \/ Copy(s) \/ CopyFails(s)
           \/ Open(s) \/ OpenFails(s)
  PROVE  AllReal' /\ AllSole' /\ AllFree'
PROOF
  <1> USE DEF SafeInv, Resting
  <1>1. CASE Begin(s) /\ manifest # Partial
    <2>1. PICK p \in Plans : /\ Goto(s, "item")
                             /\ plan' = [plan EXCEPT ![s] = p]
                             /\ current' = [current EXCEPT ![s] = manifest]
                             /\ UNCHANGED <<item, entry, records>>
      BY <1>1 DEF Begin
    <2>2. UNCHANGED <<fileVars, staging, storeVars, history>>
      BY <1>1 DEF Begin
    <2>3. Missing' = Missing /\ Kept' = Kept
      BY <2>2 DEF fileVars, history, Missing, Kept
    <2>4. AllReal' /\ AllSole'
      BY <1>1, <2>1, <2>2, <2>3 DEF AllReal, AllSole, storeVars, TypeInv, TypeOK
    <2>5. AllFree'
      BY <2>1, <2>3 DEF AllFree, Free, Goto, Owner, Item, Target, Zipped, TypeInv, TypeOK
    <2> QED BY <2>4, <2>5
  <1>2. CASE Download(s) \/ Copy(s)
    <2>1. UNCHANGED <<fileVars, storeVars, localVars, history>>
      BY <1>2 DEF Download, Copy
    <2>2. Missing' = Missing /\ Kept' = Kept
      BY <2>1 DEF fileVars, history, Missing, Kept
    <2>3. AllReal' /\ AllSole'
      BY <2>1, <2>2 DEF AllReal, AllSole, storeVars, localVars
    <2>4. \A t \in Session : pc'[t] \in {"entry", "write", "rename"} => pc'[t] = pc[t]
      BY <1>2 DEF Download, Copy, Goto, TypeInv, TypeOK
    <2>5. AllFree'
      BY <2>1, <2>2, <2>4 DEF AllFree, Free, Owner, Item, Target, Zipped, localVars
    <2> QED BY <2>3, <2>5
  <1>3. CASE Open(s)
    <2>1. Missing' = Missing /\ Kept' = Kept
      BY <1>3 DEF Open, fileVars, history, Missing, Kept
    <2>2. AllReal' /\ AllSole'
      BY <1>3, <2>1 DEF Open, AllReal, AllSole, storeVars, TypeInv, TypeOK
    <2>3. AllFree'
      BY <1>3, <2>1
      DEF Open, AllFree, Free, Goto, Owner, Item, Target, Zipped, TypeInv, TypeOK
    <2> QED BY <2>2, <2>3
  <1>4. CASE \/ DownloadFails(s) \/ CopyFails(s) \/ OpenFails(s)
             \/ Begin(s) /\ manifest = Partial
    BY <1>4, ReturnSafe, SentinelAssumption, EmptyIsManifest
    DEF Begin, DownloadFails, CopyFails, OpenFails, fileVars, storeVars, history, TypeInv, TypeOK
  <1> QED BY <1>1, <1>2, <1>3, <1>4

\* A path that Stat finds, or does not, and that the check lets through is free.
LEMMA CheckedIsFree ==
  ASSUME SafeInv, NEW s \in Session, InEntry(s), Target(s) \in Kept,
         \/ disk[Target(s)] = Absent
         \/ MayReplace(current[s], Target(s), Owner(s))
  PROVE  Free(s, Target(s))
PROOF
  <1>1. CASE disk[Target(s)] = Absent
    <2>1. Target(s) \in Missing
      BY <1>1 DEF Missing, Kept
    <2> QED BY <2>1 DEF SafeInv, AllReal, NamesNone, Owners, Free
  <1>2. CASE MayReplace(current[s], Target(s), Owner(s))
    BY <1>2 DEF MayReplace, Owners, SafeInv, AllSole, OneOwner, Free
  <1> QED BY <1>1, <1>2

\* Extracting an entry records only what is there and what is free.
LEMMA EntrySafe ==
  ASSUME SafeInv, NEW s \in Session,
         Skip(s) \/ Keep(s) \/ Accept(s) \/ WriteTemp(s) \/ WriteFails(s) \/ Rename(s)
  PROVE  AllReal' /\ AllSole' /\ AllFree'
PROOF
  <1> USE DEF SafeInv
  <1>1. CASE Skip(s)
    <2>1. Missing' = Missing /\ Kept' = Kept
      BY <1>1 DEF Skip, fileVars, history, Missing, Kept
    <2>2. AllReal' /\ AllSole'
      BY <1>1, <2>1 DEF Skip, NextEntry, AllReal, AllSole, storeVars
    <2>3. AllFree'
      BY <1>1, <2>1
      DEF Skip, InEntry, NextEntry, AllFree, Free, Goto, Owner, Item, Target, Zipped, TypeInv, TypeOK
    <2> QED BY <2>2, <2>3
  <1>2. CASE Keep(s)
    <2>1. Missing' = Missing /\ Kept' = Kept
      BY <1>2 DEF Keep, fileVars, history, Missing, Kept
    <2>2. Target(s) \notin Missing /\ PreservedRecord(Target(s)).path = Target(s)
      BY <1>2 DEF Keep, Missing, PreservedRecord
    <2>3. AllReal' /\ AllSole'
      BY <1>2, <2>1, <2>2 DEF Keep, NextEntry, AllReal, AllSole, storeVars, TypeInv, TypeOK
    <2>4. Target(s) \in Kept => Free(s, Target(s))
      BY <1>2, CheckedIsFree DEF Keep
    <2>5. AllFree'
      BY <1>2, <2>1, <2>2, <2>4
      DEF Keep, InEntry, NextEntry, AllFree, Free, Goto, Owner, Item, Target, Zipped, TypeInv, TypeOK
    <2> QED BY <2>3, <2>5
  <1>3. CASE Accept(s)
    <2>1. Missing' = Missing /\ Kept' = Kept
      BY <1>3 DEF Accept, fileVars, history, Missing, Kept
    <2>2. AllReal' /\ AllSole'
      BY <1>3, <2>1 DEF Accept, AllReal, AllSole, storeVars, localVars
    <2>3. Target(s) \in Kept => Free(s, Target(s))
      BY <1>3, CheckedIsFree DEF Accept
    <2>4. AllFree'
      BY <1>3, <2>1, <2>3
      DEF Accept, InEntry, AllFree, Free, Goto, Owner, Item, Target, Zipped, localVars, TypeInv, TypeOK
    <2> QED BY <2>2, <2>4
  <1>4. CASE WriteTemp(s)
    <2>1. Missing' = Missing /\ Kept' = Kept
      BY <1>4 DEF WriteTemp, history, Missing, Kept
    <2>2. AllReal' /\ AllSole'
      BY <1>4, <2>1 DEF WriteTemp, AllReal, AllSole, storeVars, localVars
    <2>3. AllFree'
      BY <1>4, <2>1
      DEF WriteTemp, AllFree, Free, Goto, Owner, Item, Target, Zipped, localVars, TypeInv, TypeOK
    <2> QED BY <2>2, <2>3
  <1>5. CASE WriteFails(s)
    BY <1>5, ReturnSafe, EmptyIsManifest, SentinelAssumption
    DEF WriteFails, storeVars, history, Resting, TypeInv, TypeOK
  <1>6. CASE Rename(s)
    <2>1. Missing' \subseteq Missing /\ Kept' = Kept
      BY <1>6, NothingVanishes DEF Rename, history, Kept, Next, Step
    <2>2. Target(s) \notin Missing' /\ NewRecord(Target(s), Item(s)).path = Target(s)
      BY <1>6 DEF Rename, Missing, NewRecord, TypeInv, TypeOK
    <2>3. AllReal'
      BY <1>6, <2>1, <2>2, FewerPaths DEF Rename, NextEntry, AllReal, storeVars, TypeInv, TypeOK
    <2>4. AllSole'
      BY <1>6, <2>1 DEF Rename, NextEntry, AllSole, storeVars
    <2>5. AllFree'
      BY <1>6, <2>1, <2>2
      DEF Rename, NextEntry, AllFree, Free, Goto, Owner, Item, Target, Zipped, TypeInv, TypeOK
    <2> QED BY <2>3, <2>4, <2>5
  <1> QED BY <1>1, <1>2, <1>3, <1>4, <1>5, <1>6

\* Upsert gives the package its records only; Save copies a manifest.
LEMMA RecordSafe ==
  ASSUME SafeInv, NEW s \in Session, Upsert(s) \/ SaveTemp(s) \/ SaveFails(s) \/ Commit(s) \/ CommitFails(s)
  PROVE  AllReal' /\ AllSole' /\ AllFree'
PROOF
  <1> USE DEF SafeInv
  <1>1. CASE Upsert(s)
    <2>1. Missing' = Missing /\ Kept' = Kept
      BY <1>1 DEF Upsert, fileVars, history, Missing, Kept
    <2>2. Owner(s) \in Package
      BY <1>1, CursorTypes DEF Upsert
    <2>3. /\ \A t \in Session \ {s} : current'[t] = current[t]
          /\ \A k \in Package :
               current'[s][k].files = IF k = Owner(s) THEN records[s] ELSE current[s][k].files
      BY <1>1, <2>2 DEF Upsert, TypeInv, TypeOK, Manifest
    <2>4. AllReal'
      BY <1>1, <2>1, <2>3 DEF Upsert, AllReal, NamesNone, storeVars
    <2>5. ASSUME NEW p \in Kept, NEW k1 \in Owners(current'[s], p), NEW k2 \in Owners(current'[s], p)
          PROVE  k1 = k2
      <3>1. \A k \in Package \ {Owner(s)} :
              k \in Owners(current'[s], p) => k \in Owners(current[s], p)
        BY <2>3 DEF Owners
      <3>2. Owner(s) \in Owners(current'[s], p) => Free(s, p)
        BY <1>1, <2>3 DEF Owners, Upsert, AllFree
      <3> QED
        BY <3>1, <3>2 DEF Owners, Free, AllSole, OneOwner
    <2>6. AllSole'
      BY <1>1, <2>1, <2>3, <2>5 DEF Upsert, AllSole, OneOwner, storeVars
    <2>7. AllFree'
      BY <1>1, <2>1, <2>3
      DEF Upsert, AllFree, Free, Goto, Owner, Item, Target, Zipped, TypeInv, TypeOK
    <2> QED BY <2>4, <2>6, <2>7
  <1>2. CASE SaveTemp(s)
    <2>1. Missing' = Missing /\ Kept' = Kept
      BY <1>2 DEF SaveTemp, fileVars, history, Missing, Kept
    <2>2. AllReal' /\ AllSole'
      BY <1>2, <2>1 DEF SaveTemp, AllReal, AllSole, localVars
    <2>3. AllFree'
      BY <1>2, <2>1
      DEF SaveTemp, AllFree, Free, Goto, Owner, Item, Target, Zipped, localVars, TypeInv, TypeOK
    <2> QED BY <2>2, <2>3
  <1>3. CASE SaveFails(s) \/ Commit(s) \/ CommitFails(s)
    BY <1>3, ReturnSafe, EmptyIsManifest, SentinelAssumption
    DEF SaveFails, Commit, CommitFails, fileVars, storeVars, history, Resting, TypeInv, TypeOK
  <1> QED BY <1>1, <1>2, <1>3

\* The other ways a session stops.
LEMMA StopSafe ==
  ASSUME SafeInv, NEW s \in Session,
         RejectUnsafe(s) \/ Refuse(s) \/ CheckFails(s) \/ RenameFails(s) \/ NothingInstalled(s)
  PROVE  AllReal' /\ AllSole' /\ AllFree'
PROOF
  BY ReturnSafe, EmptyIsManifest, SentinelAssumption
  DEF RejectUnsafe, Refuse, CheckFails, RenameFails, NothingInstalled, fileVars, storeVars, history,
      Resting, SafeInv, TypeInv, TypeOK

LEMMA OutsideSafe ==
  ASSUME SafeInv, Crash \/ Outside
  PROVE  AllReal' /\ AllSole' /\ AllFree'
PROOF
  <1> USE DEF SafeInv
  <1>1. CASE Crash
    <2>1. Missing' = Missing /\ Kept' = Kept
      BY <1>1 DEF Crash, history, Missing, Kept
    <2>2. AllReal' /\ AllSole'
      BY <1>1, <2>1, EmptyIsSafe DEF Crash, AllReal, AllSole
    <2>3. AllFree'
      BY <1>1 DEF Crash, AllFree
    <2> QED BY <2>2, <2>3
  <1>2. CASE Outside
    <2>1. UNCHANGED <<storeVars, pc, localVars>>
      BY <1>2 DEF Outside, OutsideWrite, OutsideDelete
    <2>2. Missing' \subseteq Missing /\ Kept' \subseteq Kept
      BY <1>2, NothingVanishes DEF Next
    <2>3. AllReal'
      BY <2>1, <2>2, FewerPaths DEF AllReal, storeVars, localVars
    <2>4. AllSole'
      BY <2>1, <2>2, FewerPaths DEF AllSole, storeVars, localVars
    <2>5. AllFree'
      BY <2>1, <2>2 DEF AllFree, Free, Owner, Item, Target, Zipped, localVars
    <2> QED BY <2>3, <2>4, <2>5
  <1> QED BY <1>1, <1>2

LEMMA SafeInvInductive ==
  ASSUME SafeInv, [Next]_vars
  PROVE  SafeInv'
PROOF
  <1>1. TypeInv'
    BY TypeInvInductive DEF SafeInv
  <1>2. AllReal' /\ AllSole' /\ AllFree'
    <2>1. CASE \E s \in Session : Step(s)
      BY <2>1, FetchSafe, EntrySafe, RecordSafe, StopSafe DEF Step
    <2>2. CASE Crash \/ Outside
      BY <2>2, OutsideSafe
    <2>3. CASE UNCHANGED vars
      <3>1. Missing' = Missing /\ Kept' = Kept
        BY <2>3 DEF vars, fileVars, history, Missing, Kept
      <3> QED
        BY <2>3, <3>1
        DEF vars, storeVars, localVars, SafeInv, AllReal, AllSole, AllFree, Free, Owner, Item,
            Target, Zipped
    <2> QED BY <2>1, <2>2, <2>3 DEF Next
  <1> QED BY <1>1, <1>2 DEF SafeInv

LEMMA SafeInvInit == Init => SafeInv
PROOF
  <1> SUFFICES ASSUME Init PROVE SafeInv
    OBVIOUS
  <1>1. AllReal
    BY EmptyIsSafe DEF Init, AllReal
  <1>2. AllSole
    BY EmptyIsSafe DEF Init, AllSole
  <1>3. AllFree
    BY DEF Init, AllFree
  <1> QED BY <1>1, <1>2, <1>3, TypeInvInit DEF SafeInv

\* The saved manifest never names a file that is not there and that nobody
\* deleted, for any number of syncs that overlap, fail and die.
THEOREM RecordsAreReal == Spec => []RecordedFilesExist
PROOF
  <1>1. SafeInv => RecordedFilesExist
    BY DEF SafeInv, AllReal, NamesNone, Missing, RecordedFilesExist, TypeInv, TypeOK, Manifest,
           Tracked, Record
  <1> QED BY <1>1, SafeInvInit, SafeInvInductive, PTL DEF Spec

\* The saved manifest never gives a file to two packages unless somebody
\* deleted the file, for any number of syncs that overlap, fail and die.
THEOREM OwnersAreUnique == Spec => []UniqueOwner
PROOF
  <1>1. SafeInv => UniqueOwner
    BY DEF SafeInv, AllSole, Kept, UniqueOwner
  <1> QED BY <1>1, SafeInvInit, SafeInvInductive, PTL DEF Spec

-------------------------------------------------------------------------------
(* Syncs that keep out of each other's way.                                 *)

InTheWindow(s) == pc[s] \in {"write", "rename"}
Extracting(s)  == pc[s] \in {"entry", "write", "rename"}

\* No two sessions are between the check and the rename of one path.
WindowsApart ==
  \A s, t \in Session : InTheWindow(s) /\ InTheWindow(t) /\ Target(s) = Target(t) => s = t

Lives(m) == m \notin {Absent, Partial}

\* Something says that p is a file of package k: a manifest, what a session has
\* recorded or is about to write, or the bytes themselves.
Claims(k, p) ==
  \/ Lives(manifest) /\ k \in Owners(manifest, p)
  \/ Lives(saveTemp) /\ k \in Owners(saveTemp, p)
  \/ \E s \in Session :
       \/ k \in Owners(current[s], p)
       \/ Extracting(s) /\ k = Owner(s) /\ \E r \in records[s] : r.path = p
       \/ InTheWindow(s) /\ k = Owner(s) /\ Target(s) = p
  \/ disk[p] \in Version /\ k = PackageOf[disk[p]]

\* All that say so say the same.
AllAgree ==
  \A p \in Kept : \A k1, k2 \in Package : Claims(k1, p) /\ Claims(k2, p) => k1 = k2

\* What a session renames is what it has written.
TempIsMine == \A s \in Session : pc[s] = "rename" => temp[Target(s)] = Item(s)

ConfigsKept(R) == \A r \in R : r.path \in ConfigPath => r.preserve

\* Every record of a config file says that it is to be kept.
AllPreserve ==
  /\ Lives(manifest) => \A k \in Package : ConfigsKept(manifest[k].files)
  /\ Lives(saveTemp) => \A k \in Package : ConfigsKept(saveTemp[k].files)
  /\ \A s \in Session : ConfigsKept(records[s]) /\ \A k \in Package : ConfigsKept(current[s][k].files)

\* What a session is about to replace is nothing, or a file of its package
\* that is no config, unless somebody has just written it.
AllAllowed ==
  \A s \in Session : InTheWindow(s) /\ Target(s) \notin raced =>
    \/ disk[Target(s)] = Absent
    \/ Owner(s) \in Owners(current[s], Target(s)) /\ Target(s) \notin ConfigPath

ApartInv == SafeInv /\ NoPartialFile /\ AllAgree /\ TempIsMine /\ AllPreserve /\ AllAllowed

\* A step of a session changes no other session's locals.
LEMMA OthersStay ==
  ASSUME TypeInv, NEW s \in Session, Step(s), NEW t \in Session, t # s
  PROVE  /\ pc'[t] = pc[t] /\ plan'[t] = plan[t] /\ item'[t] = item[t] /\ entry'[t] = entry[t]
         /\ current'[t] = current[t] /\ records'[t] = records[t]
PROOF
  BY DEF Step, TypeInv, TypeOK, Return, Goto, NextEntry, localVars,
        Begin, Download, DownloadFails, Copy, CopyFails, Open, OpenFails,
        Skip, RejectUnsafe, Refuse, Keep, Accept, CheckFails, WriteTemp, WriteFails, Rename, RenameFails,
        Upsert, NothingInstalled, SaveTemp, SaveFails, Commit, CommitFails

\* Nor does it change where they are and what they are looking at.
LEMMA OthersLook ==
  ASSUME TypeInv, NEW s \in Session, Step(s), NEW t \in Session, t # s
  PROVE  /\ Item(t)' = Item(t) /\ Owner(t)' = Owner(t) /\ Target(t)' = Target(t)
         /\ InTheWindow(t)' = InTheWindow(t) /\ Extracting(t)' = Extracting(t)
PROOF
  BY OthersStay DEF Item, Owner, Target, Zipped, InTheWindow, Extracting

\* A session that does not move on to another entry goes on looking at the same.
LEMMA SameLook ==
  ASSUME NEW s \in Session, plan'[s] = plan[s], item'[s] = item[s]
  PROVE  /\ Item(s)' = Item(s) /\ Owner(s)' = Owner(s)
         /\ entry'[s] = entry[s] => Target(s)' = Target(s)
PROOF
  BY DEF Item, Owner, Target, Zipped

\* All agree as long as nobody makes a new claim.
LEMMA NoNewClaims ==
  ASSUME AllAgree, Kept' \subseteq Kept,
         \A p \in Kept' : \A k \in Package : Claims(k, p)' => Claims(k, p)
  PROVE  AllAgree'
PROOF BY DEF AllAgree

\* What a session returns with is nothing.
LEMMA ReturnsEmpty ==
  ASSUME TypeInv, NEW s \in Session, NEW result \in Resting, Return(s, result)
  PROVE  /\ pc'[s] = result /\ current'[s] = EmptyManifest /\ records'[s] = {}
         /\ plan'[s] = <<>> /\ item'[s] = 1
         /\ ~ InTheWindow(s)' /\ ~ Extracting(s)'
PROOF
  BY DEF Return, Goto, TypeInv, TypeOK, Resting, InTheWindow, Extracting

\* The empty manifest claims nothing and loses no config.
LEMMA EmptyClaimsNothing ==
  ASSUME NEW p
  PROVE  Owners(EmptyManifest, p) = {} /\ \A k \in Package : ConfigsKept(EmptyManifest[k].files)
PROOF BY DEF Owners, EmptyManifest, ConfigsKept

\* A step that leaves the disk as it is and does not open a window keeps the
\* invariant if the session's manifest and records claim nothing new.
LEMMA LocalApart ==
  ASSUME ApartInv, WindowsApart, NEW s \in Session, Step(s),
         UNCHANGED <<disk, history>>,
         temp' = temp \/ (pc[s] = "write" /\ temp' = [temp EXCEPT ![Target(s)] = Partial]),
         manifest' \in {manifest, saveTemp},
         saveTemp' \in {saveTemp, Absent, Partial, current[s]},
         ~ InTheWindow(s)',
         \A p \in Kept : \A k \in Package : k \in Owners(current'[s], p) => Claims(k, p),
         \A p \in Kept : Extracting(s)' /\ (\E r \in records'[s] : r.path = p) => Claims(Owner(s)', p),
         ConfigsKept(records'[s]), \A k \in Package : ConfigsKept(current'[s][k].files)
  PROVE  NoPartialFile' /\ AllAgree' /\ TempIsMine' /\ AllPreserve' /\ AllAllowed'
PROOF
  <1> USE DEF ApartInv, SafeInv
  <1>1. NoPartialFile'
    BY DEF NoPartialFile
  <1>2. Kept' = Kept
    BY DEF Kept, history
  <1>3. \A p \in Kept' : \A k \in Package : Claims(k, p)' => Claims(k, p)
    <2> SUFFICES ASSUME NEW p \in Kept, NEW k \in Package, Claims(k, p)'
                 PROVE  Claims(k, p)
      BY <1>2
    <2>1. CASE \/ Lives(manifest') /\ k \in Owners(manifest', p)
               \/ Lives(saveTemp') /\ k \in Owners(saveTemp', p)
               \/ disk'[p] \in Version /\ k = PackageOf[disk'[p]]
      BY <2>1 DEF Claims, Lives
    <2>2. ASSUME NEW t \in Session,
                 \/ k \in Owners(current'[t], p)
                 \/ Extracting(t)' /\ k = Owner(t)' /\ \E r \in records'[t] : r.path = p
                 \/ InTheWindow(t)' /\ k = Owner(t)' /\ Target(t)' = p
          PROVE  Claims(k, p)
      <3>1. CASE t = s
        BY <2>2, <3>1
      <3>2. CASE t # s
        BY <2>2, <3>2, OthersStay, OthersLook DEF Claims
      <3> QED BY <3>1, <3>2
    <2> QED BY <2>1, <2>2 DEF Claims
  <1>4. AllAgree'
    BY <1>2, <1>3, NoNewClaims
  <1>5. TempIsMine'
    <2> SUFFICES ASSUME NEW t \in Session, pc'[t] = "rename"
                 PROVE  (temp[Target(t)] = Item(t))'
      BY DEF TempIsMine
    <2>1. t # s
      BY DEF InTheWindow
    <2>2. temp[Target(t)] = Item(t) /\ pc[t] = "rename" /\ Target(t)' = Target(t) /\ Item(t)' = Item(t)
      BY <2>1, OthersStay, OthersLook DEF TempIsMine
    <2>3. pc[s] = "write" => Target(s) # Target(t)
      BY <2>1, <2>2 DEF WindowsApart, InTheWindow
    <2>4. temp'[Target(t)] = temp[Target(t)]
      BY <2>2, <2>3, CursorTypes DEF TypeInv, TypeOK, CursorOK
    <2> QED BY <2>2, <2>4
  <1>6. AllPreserve'
    <2>1. \A t \in Session : ConfigsKept(records'[t]) /\ \A k \in Package : ConfigsKept(current'[t][k].files)
      BY OthersStay DEF AllPreserve
    <2> QED BY <2>1 DEF AllPreserve, ConfigsKept, Lives
  <1>7. AllAllowed'
    <2> SUFFICES ASSUME NEW t \in Session, InTheWindow(t)', Target(t)' \notin raced'
                 PROVE  (\/ disk[Target(t)] = Absent
                         \/ Owner(t) \in Owners(current[t], Target(t)) /\ Target(t) \notin ConfigPath)'
      BY DEF AllAllowed
    <2>1. t # s
      OBVIOUS
    <2> QED BY <2>1, OthersStay, OthersLook DEF AllAllowed, history, Owners
  <1> QED BY <1>1, <1>4, <1>5, <1>6, <1>7

\* So does every return from Apply.
LEMMA ReturnApart ==
  ASSUME ApartInv, WindowsApart, NEW s \in Session, NEW result \in Resting, Return(s, result), Step(s),
         UNCHANGED <<disk, history>>,
         temp' = temp \/ (pc[s] = "write" /\ temp' = [temp EXCEPT ![Target(s)] = Partial]),
         manifest' \in {manifest, saveTemp},
         saveTemp' \in {saveTemp, Absent, Partial}
  PROVE  NoPartialFile' /\ AllAgree' /\ TempIsMine' /\ AllPreserve' /\ AllAllowed'
PROOF
  <1>1. TypeInv
    BY DEF ApartInv, SafeInv
  <1>2. ~ InTheWindow(s)' /\ ~ Extracting(s)' /\ current'[s] = EmptyManifest /\ records'[s] = {}
    BY <1>1, ReturnsEmpty
  <1>3. ConfigsKept(records'[s]) /\ \A k \in Package : ConfigsKept(current'[s][k].files)
    BY <1>2, EmptyClaimsNothing DEF ConfigsKept
  <1> QED BY <1>2, <1>3, EmptyClaimsNothing, LocalApart

\* A session fails, or ends.
LEMMA StopApart ==
  ASSUME ApartInv, WindowsApart, NEW s \in Session, Step(s),
         \/ Begin(s) /\ manifest = Partial
         \/ DownloadFails(s) \/ CopyFails(s) \/ OpenFails(s)
         \/ RejectUnsafe(s) \/ Refuse(s) \/ CheckFails(s) \/ WriteFails(s) \/ RenameFails(s)
         \/ NothingInstalled(s) \/ SaveFails(s) \/ Commit(s) \/ CommitFails(s)
  PROVE  NoPartialFile' /\ AllAgree' /\ TempIsMine' /\ AllPreserve' /\ AllAllowed'
PROOF
  BY ReturnApart
  DEF Begin, DownloadFails, CopyFails, OpenFails, RejectUnsafe, Refuse, CheckFails, WriteFails,
      RenameFails, NothingInstalled, SaveFails, Commit, CommitFails, fileVars, storeVars, Resting

\* The steps before an archive is read, and those that pass over an entry.
LEMMA PassApart ==
  ASSUME ApartInv, WindowsApart, NEW s \in Session, Step(s),
         \/ Begin(s) /\ manifest # Partial
         \/ Download(s) \/ Copy(s) \/ Open(s) \/ Skip(s)
  PROVE  NoPartialFile' /\ AllAgree' /\ TempIsMine' /\ AllPreserve' /\ AllAllowed'
PROOF
  <1>0. TypeInv /\ AllPreserve
    BY DEF ApartInv, SafeInv
  <1>1. CASE Begin(s) /\ manifest # Partial
    <2>1. /\ UNCHANGED <<fileVars, storeVars, history, records>>
          /\ current'[s] = manifest /\ pc'[s] = "item"
      BY <1>0, <1>1 DEF Begin, Goto, TypeInv, TypeOK
    <2>2. Lives(manifest)
      BY <1>0, <1>1, EmptyIsManifest DEF Lives, TypeInv, TypeOK
    <2>3. \A p \in Kept : \A k \in Package : k \in Owners(current'[s], p) => Claims(k, p)
      BY <2>1, <2>2 DEF Claims
    <2>4. ConfigsKept(records'[s]) /\ \A k \in Package : ConfigsKept(current'[s][k].files)
      BY <1>0, <2>1, <2>2 DEF AllPreserve
    <2> QED BY <2>1, <2>3, <2>4, LocalApart DEF InTheWindow, Extracting, fileVars, storeVars
  <1>2. CASE Download(s) \/ Copy(s) \/ Open(s)
    <2>1. /\ UNCHANGED <<fileVars, storeVars, history, current>>
          /\ pc'[s] \in {"copy", "open"} \/ (pc'[s] = "entry" /\ records'[s] = {})
          /\ records'[s] \in {records[s], {}}
      BY <1>0, <1>2 DEF Download, Copy, Open, Goto, localVars, TypeInv, TypeOK
    <2>2. \A p \in Kept : \A k \in Package : k \in Owners(current'[s], p) => Claims(k, p)
      BY <2>1 DEF Claims
    <2>3. ConfigsKept(records'[s]) /\ \A k \in Package : ConfigsKept(current'[s][k].files)
      BY <1>0, <2>1 DEF AllPreserve, ConfigsKept
    <2> QED BY <2>1, <2>2, <2>3, LocalApart DEF InTheWindow, Extracting, fileVars, storeVars
  <1>3. CASE Skip(s)
    <2>1. /\ UNCHANGED <<fileVars, storeVars, history, current, records, plan, item>>
          /\ pc[s] = "entry" /\ pc'[s] = "entry"
      BY <1>0, <1>3 DEF Skip, InEntry, NextEntry, Goto, TypeInv, TypeOK
    <2>2. \A p \in Kept : \A k \in Package : k \in Owners(current'[s], p) => Claims(k, p)
      BY <2>1 DEF Claims
    <2>3. ConfigsKept(records'[s]) /\ \A k \in Package : ConfigsKept(current'[s][k].files)
      BY <1>0, <2>1 DEF AllPreserve
    <2>4. \A p \in Kept : (\E r \in records'[s] : r.path = p) => Claims(Owner(s)', p)
      BY <2>1, SameLook DEF Claims, Extracting
    <2> QED BY <2>1, <2>2, <2>3, <2>4, LocalApart DEF InTheWindow, fileVars, storeVars
  <1> QED BY <1>1, <1>2, <1>3

\* Keeping a config, recording a package and saving claim what was claimed.
LEMMA RecordApart ==
  ASSUME ApartInv, WindowsApart, NEW s \in Session, Step(s), Keep(s) \/ Upsert(s) \/ SaveTemp(s)
  PROVE  NoPartialFile' /\ AllAgree' /\ TempIsMine' /\ AllPreserve' /\ AllAllowed'
PROOF
  <1>0. TypeInv /\ AllPreserve
    BY DEF ApartInv, SafeInv
  <1>1. CASE Keep(s)
    <2>1. /\ UNCHANGED <<fileVars, storeVars, history, current, plan, item>>
          /\ pc[s] = "entry" /\ pc'[s] = "entry"
          /\ records'[s] = records[s] \cup {PreservedRecord(Target(s))}
          /\ MayReplace(current[s], Target(s), Owner(s))
      BY <1>0, <1>1 DEF Keep, InEntry, NextEntry, Goto, TypeInv, TypeOK
    <2>2. PreservedRecord(Target(s)).path = Target(s) /\ PreservedRecord(Target(s)).preserve
      BY DEF PreservedRecord
    <2>3. \A p \in Kept : \A k \in Package : k \in Owners(current'[s], p) => Claims(k, p)
      BY <2>1 DEF Claims
    <2>4. ConfigsKept(records'[s]) /\ \A k \in Package : ConfigsKept(current'[s][k].files)
      BY <1>0, <2>1, <2>2 DEF AllPreserve, ConfigsKept
    <2>5. \A p \in Kept : (\E r \in records'[s] : r.path = p) => Claims(Owner(s)', p)
      BY <2>1, <2>2, SameLook DEF Claims, Extracting, MayReplace
    <2> QED BY <2>1, <2>3, <2>4, <2>5, LocalApart DEF InTheWindow, fileVars, storeVars
  <1>2. CASE Upsert(s)
    <2>1. Owner(s) \in Package
      BY <1>0, <1>2, CursorTypes DEF Upsert, TypeInv, CursorOK
    <2>2. /\ UNCHANGED <<fileVars, storeVars, history, records>>
          /\ pc[s] = "entry" /\ pc'[s] = "item"
          /\ \A k \in Package :
               current'[s][k].files = IF k = Owner(s) THEN records[s] ELSE current[s][k].files
      BY <1>0, <1>2, <2>1 DEF Upsert, Goto, TypeInv, TypeOK, Manifest
    <2>3. \A p \in Kept : \A k \in Package : k \in Owners(current'[s], p) => Claims(k, p)
      BY <2>2 DEF Claims, Owners, Extracting
    <2>4. ConfigsKept(records'[s]) /\ \A k \in Package : ConfigsKept(current'[s][k].files)
      BY <1>0, <2>2 DEF AllPreserve
    <2> QED BY <2>2, <2>3, <2>4, LocalApart DEF InTheWindow, Extracting, fileVars, storeVars
  <1>3. CASE SaveTemp(s)
    <2>1. /\ UNCHANGED <<fileVars, manifest, history, records, current>>
          /\ pc'[s] = "commit" /\ saveTemp' = current[s]
      BY <1>0, <1>3 DEF SaveTemp, Goto, localVars, TypeInv, TypeOK
    <2>2. \A p \in Kept : \A k \in Package : k \in Owners(current'[s], p) => Claims(k, p)
      BY <2>1 DEF Claims
    <2>3. ConfigsKept(records'[s]) /\ \A k \in Package : ConfigsKept(current'[s][k].files)
      BY <1>0, <2>1 DEF AllPreserve
    <2> QED BY <2>1, <2>2, <2>3, LocalApart DEF InTheWindow, Extracting, fileVars
  <1> QED BY <1>1, <1>2, <1>3

\* Nothing claims a file that is missing, but a session that is about to write it.
LEMMA MissingIsUnclaimed ==
  ASSUME SafeInv, NEW p \in Missing, NEW k \in Package, Claims(k, p)
  PROVE  \E t \in Session : InTheWindow(t) /\ k = Owner(t) /\ Target(t) = p
PROOF
  <1>1. disk[p] \notin Version
    BY SentinelAssumption DEF Missing
  <1>2. /\ Lives(manifest) => k \notin Owners(manifest, p)
        /\ Lives(saveTemp) => k \notin Owners(saveTemp, p)
        /\ \A t \in Session : k \notin Owners(current[t], p) /\ \A r \in records[t] : r.path # p
    BY DEF SafeInv, AllReal, NamesNone, Owners, Lives
  <1> QED BY <1>1, <1>2 DEF Claims

\* A window is opened over a file that is missing or that the package owns.
LEMMA AcceptApart ==
  ASSUME ApartInv, WindowsApart', NEW s \in Session, Step(s), Accept(s)
  PROVE  NoPartialFile' /\ AllAgree' /\ TempIsMine' /\ AllPreserve' /\ AllAllowed'
PROOF
  <1>0. TypeInv /\ SafeInv /\ AllPreserve /\ AllAgree
    BY DEF ApartInv, SafeInv
  <1>1. /\ UNCHANGED <<fileVars, storeVars, history, current, records, plan, item, entry>>
        /\ pc[s] = "entry" /\ pc'[s] = "write" /\ EntriesLeft(s)
    BY <1>0 DEF Accept, InEntry, Goto, localVars, TypeInv, TypeOK
  <1>2. Item(s)' = Item(s) /\ Owner(s)' = Owner(s) /\ Target(s)' = Target(s)
    BY <1>1, SameLook
  <1>3. Target(s) \in Path /\ Owner(s) \in Package
    BY <1>0, <1>1, CursorTypes
  <1>4. NoPartialFile'
    BY <1>1 DEF NoPartialFile, ApartInv, fileVars
  <1>5. Kept' = Kept
    BY <1>1 DEF Kept, history
  <1>6. ASSUME NEW p \in Kept, NEW k \in Package, Claims(k, p)'
        PROVE  Claims(k, p) \/ (k = Owner(s) /\ p = Target(s))
    <2>1. ASSUME NEW t \in Session, t # s, InTheWindow(t)' /\ k = Owner(t)' /\ Target(t)' = p
          PROVE  Claims(k, p)
      BY <1>0, <2>1, OthersLook DEF Claims
    <2>2. ASSUME NEW t \in Session, Extracting(t)' /\ k = Owner(t)' /\ \E r \in records[t] : r.path = p
          PROVE  Claims(k, p)
      <3>1. Extracting(t) /\ Owner(t)' = Owner(t)
        BY <1>0, <1>1, <1>2, <2>2, OthersLook DEF Extracting
      <3> QED BY <2>2, <3>1 DEF Claims
    <2> QED BY <1>1, <1>2, <1>6, <2>1, <2>2 DEF Claims, fileVars, storeVars
  <1>7. ASSUME Target(s) \in Kept, NEW k \in Package, Claims(k, Target(s))
        PROVE  k = Owner(s)
    <2>1. CASE disk[Target(s)] = Absent
      <3>1. Target(s) \in Missing
        BY <1>7, <2>1 DEF Missing, Kept
      <3>2. PICK t \in Session : InTheWindow(t) /\ k = Owner(t) /\ Target(t) = Target(s)
        BY <1>0, <1>7, <3>1, MissingIsUnclaimed
      <3>3. t # s
        BY <1>1, <3>2 DEF InTheWindow
      <3>4. InTheWindow(t)' /\ InTheWindow(s)' /\ Target(t)' = Target(s)'
        BY <1>0, <1>1, <1>2, <3>2, <3>3, OthersLook DEF InTheWindow
      <3> QED BY <3>3, <3>4 DEF WindowsApart
    <2>2. CASE MayReplace(current[s], Target(s), Owner(s))
      <3>1. Claims(Owner(s), Target(s))
        BY <2>2 DEF MayReplace, Claims
      <3> QED BY <1>0, <1>3, <1>7, <3>1 DEF AllAgree
    <2> QED BY <2>1, <2>2 DEF Accept
  <1>8. AllAgree'
    BY <1>0, <1>5, <1>6, <1>7 DEF AllAgree
  <1>9. TempIsMine'
    <2> SUFFICES ASSUME NEW t \in Session, pc'[t] = "rename"
                 PROVE  (temp[Target(t)] = Item(t))'
      BY DEF TempIsMine
    <2>1. t # s
      BY <1>1
    <2> QED BY <1>0, <1>1, <2>1, OthersStay, OthersLook DEF ApartInv, TempIsMine, fileVars
  <1>10. AllPreserve'
    BY <1>0, <1>1 DEF AllPreserve, storeVars
  <1>11. AllAllowed'
    <2> SUFFICES ASSUME NEW t \in Session, InTheWindow(t)', Target(t)' \notin raced'
                 PROVE  (\/ disk[Target(t)] = Absent
                         \/ Owner(t) \in Owners(current[t], Target(t)) /\ Target(t) \notin ConfigPath)'
      BY DEF AllAllowed
    <2>1. CASE t = s
      <3>1. \/ disk[Target(s)] = Absent
            \/ MayReplace(current[s], Target(s), Owner(s)) /\ ~ Preserves(current[s], Target(s), Owner(s))
        BY DEF Accept
      <3>2. MayReplace(current[s], Target(s), Owner(s)) /\ Target(s) \in ConfigPath
              => Preserves(current[s], Target(s), Owner(s))
        BY <1>0, <1>3 DEF MayReplace, Owners, Preserves, AllPreserve, ConfigsKept
      <3> QED BY <1>1, <1>2, <2>1, <3>1, <3>2 DEF MayReplace, Owners, fileVars
    <2>2. CASE t # s
      BY <1>0, <1>1, <2>2, OthersStay, OthersLook DEF ApartInv, AllAllowed, Owners, fileVars, history
    <2> QED BY <2>1, <2>2
  <1> QED BY <1>4, <1>8, <1>9, <1>10, <1>11

\* The temporary file of a path is written by the one session in its window.
LEMMA WriteApart ==
  ASSUME ApartInv, WindowsApart, NEW s \in Session, Step(s), WriteTemp(s)
  PROVE  NoPartialFile' /\ AllAgree' /\ TempIsMine' /\ AllPreserve' /\ AllAllowed'
PROOF
  <1>0. TypeInv /\ AllPreserve /\ AllAgree
    BY DEF ApartInv, SafeInv
  <1>1. /\ UNCHANGED <<disk, storeVars, history, current, records, plan, item, entry>>
        /\ pc[s] = "write" /\ pc'[s] = "rename"
        /\ temp' = [temp EXCEPT ![Target(s)] = Item(s)]
    BY <1>0 DEF WriteTemp, Goto, localVars, TypeInv, TypeOK
  <1>2. Item(s)' = Item(s) /\ Owner(s)' = Owner(s) /\ Target(s)' = Target(s)
    BY <1>1, SameLook
  <1>3. Target(s) \in Path /\ Owner(s) \in Package
    BY <1>0, <1>1, CursorTypes DEF TypeInv, CursorOK
  <1>4. NoPartialFile'
    BY <1>1 DEF NoPartialFile, ApartInv
  <1>5. \A t \in Session : /\ Owner(t)' = Owner(t) /\ Target(t)' = Target(t) /\ Item(t)' = Item(t)
                           /\ InTheWindow(t)' = InTheWindow(t) /\ Extracting(t)' = Extracting(t)
    BY <1>0, <1>1, <1>2, OthersLook DEF InTheWindow, Extracting
  <1>6. AllAgree'
    BY <1>0, <1>1, <1>5, NoNewClaims DEF Claims, storeVars, history, Kept
  <1>7. TempIsMine'
    <2> SUFFICES ASSUME NEW t \in Session, pc'[t] = "rename"
                 PROVE  (temp[Target(t)] = Item(t))'
      BY DEF TempIsMine
    <2>1. CASE t = s
      BY <1>0, <1>1, <1>2, <1>3, <2>1 DEF TypeInv, TypeOK
    <2>2. CASE t # s
      <3>1. pc[t] = "rename" /\ temp[Target(t)] = Item(t)
        BY <1>0, <2>2, OthersStay DEF ApartInv, TempIsMine
      <3>2. Target(t) # Target(s) /\ Target(t) \in Path
        BY <1>0, <1>1, <2>2, <3>1, CursorTypes DEF WindowsApart, InTheWindow, TypeInv, CursorOK
      <3> QED BY <1>0, <1>1, <1>5, <3>1, <3>2 DEF TypeInv, TypeOK
    <2> QED BY <2>1, <2>2
  <1>8. AllPreserve'
    BY <1>0, <1>1 DEF AllPreserve, storeVars
  <1>9. AllAllowed'
    <2> SUFFICES ASSUME NEW t \in Session, InTheWindow(t)', Target(t)' \notin raced'
                 PROVE  (\/ disk[Target(t)] = Absent
                         \/ Owner(t) \in Owners(current[t], Target(t)) /\ Target(t) \notin ConfigPath)'
      BY DEF AllAllowed
    <2> QED BY <1>1, <1>5 DEF ApartInv, AllAllowed, history, Owners
  <1> QED BY <1>4, <1>6, <1>7, <1>8, <1>9

\* A rename puts the session's own bytes where nobody else has a claim.
LEMMA RenameApart ==
  ASSUME ApartInv, WindowsApart, NEW s \in Session, Step(s), Rename(s)
  PROVE  NoPartialFile' /\ AllAgree' /\ TempIsMine' /\ AllPreserve' /\ AllAllowed'
PROOF
  <1>0. TypeInv /\ AllPreserve /\ AllAgree
    BY DEF ApartInv, SafeInv
  <1>1. /\ UNCHANGED <<storeVars, history, current, plan, item>>
        /\ pc[s] = "rename" /\ pc'[s] = "entry"
        /\ temp' = [temp EXCEPT ![Target(s)] = Absent]
        /\ records'[s] = records[s] \cup {NewRecord(Target(s), Item(s))}
    BY <1>0 DEF Rename, NextEntry, Goto, TypeInv, TypeOK
  <1>2. Item(s)' = Item(s) /\ Owner(s)' = Owner(s)
    BY <1>1, SameLook
  <1>3. Target(s) \in Path /\ Owner(s) \in Package /\ Item(s) \in Version
    BY <1>0, <1>1, CursorTypes DEF TypeInv, CursorOK
  <1>4. disk' = [disk EXCEPT ![Target(s)] = Item(s)]
    BY <1>1 DEF Rename, ApartInv, TempIsMine
  <1>5. \A p \in Path : disk'[p] = IF p = Target(s) THEN Item(s) ELSE disk[p]
    BY <1>0, <1>3, <1>4 DEF TypeInv, TypeOK
  <1>6. NoPartialFile'
    BY <1>3, <1>5, SentinelAssumption DEF NoPartialFile, ApartInv
  <1>7. /\ NewRecord(Target(s), Item(s)).path = Target(s)
        /\ NewRecord(Target(s), Item(s)).preserve = (Target(s) \in ConfigPath)
    BY DEF NewRecord
  <1>8. Claims(Owner(s), Target(s))
    BY <1>1 DEF Claims, InTheWindow
  <1>9. AllAgree'
    <2> SUFFICES ASSUME NEW p \in Kept, NEW k \in Package, Claims(k, p)'
                 PROVE  Claims(k, p)
      BY <1>0, <1>1, NoNewClaims DEF Kept, history
    <2>1. ASSUME NEW t \in Session, t # s,
                 \/ k \in Owners(current'[t], p)
                 \/ Extracting(t)' /\ k = Owner(t)' /\ \E r \in records'[t] : r.path = p
                 \/ InTheWindow(t)' /\ k = Owner(t)' /\ Target(t)' = p
          PROVE  Claims(k, p)
      BY <1>0, <2>1, OthersStay, OthersLook DEF Claims
    <2>2. CASE \/ k \in Owners(current'[s], p)
               \/ Extracting(s)' /\ k = Owner(s)' /\ \E r \in records'[s] : r.path = p
      BY <1>1, <1>2, <1>7, <1>8, <2>2 DEF Claims, Extracting
    <2>3. CASE \/ Lives(manifest') /\ k \in Owners(manifest', p)
               \/ Lives(saveTemp') /\ k \in Owners(saveTemp', p)
      BY <1>1, <2>3 DEF Claims, storeVars
    <2>4. CASE disk'[p] \in Version /\ k = PackageOf[disk'[p]]
      BY <1>5, <1>8, <2>4 DEF Claims, Owner, Kept
    <2>5. ~ InTheWindow(s)'
      BY <1>1 DEF InTheWindow
    <2> QED BY <2>1, <2>2, <2>3, <2>4, <2>5 DEF Claims
  <1>10. TempIsMine'
    <2> SUFFICES ASSUME NEW t \in Session, pc'[t] = "rename"
                 PROVE  (temp[Target(t)] = Item(t))'
      BY DEF TempIsMine
    <2>1. t # s
      BY <1>1
    <2>2. pc[t] = "rename" /\ temp[Target(t)] = Item(t) /\ Target(t)' = Target(t) /\ Item(t)' = Item(t)
      BY <1>0, <2>1, OthersStay, OthersLook DEF ApartInv, TempIsMine
    <2>3. Target(t) # Target(s) /\ Target(t) \in Path
      BY <1>0, <1>1, <2>1, <2>2, CursorTypes DEF WindowsApart, InTheWindow, TypeInv, CursorOK
    <2> QED BY <1>0, <1>1, <2>2, <2>3 DEF TypeInv, TypeOK
  <1>11. AllPreserve'
    <2>1. ConfigsKept(records'[s])
      BY <1>0, <1>1, <1>7 DEF AllPreserve, ConfigsKept
    <2>2. \A t \in Session : ConfigsKept(records'[t])
      BY <1>0, <2>1, OthersStay DEF AllPreserve
    <2> QED BY <1>0, <1>1, <2>2 DEF AllPreserve, storeVars
  <1>12. AllAllowed'
    <2> SUFFICES ASSUME NEW t \in Session, InTheWindow(t)', Target(t)' \notin raced'
                 PROVE  (\/ disk[Target(t)] = Absent
                         \/ Owner(t) \in Owners(current[t], Target(t)) /\ Target(t) \notin ConfigPath)'
      BY DEF AllAllowed
    <2>1. t # s
      BY <1>1 DEF InTheWindow
    <2>2. InTheWindow(t) /\ Target(t)' = Target(t) /\ Owner(t)' = Owner(t)
      BY <1>0, <2>1, OthersLook
    <2>3. Target(t) # Target(s) /\ Target(t) \in Path
      BY <1>0, <1>1, <2>1, <2>2, CursorTypes DEF WindowsApart, InTheWindow, TypeInv, CursorOK
    <2> QED BY <1>1, <1>5, <2>2, <2>3 DEF ApartInv, AllAllowed, history, Owners
  <1> QED BY <1>6, <1>9, <1>10, <1>11, <1>12

\* A crash forgets, and an outside actor writes what claims nothing.
LEMMA OutsideApart ==
  ASSUME ApartInv, Crash \/ Outside
  PROVE  NoPartialFile' /\ AllAgree' /\ TempIsMine' /\ AllPreserve' /\ AllAllowed'
PROOF
  <1>0. TypeInv /\ AllPreserve /\ AllAgree
    BY DEF ApartInv, SafeInv
  <1>1. CASE Crash
    <2>1. /\ UNCHANGED <<disk, manifest, history>> /\ saveTemp' \in {saveTemp, Partial}
          /\ \A t \in Session : pc'[t] = "idle" /\ current'[t] = EmptyManifest /\ records'[t] = {}
      BY <1>1 DEF Crash
    <2>2. \A t \in Session : ~ InTheWindow(t)' /\ ~ Extracting(t)'
      BY <2>1 DEF InTheWindow, Extracting
    <2>3. AllAgree'
      BY <1>0, <2>1, <2>2, EmptyClaimsNothing, NoNewClaims DEF Claims, Lives, Kept, history
    <2>4. AllPreserve'
      BY <1>0, <2>1, EmptyClaimsNothing DEF AllPreserve, ConfigsKept, Lives
    <2> QED BY <2>1, <2>2, <2>3, <2>4 DEF ApartInv, NoPartialFile, TempIsMine, AllAllowed, InTheWindow
  <1>2. CASE Outside
    <2>1. UNCHANGED <<temp, storeVars, pc, localVars>>
      BY <1>2 DEF Outside, OutsideWrite, OutsideDelete
    <2>2. /\ removed \subseteq removed' /\ raced \subseteq raced'
          /\ \A p \in Path : \/ disk'[p] = disk[p]
                             \/ disk'[p] = Foreign /\ (InWindow(p) => p \in raced')
                             \/ disk'[p] = Absent
      BY <1>0, <1>2 DEF Outside, OutsideWrite, OutsideDelete, TypeInv, TypeOK
    <2>3. \A t \in Session : /\ Owner(t)' = Owner(t) /\ Target(t)' = Target(t) /\ Item(t)' = Item(t)
                             /\ InTheWindow(t)' = InTheWindow(t) /\ Extracting(t)' = Extracting(t)
      BY <2>1 DEF localVars, Owner, Target, Zipped, Item, InTheWindow, Extracting
    <2>4. NoPartialFile'
      BY <2>2, SentinelAssumption DEF NoPartialFile, ApartInv
    <2>5. AllAgree'
      <3> SUFFICES ASSUME NEW p \in Kept', NEW k \in Package, Claims(k, p)'
                   PROVE  Claims(k, p)
        BY <1>0, <2>2, NoNewClaims DEF Kept
      <3>1. disk'[p] \in Version => disk'[p] = disk[p]
        BY <2>2, SentinelAssumption DEF Kept
      <3> QED BY <2>1, <2>3, <3>1 DEF Claims, storeVars, localVars
    <2>6. TempIsMine'
      BY <2>1, <2>3 DEF ApartInv, TempIsMine
    <2>7. AllPreserve'
      BY <1>0, <2>1 DEF AllPreserve, storeVars, localVars
    <2>8. AllAllowed'
      <3> SUFFICES ASSUME NEW t \in Session, InTheWindow(t)', Target(t)' \notin raced'
                   PROVE  (\/ disk[Target(t)] = Absent
                           \/ Owner(t) \in Owners(current[t], Target(t)) /\ Target(t) \notin ConfigPath)'
        BY DEF AllAllowed
      <3>1. InTheWindow(t) /\ Target(t) \in Path /\ InWindow(Target(t))
        BY <1>0, <2>3, CursorTypes DEF InTheWindow, InWindow, TypeInv, CursorOK
      <3>2. Target(t) \notin raced
        BY <2>2, <2>3
      <3> QED BY <2>1, <2>2, <2>3, <3>1, <3>2 DEF ApartInv, AllAllowed, localVars, Owners
    <2> QED BY <2>4, <2>5, <2>6, <2>7, <2>8
  <1> QED BY <1>1, <1>2

\* Every step keeps all of it, as long as no two windows are open over one path.
LEMMA ApartInvInductive ==
  ASSUME ApartInv, [Next]_vars, WindowsApart, WindowsApart'
  PROVE  ApartInv'
PROOF
  <1>1. SafeInv'
    BY SafeInvInductive DEF ApartInv
  <1>2. ASSUME NEW s \in Session, Step(s)
        PROVE  NoPartialFile' /\ AllAgree' /\ TempIsMine' /\ AllPreserve' /\ AllAllowed'
    BY <1>2, StopApart, PassApart, RecordApart, AcceptApart, WriteApart, RenameApart DEF Step
  <1>3. CASE Crash \/ Outside
    BY <1>1, <1>3, OutsideApart DEF ApartInv
  <1>4. CASE UNCHANGED vars
    <2>1. Kept' = Kept /\ \A t \in Session :
            /\ Owner(t)' = Owner(t) /\ Target(t)' = Target(t) /\ Item(t)' = Item(t)
            /\ InTheWindow(t)' = InTheWindow(t) /\ Extracting(t)' = Extracting(t)
      BY <1>4 DEF vars, history, localVars, Kept, Owner, Target, Zipped, Item, InTheWindow, Extracting
    <2>2. AllAgree'
      BY <1>4, <2>1, NoNewClaims DEF ApartInv, Claims, vars, fileVars, storeVars, localVars
    <2>3. NoPartialFile' /\ TempIsMine' /\ AllPreserve'
      BY <1>4, <2>1
      DEF ApartInv, NoPartialFile, TempIsMine, AllPreserve, vars, fileVars, storeVars, localVars
    <2>4. AllAllowed'
      BY <1>4, <2>1 DEF ApartInv, AllAllowed, Owners, vars, fileVars, localVars, history
    <2> QED BY <1>1, <2>2, <2>3, <2>4 DEF ApartInv
  <1> QED BY <1>1, <1>2, <1>3, <1>4 DEF Next, ApartInv

\* On a new server nothing claims anything.
LEMMA ApartInvInit == Init => ApartInv
PROOF
  <1> SUFFICES ASSUME Init PROVE ApartInv
    OBVIOUS
  <1>1. NoPartialFile /\ TempIsMine /\ AllAllowed
    BY SentinelAssumption DEF Init, NoPartialFile, TempIsMine, AllAllowed, InTheWindow
  <1>2. AllPreserve
    BY EmptyClaimsNothing DEF Init, AllPreserve, ConfigsKept, Lives
  <1>3. AllAgree
    <2>1. \A p \in Path : disk[p] \notin Version
      BY SentinelAssumption DEF Init
    <2> QED
      BY <2>1, EmptyClaimsNothing DEF Init, AllAgree, Claims, Kept, Extracting, InTheWindow, Lives
  <1> QED BY <1>1, <1>2, <1>3, SafeInvInit DEF ApartInv

\* Whatever is new on disk was renamed by the session in the window, or comes
\* from outside.
LEMMA OnlyRenames ==
  ASSUME ApartInv, [Next]_vars, NEW p \in Path, disk'[p] # disk[p]
  PROVE  \/ disk'[p] \in {Foreign, Absent}
         \/ \E s \in Session : /\ InTheWindow(s) /\ Target(s) = p
                               /\ disk'[p] = Item(s) /\ Item(s) \in Version /\ Owner(s) \in Package
PROOF
  <1>0. TypeInv
    BY DEF ApartInv, SafeInv
  <1>1. ASSUME NEW s \in Session, Rename(s)
        PROVE  /\ InTheWindow(s) /\ Target(s) = p
               /\ disk'[p] = Item(s) /\ Item(s) \in Version /\ Owner(s) \in Package
    <2>1. Target(s) \in Path /\ Item(s) \in Version /\ Owner(s) \in Package
      BY <1>0, <1>1, CursorTypes DEF Rename, TypeInv, CursorOK
    <2>2. disk' = [disk EXCEPT ![Target(s)] = Item(s)]
      BY <1>1 DEF Rename, ApartInv, TempIsMine
    <2> QED BY <1>0, <1>1, <2>1, <2>2 DEF TypeInv, TypeOK, Rename, InTheWindow
  <1>2. ASSUME NEW s \in Session, Step(s), ~ Rename(s)
        PROVE  UNCHANGED disk
    BY <1>2
    DEF Step, fileVars, Begin, Download, DownloadFails, Copy, CopyFails, Open, OpenFails,
        Skip, RejectUnsafe, Refuse, Keep, Accept, CheckFails, WriteTemp, WriteFails, RenameFails,
        Upsert, NothingInstalled, SaveTemp, SaveFails, Commit, CommitFails
  <1>3. CASE Crash
    BY <1>3 DEF Crash
  <1>4. CASE Outside
    BY <1>0, <1>4 DEF Outside, OutsideWrite, OutsideDelete, TypeInv, TypeOK
  <1>5. CASE UNCHANGED vars
    BY <1>5 DEF vars, fileVars
  <1> QED BY <1>1, <1>2, <1>3, <1>4, <1>5 DEF Next

\* However many syncs run, fail and die: as long as no two of them are about to
\* write one path, no half-written file shows up under its own name.
THEOREM NothingHalfWritten == Spec /\ []WindowsApart => []NoPartialFile
PROOF
  <1>1. ApartInv => NoPartialFile
    BY DEF ApartInv
  <1> QED BY <1>1, ApartInvInit, ApartInvInductive, PTL DEF Spec

\* As long as no two syncs are about to write one path, the bytes of one
\* package are never replaced by another's, whatever manifests are loaded and
\* saved meanwhile.
THEOREM BytesKeepTheirPackage == Spec /\ []WindowsApart => BytesStayInPackage
PROOF
  <1>1. ASSUME ApartInv, [Next]_vars
        PROVE  [\A p \in Path \ removed :
                  disk[p] \in Version /\ disk'[p] \in Version =>
                    PackageOf[disk[p]] = PackageOf[disk'[p]]]_disk
    <2> SUFFICES ASSUME NEW p \in Path \ removed, disk[p] \in Version, disk'[p] \in Version,
                        disk'[p] # disk[p]
                 PROVE  PackageOf[disk[p]] = PackageOf[disk'[p]]
      OBVIOUS
    <2>1. PICK s \in Session : /\ InTheWindow(s) /\ Target(s) = p
                               /\ disk'[p] = Item(s) /\ Item(s) \in Version /\ Owner(s) \in Package
      BY <1>1, OnlyRenames, SentinelAssumption
    <2>2. Claims(PackageOf[disk[p]], p) /\ Claims(Owner(s), p)
      BY <2>1 DEF Claims
    <2>3. PackageOf[disk[p]] \in Package
      BY InputAssumption
    <2>4. PackageOf[disk[p]] = Owner(s)
      BY <1>1, <2>1, <2>2, <2>3 DEF ApartInv, AllAgree, Kept
    <2> QED BY <2>1, <2>4 DEF Owner
  <1> QED BY <1>1, ApartInvInit, ApartInvInductive, PTL DEF Spec, BytesStayInPackage

\* As long as no two syncs are about to write one path, a config file that
\* exists stays as it is, through every update, failure and crash.
THEOREM ConfigsSurvive == Spec /\ []WindowsApart => ConfigNeverOverwritten
PROOF
  <1>1. ASSUME ApartInv, [Next]_vars
        PROVE  [\A p \in ConfigPath \ raced :
                  disk[p] # Absent => disk'[p] = disk[p] \/ disk'[p] \in {Foreign, Absent}]_disk
    <2> SUFFICES ASSUME NEW p \in ConfigPath \ raced, disk[p] # Absent, disk'[p] # disk[p],
                        disk'[p] \notin {Foreign, Absent}
                 PROVE  FALSE
      OBVIOUS
    <2>1. p \in Path
      BY InputAssumption
    <2>2. PICK s \in Session : InTheWindow(s) /\ Target(s) = p
      BY <1>1, <2>1, OnlyRenames
    <2> QED BY <1>1, <2>2 DEF ApartInv, AllAllowed
  <1> QED BY <1>1, ApartInvInit, ApartInvInductive, PTL DEF Spec, ConfigNeverOverwritten

\* As long as no two syncs are about to write one path, a file Rekja did not
\* write is replaced only by a package that a record makes its owner.
THEOREM UntrackedSurvive == Spec /\ []WindowsApart => UntrackedBlocksOverwrite
PROOF
  <1>1. ASSUME ApartInv, [Next]_vars
        PROVE  [\A p \in Path \ raced :
                  disk[p] = Foreign /\ disk'[p] \in Version => Recorded(p, PackageOf[disk'[p]])]_disk
    <2> SUFFICES ASSUME NEW p \in Path \ raced, disk[p] = Foreign, disk'[p] \in Version
                 PROVE  Recorded(p, PackageOf[disk'[p]])
      OBVIOUS
    <2>1. PICK s \in Session : InTheWindow(s) /\ Target(s) = p /\ disk'[p] = Item(s)
      BY <1>1, OnlyRenames, SentinelAssumption
    <2>2. Owner(s) \in Owners(current[s], p)
      BY <1>1, <2>1, SentinelAssumption DEF ApartInv, AllAllowed
    <2> QED BY <2>1, <2>2 DEF Recorded, Owner
  <1> QED BY <1>1, ApartInvInit, ApartInvInductive, PTL DEF Spec, UntrackedBlocksOverwrite

-------------------------------------------------------------------------------
(* Syncs that follow one another.                                           *)

Running(s) == pc[s] \notin Resting

\* A sync is started when no other one runs.
OneAtATime == \A s, t \in Session : Running(s) /\ Running(t) => s = t

Working(s) == pc[s] \in {"copy", "open", "entry", "write", "rename"}

FilesOf(v) == {Archive[v][i].path : i \in {j \in DOMAIN Archive[v] : Archive[v][j].kind = "file"}}

\* p holds the bytes of v, or what somebody outside has made of it, or it is a
\* config, which may be older.
Intact(p, v) == p \in ConfigPath \cup removed \/ disk[p] \in {v, Foreign}

\* The sync has not come to package k so far.
NotYet(s, k) ==
  /\ \A i \in 1..(item[s] - 1) : PackageOf[plan[s][i]] # k
  /\ current[s][k].installed = manifest[k].installed

\* i is the last position of k among those the sync has installed.
LastDone(s, k, i) ==
  /\ i \in 1..(item[s] - 1) /\ PackageOf[plan[s][i]] = k
  /\ \A j \in 1..(item[s] - 1) : PackageOf[plan[s][j]] = k => j <= i

\* Version v of k is recorded and, unless k is being installed anew, in place.
Settled(s, k, v) ==
  /\ current[s][k].installed = v
  /\ \A p \in FilesOf(v) :
       /\ \E r \in current[s][k].files : r.path = p
       /\ Intact(p, v) \/ (Working(s) /\ k = Owner(s))

Progress(s) ==
  \A k \in Package :
    NotYet(s, k) \/ \E i \in 1..(item[s] - 1) : LastDone(s, k, i) /\ Settled(s, k, plan[s][i])

\* The entries that are read are recorded and in place.
Extracted(s) ==
  \A i \in DOMAIN Archive[Item(s)] :
    i < entry[s] /\ Archive[Item(s)][i].kind = "file" =>
      /\ \E r \in records[s] : r.path = Archive[Item(s)][i].path
      /\ Intact(Archive[Item(s)][i].path, Item(s))

OnCourse(s) ==
  /\ pc[s] \in Resting => plan[s] = <<>> /\ item[s] = 1
  /\ Running(s) => Progress(s) /\ item[s] <= Len(plan[s]) + 1
  /\ Extracting(s) => Extracted(s)
  /\ pc[s] = "commit" => saveTemp = current[s] /\ ~ ItemsLeft(s)

SerialInv == ApartInv /\ manifest # Partial /\ \A s \in Session : OnCourse(s)

\* The entries of an archive are numbered from one and name paths.
LEMMA EntriesNamePaths ==
  ASSUME NEW v \in Version
  PROVE  /\ \A i \in DOMAIN Archive[v] :
              i \in Nat \ {0} /\ i <= Len(Archive[v]) /\ Archive[v][i].path \in Path
         /\ FilesOf(v) \subseteq Path
PROOF
  <1>1. Archive[v] \in Seq(Entry)
    BY InputAssumption
  <1>2. \A i \in DOMAIN Archive[v] : i \in Nat \ {0} /\ i <= Len(Archive[v]) /\ Archive[v][i] \in Entry
    BY <1>1
  <1>3. \A e \in Entry : e.path \in Path
    BY DEF Entry
  <1> QED BY <1>2, <1>3 DEF FilesOf

\* Syncs that follow one another keep apart.
LEMMA SerialIsApart == OneAtATime => WindowsApart
PROOF BY DEF OneAtATime, WindowsApart, Running, InTheWindow, Resting

\* While a session steps, the others rest.
LEMMA OthersRest ==
  ASSUME TypeInv, manifest # Partial, OneAtATime, OneAtATime', NEW s \in Session, Step(s),
         NEW t \in Session, t # s
  PROVE  ~ Running(t) /\ ~ Running(t)'
PROOF
  <1>1. pc'[t] = pc[t]
    BY OthersStay
  <1>2. CASE Running(s)
    BY <1>1, <1>2 DEF OneAtATime, Running
  <1>3. CASE ~ Running(s)
    <2>1. Begin(s)
      BY <1>3
      DEF Step, Running, Resting, Download, DownloadFails, Copy, CopyFails, Open, OpenFails,
          Skip, RejectUnsafe, Refuse, Keep, Accept, CheckFails, WriteTemp, WriteFails, Rename, RenameFails,
          Upsert, NothingInstalled, SaveTemp, SaveFails, Commit, CommitFails, InEntry
    <2>2. Running(s)'
      BY <2>1 DEF Begin, Goto, TypeInv, TypeOK, Running, Resting
    <2> QED BY <1>1, <2>2 DEF OneAtATime, Running
  <1> QED BY <1>2, <1>3

\* Only the session that steps has something to keep.
LEMMA OneOnCourse ==
  ASSUME SerialInv, OneAtATime, OneAtATime', NEW s \in Session, Step(s), OnCourse(s)'
  PROVE  \A t \in Session : OnCourse(t)'
PROOF
  <1> SUFFICES ASSUME NEW t \in Session, t # s PROVE OnCourse(t)'
    OBVIOUS
  <1>1. TypeInv /\ OnCourse(t) /\ manifest # Partial
    BY DEF SerialInv, ApartInv, SafeInv
  <1>2. pc'[t] = pc[t] /\ plan'[t] = plan[t] /\ item'[t] = item[t]
    BY <1>1, OthersStay
  <1>3. ~ Running(t)
    BY <1>1, OthersRest
  <1> QED BY <1>1, <1>2, <1>3 DEF OnCourse, Running, Resting, Extracting

\* A sync that stops leaves nothing to keep.
LEMMA StopOnCourse ==
  ASSUME TypeInv, manifest # Partial, NEW s \in Session,
         \/ DownloadFails(s) \/ CopyFails(s) \/ OpenFails(s)
         \/ RejectUnsafe(s) \/ Refuse(s) \/ CheckFails(s) \/ WriteFails(s) \/ RenameFails(s)
         \/ NothingInstalled(s) \/ SaveFails(s) \/ Commit(s) \/ CommitFails(s)
  PROVE  OnCourse(s)'
PROOF
  <1>1. PICK result \in {"done", "failed"} : Return(s, result)
    BY DEF DownloadFails, CopyFails, OpenFails, RejectUnsafe, Refuse, CheckFails, WriteFails,
           RenameFails, NothingInstalled, SaveFails, Commit, CommitFails
  <1>2. pc'[s] = result /\ plan'[s] = <<>> /\ item'[s] = 1
    BY <1>1, ReturnsEmpty DEF Resting
  <1> QED BY <1>2 DEF OnCourse, Running, Extracting, Resting

\* The steps that change neither the disk nor the session's manifest nor how
\* far it has come with its plan.
LEMMA PassOnCourse ==
  ASSUME SerialInv, NEW s \in Session, Running(s),
         UNCHANGED <<disk, removed, manifest>>,
         plan'[s] = plan[s], item'[s] = item[s], current'[s] = current[s],
         Working(s) => Working(s)'
  PROVE  Progress(s)' /\ item'[s] <= Len(plan'[s]) + 1
PROOF
  <1>1. Progress(s) /\ item[s] <= Len(plan[s]) + 1
    BY DEF SerialInv, OnCourse
  <1>2. Owner(s)' = Owner(s)
    BY SameLook
  <1>3. \A p, v : Intact(p, v) => Intact(p, v)'
    BY DEF Intact
  <1>4. \A k \in Package : NotYet(s, k) => NotYet(s, k)'
    BY DEF NotYet
  <1>5. \A k, i : LastDone(s, k, i) => LastDone(s, k, i)'
    BY DEF LastDone
  <1>6. \A k, v : Settled(s, k, v) => Settled(s, k, v)'
    BY <1>2, <1>3 DEF Settled
  <1> QED BY <1>1, <1>4, <1>5, <1>6 DEF Progress

\* A sync starts from the saved manifest and comes to its first archive.
LEMMA FetchOnCourse ==
  ASSUME SerialInv, NEW s \in Session, Begin(s) \/ Download(s) \/ Copy(s) \/ Open(s)
  PROVE  OnCourse(s)'
PROOF
  <1>0. TypeInv /\ OnCourse(s) /\ manifest # Partial
    BY DEF SerialInv, ApartInv, SafeInv
  <1>1. CASE Begin(s)
    <2>1. PICK p \in Plans : /\ pc'[s] = "item" /\ plan'[s] = p /\ item'[s] = item[s]
                             /\ current'[s] = manifest /\ manifest' = manifest
      BY <1>0, <1>1 DEF Begin, Goto, TypeInv, TypeOK, storeVars
    <2>2. item'[s] = 1 /\ Len(p) \in Nat
      BY <1>0, <1>1, <2>1, InputAssumption DEF Begin, OnCourse
    <2>3. Progress(s)'
      BY <2>1, <2>2 DEF Progress, NotYet
    <2> QED BY <2>1, <2>2, <2>3 DEF OnCourse, Running, Resting, Extracting
  <1>2. CASE Download(s) \/ Copy(s) \/ Open(s)
    <2>1. /\ UNCHANGED <<disk, removed, manifest, saveTemp>>
          /\ plan'[s] = plan[s] /\ item'[s] = item[s] /\ current'[s] = current[s]
          /\ pc'[s] \in {"copy", "open"} \/ (pc'[s] = "entry" /\ entry'[s] = 1)
          /\ Running(s)
      BY <1>0, <1>2
      DEF Download, Copy, Open, Goto, TypeInv, TypeOK, fileVars, storeVars, localVars, history,
          Running, Resting
    <2>2. Progress(s)' /\ item'[s] <= Len(plan'[s]) + 1
      BY <2>1, PassOnCourse DEF Working
    <2>3. Extracting(s)' => Extracted(s)'
      <3> SUFFICES ASSUME Extracting(s)', NEW i \in DOMAIN Archive[Item(s)'], i < entry'[s]
                   PROVE  FALSE
        BY DEF Extracted
      <3>1. entry'[s] = 1
        BY <2>1 DEF Extracting
      <3>2. Item(s)' = Item(s) /\ Item(s) \in Version
        BY <1>0, <1>2, <2>1, SameLook, CursorTypes DEF Download, Copy, Open, ItemsLeft
      <3>3. i \in Nat \ {0}
        BY <3>2, InputAssumption
      <3> QED BY <3>1, <3>3
    <2> QED BY <2>1, <2>2, <2>3 DEF OnCourse, Resting
  <1> QED BY <1>1, <1>2

\* A sync that passes over an entry, or is about to write it, is where it was.
LEMMA LookOnCourse ==
  ASSUME SerialInv, NEW s \in Session, Skip(s) \/ Keep(s) \/ Accept(s) \/ WriteTemp(s)
  PROVE  OnCourse(s)'
PROOF
  <1>0. TypeInv /\ OnCourse(s)
    BY DEF SerialInv, ApartInv, SafeInv
  <1>1. /\ UNCHANGED <<disk, removed, manifest>>
        /\ plan'[s] = plan[s] /\ item'[s] = item[s] /\ current'[s] = current[s]
        /\ Extracting(s) /\ Extracting(s)' /\ Working(s)' /\ pc'[s] # "commit"
        /\ Running(s) /\ Running(s)'
    BY <1>0
    DEF Skip, Keep, Accept, WriteTemp, InEntry, NextEntry, Goto, TypeInv, TypeOK, fileVars, storeVars,
        localVars, history, Running, Resting, Working, Extracting
  <1>2. Progress(s)' /\ item'[s] <= Len(plan'[s]) + 1
    BY <1>1, PassOnCourse
  <1>3. /\ Extracted(s) /\ Item(s)' = Item(s) /\ Item(s) \in Version
        /\ \A p, v : Intact(p, v) => Intact(p, v)'
    BY <1>0, <1>1, SameLook, CursorTypes DEF OnCourse, Intact, Extracting
  <1>4. /\ entry[s] \in Nat \ {0} /\ DOMAIN Archive[Item(s)] \subseteq Nat
        /\ entry'[s] \in {entry[s], entry[s] + 1}
        /\ records[s] \subseteq records'[s]
    BY <1>0, <1>3, InputAssumption
    DEF Skip, Keep, Accept, WriteTemp, InEntry, NextEntry, Goto, TypeInv, TypeOK, localVars
  <1>5. entry'[s] = entry[s] + 1 /\ Zipped(s).kind = "file" =>
          /\ \E r \in records'[s] : r.path = Target(s)
          /\ Intact(Target(s), Item(s))
    <2>1. CASE Keep(s)
      <3>1. PreservedRecord(Target(s)) \in records'[s] /\ Target(s) \in ConfigPath
        BY <1>0, <2>1 DEF Keep, Preserves, TypeInv, TypeOK
      <3>2. PreservedRecord(Target(s)).path = Target(s)
        BY DEF PreservedRecord
      <3> QED BY <3>1, <3>2 DEF Intact
    <2>2. CASE Skip(s)
      BY <2>2 DEF Skip
    <2>3. CASE Accept(s) \/ WriteTemp(s)
      <3>1. entry' = entry
        BY <2>3 DEF Accept, WriteTemp, localVars
      <3>2. entry'[s] # entry[s] + 1
        BY <1>4, <3>1
      <3> QED BY <3>2
    <2> QED BY <2>1, <2>2, <2>3
  <1>6. Extracted(s)'
    <2> SUFFICES ASSUME NEW i \in DOMAIN Archive[Item(s)], i < entry'[s], Archive[Item(s)][i].kind = "file"
                 PROVE  /\ \E r \in records'[s] : r.path = Archive[Item(s)][i].path
                        /\ Intact(Archive[Item(s)][i].path, Item(s))
      BY <1>3 DEF Extracted
    <2>1. CASE i < entry[s]
      BY <1>3, <1>4, <2>1 DEF Extracted
    <2>2. CASE i = entry[s] /\ entry'[s] = entry[s] + 1
      BY <1>5, <2>2 DEF Target, Zipped
    <2> QED BY <1>4, <2>1, <2>2
  <1> QED BY <1>1, <1>2, <1>6 DEF OnCourse, Running

\* A file that is renamed into place belongs to no other package of the plan.
LEMMA RenameOnCourse ==
  ASSUME SerialInv, NEW s \in Session, Rename(s)
  PROVE  OnCourse(s)'
PROOF
  <1>0. TypeInv /\ OnCourse(s) /\ TempIsMine /\ AllAgree
    BY DEF SerialInv, ApartInv, SafeInv
  <1>1. Item(s) \in Version /\ Owner(s) \in Package /\ Target(s) \in Path /\ Zipped(s) \in Entry
    BY <1>0, CursorTypes DEF Rename, TypeInv, CursorOK
  <1>2. /\ UNCHANGED <<removed, manifest>>
        /\ plan'[s] = plan[s] /\ item'[s] = item[s] /\ current'[s] = current[s]
        /\ pc[s] = "rename" /\ pc'[s] = "entry" /\ entry'[s] = entry[s] + 1
        /\ records'[s] = records[s] \cup {NewRecord(Target(s), Item(s))}
        /\ Item(s)' = Item(s) /\ Owner(s)' = Owner(s)
    BY <1>0, SameLook DEF Rename, NextEntry, Goto, TypeInv, TypeOK, storeVars, history
  <1>3. disk' = [disk EXCEPT ![Target(s)] = Item(s)]
    BY <1>0 DEF Rename, TempIsMine
  <1>4. Progress(s) /\ Extracted(s) /\ item[s] <= Len(plan[s]) + 1
    BY <1>0, <1>2 DEF OnCourse, Running, Resting, Extracting
  <1>5. \A v : \A p \in Path : Intact(p, v) /\ (p = Target(s) => v = Item(s) \/ p \in removed) => Intact(p, v)'
    BY <1>0, <1>1, <1>2, <1>3 DEF Intact, TypeInv, TypeOK
  <1>6. Progress(s)'
    <2>1. \A k \in Package : NotYet(s, k) => NotYet(s, k)'
      BY <1>2 DEF NotYet
    <2>2. \A k, i : LastDone(s, k, i) => LastDone(s, k, i)'
      BY <1>2 DEF LastDone
    <2>3. ASSUME NEW k \in Package, NEW v \in Version, Settled(s, k, v)
          PROVE  Settled(s, k, v)'
      <3>1. CASE k = Owner(s)
        BY <1>2, <2>3, <3>1 DEF Settled, Working
      <3>2. CASE k # Owner(s)
        <4>0. /\ current[s][k].installed = v
              /\ \A p \in FilesOf(v) : (\E r \in current[s][k].files : r.path = p) /\ Intact(p, v)
          BY <2>3, <3>2 DEF Settled
        <4> SUFFICES ASSUME NEW p \in FilesOf(v)
                     PROVE  Intact(p, v)'
          BY <1>2, <4>0 DEF Settled
        <4>1. p \in Path
          BY EntriesNamePaths
        <4>2. ASSUME p = Target(s) PROVE p \in removed
          <5>1. Claims(k, p) /\ Claims(Owner(s), p)
            BY <1>2, <4>0, <4>2 DEF Claims, Owners, InTheWindow
          <5> QED BY <1>0, <1>1, <3>2, <4>1, <5>1 DEF AllAgree, Kept
        <4> QED BY <1>5, <4>0, <4>1, <4>2
      <3> QED BY <3>1, <3>2
    <2>4. ASSUME NEW k \in Package, NEW i \in 1..(item[s] - 1), LastDone(s, k, i), Settled(s, k, plan[s][i])
          PROVE  Settled(s, k, plan[s][i])'
      <3>1. plan[s][i] \in Version
        <4>1. plan[s] \in Seq(Version) /\ item[s] \in Nat /\ item[s] <= Len(plan[s]) + 1
          BY <1>0, <1>4 DEF TypeInv, TypeOK
        <4>2. i \in 1..Len(plan[s])
          BY <4>1
        <4> QED BY <4>1, <4>2
      <3>2. \A v \in Version : Settled(s, k, v) => Settled(s, k, v)'
        BY <2>3
      <3> QED BY <1>2, <2>4, <3>1, <3>2
    <2> QED BY <1>2, <1>4, <2>1, <2>2, <2>4 DEF Progress
  <1>7. Extracted(s)'
    <2> SUFFICES ASSUME NEW i \in DOMAIN Archive[Item(s)], i < entry'[s], Archive[Item(s)][i].kind = "file"
                 PROVE  /\ \E r \in records'[s] : r.path = Archive[Item(s)][i].path
                        /\ Intact(Archive[Item(s)][i].path, Item(s))'
      BY <1>2 DEF Extracted, Intact
    <2>1. i \in Nat /\ entry[s] \in Nat /\ Archive[Item(s)][i].path \in Path
      BY <1>0, <1>1, EntriesNamePaths DEF TypeInv, TypeOK
    <2>2. CASE i < entry[s]
      BY <1>2, <1>4, <1>5, <2>1, <2>2 DEF Extracted
    <2>3. CASE i = entry[s]
      <3>1. Archive[Item(s)][i].path = Target(s)
        BY <2>3 DEF Target, Zipped
      <3>2. NewRecord(Target(s), Item(s)).path = Target(s)
        BY DEF NewRecord
      <3>3. disk'[Target(s)] = Item(s)
        BY <1>0, <1>1, <1>3 DEF TypeInv, TypeOK
      <3> QED BY <1>2, <3>1, <3>2, <3>3 DEF Intact
    <2> QED BY <1>2, <2>1, <2>2, <2>3
  <1> QED BY <1>2, <1>4, <1>6, <1>7 DEF OnCourse, Running, Resting, Extracting

\* A package whose archive is read is settled; so is every other one still.
LEMMA UpsertOnCourse ==
  ASSUME SerialInv, NEW s \in Session, Upsert(s)
  PROVE  OnCourse(s)'
PROOF
  <1>0. TypeInv /\ OnCourse(s)
    BY DEF SerialInv, ApartInv, SafeInv
  <1>1. Item(s) \in Version /\ Owner(s) \in Package /\ item[s] \in Nat \ {0} /\ entry[s] \in Nat
    BY <1>0, CursorTypes DEF Upsert, TypeInv, TypeOK
  <1>2. /\ UNCHANGED <<disk, removed, manifest>>
        /\ plan'[s] = plan[s] /\ item'[s] = item[s] + 1
        /\ pc[s] = "entry" /\ pc'[s] = "item" /\ ~ EntriesLeft(s)
        /\ \A k \in Package : k # Owner(s) => current'[s][k] = current[s][k]
        /\ current'[s][Owner(s)].installed = Item(s) /\ current'[s][Owner(s)].files = records[s]
    BY <1>0, <1>1 DEF Upsert, Goto, TypeInv, TypeOK, Manifest, fileVars, storeVars, history
  <1>3. Progress(s) /\ Extracted(s) /\ item[s] <= Len(plan[s]) /\ Len(plan[s]) \in Nat
    BY <1>0, <1>2 DEF OnCourse, Running, Resting, Extracting, TypeInv, TypeOK, CursorOK
  <1>4. \A p, v : Intact(p, v) => Intact(p, v)'
    BY <1>2 DEF Intact
  <1>5. PICK o \in Package, v \in Version, n \in Nat \ {0} : o = Owner(s) /\ v = Item(s) /\ n = item[s]
    BY <1>1
  <1>6. LastDone(s, o, n)' /\ Settled(s, o, v)'
    <2>1. LastDone(s, o, n)'
      BY <1>2, <1>5 DEF LastDone, Owner, Item
    <2>2. ASSUME NEW p \in FilesOf(v)
          PROVE  (\E r \in records[s] : r.path = p) /\ Intact(p, v)
      <3>1. PICK i \in DOMAIN Archive[v] : Archive[v][i].kind = "file" /\ p = Archive[v][i].path
        BY DEF FilesOf
      <3>2. i < entry[s]
        BY <1>1, <1>2, <1>5, EntriesNamePaths, InputAssumption DEF EntriesLeft
      <3> QED BY <1>3, <1>5, <3>1, <3>2 DEF Extracted
    <2>3. Settled(s, o, v)'
      BY <1>2, <1>4, <1>5, <2>2 DEF Settled
    <2> QED BY <2>1, <2>3
  <1>7. ASSUME NEW k \in Package, k # Owner(s), NotYet(s, k)
        PROVE  NotYet(s, k)'
    <2>1. \A i \in 1..item[s] : PackageOf[plan[s][i]] # k
      BY <1>1, <1>7 DEF NotYet, Owner, Item
    <2> QED BY <1>1, <1>2, <1>7, <2>1 DEF NotYet
  <1>8. ASSUME NEW k \in Package, k # Owner(s), NEW i \in 1..(item[s] - 1),
               LastDone(s, k, i), Settled(s, k, plan[s][i])
        PROVE  LastDone(s, k, i)' /\ Settled(s, k, plan[s][i])'
    <2>1. \A j \in 1..item[s] : PackageOf[plan[s][j]] = k => j \in 1..(item[s] - 1)
      BY <1>1, <1>8 DEF Owner, Item
    <2>2. LastDone(s, k, i)'
      BY <1>1, <1>2, <1>8, <2>1 DEF LastDone
    <2>3. Settled(s, k, plan[s][i])'
      BY <1>2, <1>4, <1>8 DEF Settled
    <2> QED BY <2>2, <2>3
  <1>9. Progress(s)'
    <2> SUFFICES ASSUME NEW k \in Package
                 PROVE  (NotYet(s, k) \/ \E i \in 1..(item[s] - 1) : LastDone(s, k, i) /\ Settled(s, k, plan[s][i]))'
      BY DEF Progress
    <2>1. CASE k = Owner(s)
      <3>1. n \in 1..(item'[s] - 1) /\ plan'[s][n] = v
        BY <1>2, <1>5 DEF Item
      <3>2. k = o
        BY <1>5, <2>1
      <3> QED BY <1>6, <3>1, <3>2
    <2>2. CASE k # Owner(s)
      <3>1. 1..(item[s] - 1) \subseteq 1..(item'[s] - 1)
        BY <1>1, <1>2
      <3> QED BY <1>3, <1>7, <1>8, <2>2, <3>1 DEF Progress
    <2> QED BY <2>1, <2>2
  <1> QED BY <1>1, <1>2, <1>3, <1>9 DEF OnCourse, Resting, Extracting

\* A sync that has installed its plan saves what it has recorded.
LEMMA SaveOnCourse ==
  ASSUME SerialInv, NEW s \in Session, SaveTemp(s)
  PROVE  OnCourse(s)'
PROOF
  <1>0. TypeInv
    BY DEF SerialInv, ApartInv, SafeInv
  <1>1. /\ UNCHANGED <<disk, removed, manifest>>
        /\ plan'[s] = plan[s] /\ item'[s] = item[s] /\ current'[s] = current[s]
        /\ pc[s] = "item" /\ pc'[s] = "commit" /\ saveTemp' = current[s] /\ ~ ItemsLeft(s)
    BY <1>0 DEF SaveTemp, Goto, TypeInv, TypeOK, fileVars, localVars, history
  <1>2. Progress(s)' /\ item'[s] <= Len(plan'[s]) + 1
    BY <1>1, PassOnCourse DEF Working, Running, Resting
  <1> QED BY <1>1, <1>2 DEF OnCourse, Resting, Extracting, ItemsLeft

\* A crash ends every sync, and the outside actors change files that are
\* exempt from then on.
LEMMA OutsideOnCourse ==
  ASSUME SerialInv, Crash \/ Outside, NEW s \in Session
  PROVE  OnCourse(s)'
PROOF
  <1>0. TypeInv /\ OnCourse(s)
    BY DEF SerialInv, ApartInv, SafeInv
  <1>1. CASE Crash
    BY <1>1 DEF Crash, OnCourse, Running, Resting, Extracting
  <1>2. CASE Outside
    <2>1. UNCHANGED <<storeVars, pc, localVars>>
      BY <1>2 DEF Outside, OutsideWrite, OutsideDelete
    <2>2. \A v : \A p \in Path : Intact(p, v) => Intact(p, v)'
      BY <1>0, <1>2 DEF Outside, OutsideWrite, OutsideDelete, Intact, TypeInv, TypeOK
    <2>3. /\ Item(s)' = Item(s) /\ Owner(s)' = Owner(s) /\ Working(s)' = Working(s)
          /\ Running(s)' = Running(s) /\ Extracting(s)' = Extracting(s) /\ ItemsLeft(s)' = ItemsLeft(s)
      BY <2>1 DEF localVars, Item, Owner, Working, Running, Extracting, ItemsLeft
    <2>4. ASSUME Running(s) PROVE Progress(s)'
      <3>1. Progress(s) /\ item[s] \in Nat /\ Len(plan[s]) \in Nat /\ item[s] <= Len(plan[s]) + 1
            /\ plan[s] \in Seq(Version)
        BY <1>0, <2>4 DEF OnCourse, TypeInv, TypeOK
      <3>2. \A i \in 1..(item[s] - 1) : plan[s][i] \in Version
        BY <3>1
      <3>3. \A k \in Package : NotYet(s, k) => NotYet(s, k)'
        BY <2>1 DEF NotYet, localVars, storeVars
      <3>4. \A k, i : LastDone(s, k, i) => LastDone(s, k, i)'
        BY <2>1 DEF LastDone, localVars
      <3>5. \A k \in Package : \A v \in Version : Settled(s, k, v) => Settled(s, k, v)'
        BY <2>1, <2>2, <2>3, EntriesNamePaths DEF Settled, localVars
      <3> QED BY <2>1, <3>1, <3>2, <3>3, <3>4, <3>5 DEF Progress, localVars
    <2>5. ASSUME Extracting(s) PROVE Extracted(s)'
      <3>1. Extracted(s) /\ Item(s) \in Version
        BY <1>0, <2>5, CursorTypes DEF OnCourse, Extracting
      <3> QED BY <2>1, <2>2, <2>3, <3>1, EntriesNamePaths DEF Extracted, localVars
    <2> QED BY <1>0, <2>1, <2>3, <2>4, <2>5 DEF OnCourse, storeVars, localVars
  <1> QED BY <1>1, <1>2

\* Every step keeps all of it, as long as syncs follow one another.
LEMMA SerialInvInductive ==
  ASSUME SerialInv, [Next]_vars, OneAtATime, OneAtATime'
  PROVE  SerialInv'
PROOF
  <1>0. TypeInv /\ manifest # Partial /\ \A s \in Session : OnCourse(s)
    BY DEF SerialInv, ApartInv, SafeInv
  <1>1. ApartInv'
    BY ApartInvInductive, SerialIsApart DEF SerialInv, OneAtATime, WindowsApart, Running, InTheWindow, Resting
  <1>2. CASE \E s \in Session : Step(s)
    <2>1. PICK s \in Session : Step(s)
      BY <1>2
    <2>2. OnCourse(s)'
      BY <1>0, <2>1, FetchOnCourse, LookOnCourse, RenameOnCourse, UpsertOnCourse, SaveOnCourse, StopOnCourse
      DEF Step
    <2>3. manifest' # Partial
      <3>1. CASE Commit(s)
        BY <1>0, <3>1, EmptyIsManifest DEF Commit, OnCourse, TypeInv, TypeOK
      <3>2. CASE ~ Commit(s)
        BY <1>0, <2>1, <3>2
        DEF Step, storeVars, Begin, Download, DownloadFails, Copy, CopyFails, Open, OpenFails,
            Skip, RejectUnsafe, Refuse, Keep, Accept, CheckFails, WriteTemp, WriteFails, Rename,
            RenameFails, Upsert, NothingInstalled, SaveTemp, SaveFails, CommitFails
      <3> QED BY <3>1, <3>2
    <2> QED BY <1>1, <2>1, <2>2, <2>3, OneOnCourse DEF SerialInv
  <1>3. CASE Crash \/ Outside
    <2>1. manifest' = manifest
      BY <1>3 DEF Crash, Outside, OutsideWrite, OutsideDelete, storeVars
    <2> QED BY <1>0, <1>1, <1>3, <2>1, OutsideOnCourse DEF SerialInv
  <1>4. CASE UNCHANGED vars
    <2>1. ASSUME NEW s \in Session PROVE OnCourse(s)'
      <3>1. OnCourse(s)
        BY <1>0
      <3>2. /\ Item(s)' = Item(s) /\ Owner(s)' = Owner(s) /\ Working(s)' = Working(s)
            /\ Running(s)' = Running(s) /\ Extracting(s)' = Extracting(s) /\ ItemsLeft(s)' = ItemsLeft(s)
        BY <1>4 DEF vars, localVars, Item, Owner, Working, Running, Extracting, ItemsLeft
      <3>3. UNCHANGED <<disk, removed, manifest, saveTemp, pc, localVars>>
        BY <1>4 DEF vars, fileVars, storeVars, history
      <3>4. \A p, v : Intact(p, v)' <=> Intact(p, v)
        BY <3>3 DEF Intact
      <3>5. Progress(s) => Progress(s)'
        <4>1. \A k \in Package : NotYet(s, k) => NotYet(s, k)'
          BY <3>3 DEF NotYet, localVars
        <4>2. \A k, i : LastDone(s, k, i) => LastDone(s, k, i)'
          BY <3>3 DEF LastDone, localVars
        <4>3. \A k, v : Settled(s, k, v) => Settled(s, k, v)'
          BY <3>2, <3>3, <3>4 DEF Settled, localVars
        <4> QED BY <3>3, <4>1, <4>2, <4>3 DEF Progress, localVars
      <3>6. Extracted(s) => Extracted(s)'
        BY <3>2, <3>3, <3>4 DEF Extracted, localVars
      <3> QED BY <3>1, <3>2, <3>3, <3>5, <3>6 DEF OnCourse, localVars
    <2> QED BY <1>0, <1>1, <1>4, <2>1 DEF SerialInv, vars, storeVars
  <1> QED BY <1>2, <1>3, <1>4 DEF Next

\* A new server has no sync under way.
LEMMA SerialInvInit == Init => SerialInv
PROOF
  <1> SUFFICES ASSUME Init PROVE SerialInv
    OBVIOUS
  <1>1. manifest # Partial
    BY EmptyIsManifest DEF Init
  <1>2. \A s \in Session : OnCourse(s)
    BY DEF Init, OnCourse, Running, Resting, Extracting
  <1> QED BY <1>1, <1>2, ApartInvInit DEF SerialInv

\* The version a plan ends with for a package is the one listed last.
LEMMA LastIsLast ==
  ASSUME NEW p \in Seq(Version), NEW k, NEW i \in Positions(p, k), \A j \in Positions(p, k) : j <= i
  PROVE  LastVersion(p, k) = p[i]
PROOF
  <1>1. Positions(p, k) \subseteq Nat
    BY DEF Positions
  <1>2. \A n \in Positions(p, k) : (\A j \in Positions(p, k) : j <= n) => n = i
    BY <1>1
  <1>3. (CHOOSE n \in Positions(p, k) : \A j \in Positions(p, k) : j <= n) = i
    BY <1>2
  <1> QED BY <1>3 DEF LastVersion

\* A sync that is about to save has settled every package of its plan at the
\* version listed last, and has left the others as they were.
LEMMA CommitSettles ==
  ASSUME SerialInv, NEW s \in Session, pc[s] = "commit", NEW k \in Package
  PROVE  /\ Positions(plan[s], k) = {} => current[s][k].installed = manifest[k].installed
         /\ Positions(plan[s], k) # {} =>
              /\ LastVersion(plan[s], k) \in Version
              /\ Settled(s, k, LastVersion(plan[s], k))
PROOF
  <1>1. TypeInv /\ OnCourse(s)
    BY DEF SerialInv, ApartInv, SafeInv
  <1>2. /\ Progress(s) /\ item[s] = Len(plan[s]) + 1
        /\ plan[s] \in Seq(Version) /\ Len(plan[s]) \in Nat /\ DOMAIN plan[s] = 1..(item[s] - 1)
    BY <1>1 DEF OnCourse, Running, Resting, ItemsLeft, TypeInv, TypeOK
  <1>3. CASE NotYet(s, k)
    BY <1>2, <1>3 DEF NotYet, Positions
  <1>4. ASSUME NEW i \in 1..(item[s] - 1), LastDone(s, k, i), Settled(s, k, plan[s][i])
        PROVE  /\ Positions(plan[s], k) # {}
               /\ LastVersion(plan[s], k) \in Version
               /\ Settled(s, k, LastVersion(plan[s], k))
    <2>1. i \in Positions(plan[s], k) /\ \A j \in Positions(plan[s], k) : j <= i
      BY <1>2, <1>4 DEF Positions, LastDone
    <2>2. LastVersion(plan[s], k) = plan[s][i]
      BY <1>2, <2>1, LastIsLast
    <2>3. plan[s][i] \in Version
      BY <1>2
    <2> QED BY <1>4, <2>1, <2>2, <2>3
  <1> QED BY <1>2, <1>3, <1>4 DEF Progress

\* A session whose sync is saved has renamed the manifest into place.
LEMMA SavedByCommit ==
  ASSUME TypeInv, [Next]_vars, NEW s \in Session, pc[s] = "commit", pc'[s] = "done"
  PROVE  Commit(s)
PROOF
  <1>1. ASSUME NEW t \in Session, Step(t)
        PROVE  Commit(s)
    <2>1. t = s
      BY <1>1, OthersStay
    <2>2. ASSUME NEW result \in Resting, Return(s, result)
          PROVE  result = "done"
      BY <2>2, ReturnsEmpty
    <2> QED
      BY <1>1, <2>1, <2>2
      DEF Step, Resting, InEntry, Begin, Download, DownloadFails, Copy, CopyFails, Open, OpenFails,
          Skip, RejectUnsafe, Refuse, Keep, Accept, CheckFails, WriteTemp, WriteFails, Rename, RenameFails,
          Upsert, NothingInstalled, SaveTemp, SaveFails, CommitFails
  <1>2. ~ Crash
    BY DEF Crash
  <1>3. ~ Outside
    BY DEF Outside, OutsideWrite, OutsideDelete
  <1>4. ~ UNCHANGED vars
    BY DEF vars
  <1> QED BY <1>1, <1>2, <1>3, <1>4 DEF Next

\* When syncs follow one another, each that saves has installed its whole plan:
\* every package at the version listed last, every file of it recorded and in
\* place.  For any plan, any archives, any failures and crashes before.
THEOREM SavesMeanInstalled == Spec /\ []OneAtATime => SaveMeansInstalled
PROOF
  <1>1. ASSUME SerialInv, [Next]_vars
        PROVE  [\A s \in Session : pc[s] = "commit" /\ pc'[s] = "done" => InstalledAsPlanned(s)]_pc
    <2> SUFFICES ASSUME NEW s \in Session, pc[s] = "commit", pc'[s] = "done"
                 PROVE  InstalledAsPlanned(s)
      OBVIOUS
    <2>0. TypeInv /\ OnCourse(s)
      BY <1>1 DEF SerialInv, ApartInv, SafeInv
    <2>1. manifest' = current[s]
      BY <1>1, <2>0, SavedByCommit DEF Commit, OnCourse
    <2> SUFFICES ASSUME NEW i \in DOMAIN plan[s], NEW k, k = PackageOf[plan[s][i]],
                        NEW v, v = LastVersion(plan[s], k)
                 PROVE  /\ current[s][k].installed = v
                        /\ \A e \in {Archive[v][j] : j \in DOMAIN Archive[v]} :
                             e.kind = "file" =>
                               /\ \E r \in current[s][k].files : r.path = e.path
                               /\ e.path \in ConfigPath \cup removed \/ disk[e.path] \in {v, Foreign}
      BY <2>1 DEF InstalledAsPlanned
    <2>2. plan[s][i] \in Version /\ k \in Package
      BY <2>0, InputAssumption DEF TypeInv, TypeOK
    <2>3. Settled(s, k, v)
      BY <1>1, <2>2, CommitSettles DEF Positions
    <2>4. \A e \in {Archive[v][j] : j \in DOMAIN Archive[v]} : e.kind = "file" => e.path \in FilesOf(v)
      BY DEF FilesOf
    <2>5. ~ Working(s)
      BY DEF Working
    <2> QED BY <2>3, <2>4, <2>5 DEF Settled, Intact
  <1> QED BY <1>1, SerialInvInit, SerialInvInductive, PTL DEF Spec, SaveMeansInstalled

\* What the engine's variables are to the promise.
Status    == [s \in Session |-> IF pc[s] \in Resting THEN pc[s] ELSE "busy"]
Installed == [k \in Package |-> manifest[k].installed]

\* A session that goes from one place to another changes its own status only.
LEMMA StatusMoves ==
  ASSUME TypeInv, NEW s \in Session, NEW l, Goto(s, l)
  PROVE  Status' = [Status EXCEPT ![s] = IF l \in Resting THEN l ELSE "busy"]
PROOF BY DEF Goto, Status, TypeInv, TypeOK

\* Every step is a step of the promise, or none of its business.
LEMMA StepKeepsPromise ==
  ASSUME SerialInv, NEW s \in Session, Step(s)
  PROVE  \/ Promise!Start(s) \/ Promise!Succeed(s) \/ Promise!Fail(s)
         \/ UNCHANGED Promise!vars
PROOF
  <1>0. TypeInv /\ OnCourse(s) /\ manifest # Partial
    BY DEF SerialInv, ApartInv, SafeInv
  <1>1. CASE Begin(s)
    <2>1. /\ pc[s] \in Resting /\ Goto(s, "item") /\ manifest' = manifest
          /\ \E p \in Plans : plan' = [plan EXCEPT ![s] = p]
      BY <1>0, <1>1 DEF Begin, storeVars
    <2>2. Status' = [Status EXCEPT ![s] = "busy"]
      BY <1>0, <2>1, StatusMoves DEF Resting
    <2>3. Status[s] # "busy" /\ Installed' = Installed
      BY <2>1 DEF Status, Installed, Resting
    <2> QED BY <2>1, <2>2, <2>3 DEF Promise!Start, Status, Installed
  <1>2. CASE \/ DownloadFails(s) \/ CopyFails(s) \/ OpenFails(s)
             \/ RejectUnsafe(s) \/ Refuse(s) \/ CheckFails(s) \/ WriteFails(s) \/ RenameFails(s)
             \/ NothingInstalled(s) \/ SaveFails(s) \/ CommitFails(s)
    <2>1. pc[s] \notin Resting /\ Return(s, "failed") /\ manifest' = manifest
      BY <1>2
      DEF DownloadFails, CopyFails, OpenFails, RejectUnsafe, Refuse, CheckFails, WriteFails, RenameFails,
          NothingInstalled, SaveFails, CommitFails, storeVars, Resting, InEntry
    <2>2. Status' = [Status EXCEPT ![s] = "failed"] /\ plan' = [plan EXCEPT ![s] = <<>>]
      BY <1>0, <2>1, StatusMoves DEF Return, Resting
    <2>3. Status[s] = "busy" /\ Installed' = Installed
      BY <2>1 DEF Status, Installed
    <2> QED BY <2>2, <2>3 DEF Promise!Fail, Promise!End, Status, Installed
  <1>3. CASE Commit(s)
    <2>1. pc[s] = "commit" /\ Return(s, "done") /\ manifest' = current[s]
      BY <1>0, <1>3 DEF Commit, OnCourse
    <2>2. Status' = [Status EXCEPT ![s] = "done"] /\ plan' = [plan EXCEPT ![s] = <<>>]
      BY <1>0, <2>1, StatusMoves DEF Return, Resting
    <2>3. Status[s] = "busy"
      BY <2>1 DEF Status, Resting
    <2>4. ASSUME NEW k \in Package
          PROVE  manifest'[k].installed =
                   IF Positions(plan[s], k) = {} THEN Installed[k] ELSE LastVersion(plan[s], k)
      BY <2>1, CommitSettles DEF Settled, Installed
    <2>5. Installed' = Promise!AfterPlan(Installed, plan[s])
      BY <2>4 DEF Installed, Promise!AfterPlan, Promise!Positions, Positions, LastVersion
    <2> QED BY <2>2, <2>3, <2>5 DEF Promise!Succeed, Promise!End, Status, Installed
  <1>4. CASE \/ Download(s) \/ Copy(s) \/ Open(s) \/ Skip(s) \/ Keep(s) \/ Accept(s)
             \/ WriteTemp(s) \/ Rename(s) \/ Upsert(s) \/ SaveTemp(s)
    <2>1. /\ pc[s] \notin Resting /\ manifest' = manifest /\ plan' = plan
          /\ \E l \in Locations \ Resting : Goto(s, l)
      BY <1>4
      DEF Download, Copy, Open, Skip, Keep, Accept, WriteTemp, Rename, Upsert, SaveTemp, NextEntry,
          InEntry, storeVars, localVars, Resting, Locations
    <2>2. Status' = Status /\ Installed' = Installed
      BY <1>0, <2>1 DEF Goto, Status, Installed, TypeInv, TypeOK
    <2> QED BY <2>1, <2>2 DEF Promise!vars, Status, Installed
  <1> QED BY <1>1, <1>2, <1>3, <1>4 DEF Step

\* So is every step of the system, a crash being the end of every sync.
LEMMA NextKeepsPromise ==
  ASSUME SerialInv, [Next]_vars
  PROVE  [Promise!Next]_(Promise!vars)
PROOF
  <1>1. CASE \E s \in Session : Step(s)
    BY <1>1, StepKeepsPromise DEF Promise!Next
  <1>2. CASE Crash
    BY <1>2 DEF Crash, Promise!Next, Promise!Die, Resting
  <1>3. CASE Outside
    <2>1. UNCHANGED <<manifest, pc, plan>>
      BY <1>3 DEF Outside, OutsideWrite, OutsideDelete, storeVars, localVars
    <2> QED BY <2>1 DEF Promise!vars
  <1>4. CASE UNCHANGED vars
    BY <1>4 DEF vars, storeVars, localVars, Promise!vars
  <1> QED BY <1>1, <1>2, <1>3, <1>4 DEF Next

\* When syncs follow one another, Apply implements SyncPromise: a sync is one
\* step of the saved manifest, from what it was to what the plan makes of it, or
\* no step at all.
THEOREM SyncsAreAtomic == Spec /\ []OneAtATime => SyncIsAtomic
PROOF
  <1>1. Init => Promise!Init
    BY DEF Init, Promise!Init, EmptyManifest, Resting
  <1> QED
    BY <1>1, NextKeepsPromise, SerialInvInit, SerialInvInductive, PTL
    DEF Spec, SyncIsAtomic, Promise!Spec

\* A server that runs one session at a time, as the two runs of this promise
\* do, has syncs that follow one another.
LEMMA AloneFollows ==
  ASSUME \A s, t \in Session : s = t
  PROVE  Spec => []OneAtATime
PROOF
  <1>1. OneAtATime
    BY DEF OneAtATime
  <1> QED BY <1>1, PTL

\* With one session, Apply implements SyncPromise outright.
THEOREM AloneIsAtomic ==
  ASSUME \A s, t \in Session : s = t
  PROVE  Spec => SyncIsAtomic
PROOF BY AloneFollows, SyncsAreAtomic, PTL
===============================================================================
