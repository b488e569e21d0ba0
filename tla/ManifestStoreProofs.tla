-------------------------- MODULE ManifestStoreProofs --------------------------
(***************************************************************************)
(* Proofs about ManifestStore, for any number of clients, packages and     *)
(* operations.  The invariant Quiet says what an operation that runs alone *)
(* can count on; Writing says who mends a file that does not decode.       *)
(***************************************************************************)
EXTENDS ManifestStore, TLAPS

\* What an operation asks for names a package, and a sync a release.
LEMMA OpsAreTyped ==
  ASSUME NEW o \in Ops
  PROVE  /\ o.kind \in {"track", "untrack", "sync"} /\ o.mod \in Mod
         /\ o.release \in Release \cup {Latest}
         /\ o.kind = "sync" => o.release \in Release
BY StoreAssumption DEF Op

\* Every operation makes a manifest from a manifest.
LEMMA ChangeIsManifest ==
  ASSUME NEW m \in Manifest, NEW o \in Ops
  PROVE  Change(m, o) \in Manifest
<1>1. o.mod \in Mod /\ o.release \in Release \cup {Latest}
      /\ o.kind \in {"track", "untrack", "sync"} /\ (o.kind = "sync" => o.release \in Release)
  BY OpsAreTyped
<1>2. m[o.mod] \in Entry \cup {None} /\ m \in [Mod -> Entry \cup {None}]
  BY <1>1 DEF Manifest
<1> DEFINE Kept  == IF m[o.mod] = None THEN None ELSE m[o.mod].installed
           Asked == IF m[o.mod] = None THEN Latest ELSE m[o.mod].desired
<1>3. Kept \in Release \cup {None} /\ Asked \in Release \cup {Latest}
  BY <1>2 DEF Entry
<1>4. [desired |-> o.release, installed |-> Kept] \in Entry
  BY <1>1, <1>3 DEF Entry
<1>5. CASE o.kind = "track"
  <2>1. Change(m, o) = [m EXCEPT ![o.mod] = [desired |-> o.release, installed |-> Kept]]
    BY <1>5 DEF Change
  <2> HIDE DEF Kept
  <2> QED BY <1>2, <1>4, <2>1 DEF Manifest
<1>6. CASE o.kind = "untrack"
  BY <1>2, <1>6 DEF Manifest, Change
<1>7. CASE o.kind = "sync"
  <2>1. [desired |-> Asked, installed |-> o.release] \in Entry
    BY <1>1, <1>3, <1>7 DEF Entry
  <2>2. Change(m, o) = [m EXCEPT ![o.mod] = [desired |-> Asked, installed |-> o.release]]
    BY <1>7 DEF Change
  <2> HIDE DEF Asked
  <2> QED BY <1>2, <2>1, <2>2 DEF Manifest
<1> QED BY <1>1, <1>5, <1>6, <1>7

LEMMA EmptyIsManifest == Empty \in Manifest
BY DEF Empty, Manifest

-------------------------------------------------------------------------------
\* Every variable keeps its type: whatever clients do to the two files, each
\* holds a manifest or is visibly absent or torn.
THEOREM TypeCorrect == Spec => []TypeOK
<1>1. Init => TypeOK
  <2> SUFFICES ASSUME Init PROVE TypeOK OBVIOUS
  <2>1. (CHOOSE o \in Ops : TRUE) \in Ops
    BY StoreAssumption
  <2> QED BY <2>1, EmptyIsManifest DEF Init, TypeOK, Resting
<1>2. TypeOK /\ [Next]_vars => TypeOK'
  <2> SUFFICES ASSUME TypeOK, [Next]_vars PROVE TypeOK' OBVIOUS
  <2> USE EmptyIsManifest, StoreAssumption DEF TypeOK, Resting, Goto, Return, files, history
  <2>1. ASSUME NEW c \in Client, Begin(c) PROVE TypeOK'
    BY <2>1 DEF Begin, Active
  <2>2. ASSUME NEW c \in Client, Load(c) PROVE TypeOK'
    <3>1. Decoded(installed) \in Manifest /\ op[c] \in Ops
      BY <2>2 DEF Load, Decoded
    <3>2. Change(Decoded(installed), op[c]) \in Manifest
      BY <3>1, ChangeIsManifest
    <3> HIDE DEF Goto
    <3>3. value' \in [Client -> Manifest]
      BY <2>2, <3>2 DEF Load
    <3> QED BY <2>2, <3>3 DEF Load, Goto
  <2>3. ASSUME NEW c \in Client, LoadFails(c) PROVE TypeOK'
    BY <2>3 DEF LoadFails
  <2>4. ASSUME NEW c \in Client, OpenTemp(c) PROVE TypeOK'
    BY <2>4 DEF OpenTemp
  <2>5. ASSUME NEW c \in Client, OpenFails(c) PROVE TypeOK'
    BY <2>5 DEF OpenFails
  <2>6. ASSUME NEW c \in Client, Write(c) PROVE TypeOK'
    BY <2>6 DEF Write, Put
  <2>7. ASSUME NEW c \in Client, WriteFails(c) PROVE TypeOK'
    BY <2>7 DEF WriteFails, Put
  <2>8. ASSUME NEW c \in Client, Rename(c) PROVE TypeOK'
    BY <2>8 DEF Rename
  <2>9. ASSUME NEW c \in Client, RenameFails(c) PROVE TypeOK'
    BY <2>9 DEF RenameFails
  <2>10. ASSUME NEW c \in Client, Crash(c) PROVE TypeOK'
    BY <2>10 DEF Crash, Put, Active
  <2>11. CASE UNCHANGED vars
    BY <2>11 DEF vars
  <2> QED BY <2>1, <2>2, <2>3, <2>4, <2>5, <2>6, <2>7, <2>8, <2>9, <2>10, <2>11 DEF Next, Step
<1> QED BY <1>1, <1>2, PTL DEF Spec
-------------------------------------------------------------------------------
\* What an operation that runs alone can count on: nobody else is in progress,
\* the file it writes is the temporary one, what it is about to save is the
\* manifest that is still there with its change, and it renames what it wrote.
\* As long as no two operations have overlapped, each one runs alone.
Quiet ==
  /\ \A c \in Client : alone[c] =>
       /\ Active(c) /\ \A d \in Client : d # c => ~ Active(d)
       /\ pc[c] \in {"open", "write", "rename"} =>
            installed # Torn /\ value[c] = Change(Decoded(installed), op[c])
       /\ pc[c] = "write" => fd[c] = "temp"
       /\ pc[c] = "rename" => temp = value[c]
  /\ ~ overlapped => installed # Torn /\ \A c \in Client : Active(c) => alone[c]

LEMMA InitIsQuiet == Init => Quiet
BY StoreAssumption DEF Init, Quiet, Active, Resting

LEMMA StepIsQuiet == TypeOK /\ Quiet /\ [Next]_vars => Quiet'
<1> SUFFICES ASSUME TypeOK, Quiet, [Next]_vars PROVE Quiet' OBVIOUS
<1> USE StoreAssumption DEF TypeOK, Quiet, Active, Resting, Goto, Return, files, history
<1>1. ASSUME NEW c \in Client, Begin(c) PROVE Quiet'
  BY <1>1 DEF Begin
<1>2. ASSUME NEW c \in Client, Load(c) PROVE Quiet'
  BY <1>2 DEF Load
<1>3. ASSUME NEW c \in Client, LoadFails(c) PROVE Quiet'
  BY <1>3 DEF LoadFails
<1>4. ASSUME NEW c \in Client, OpenTemp(c) PROVE Quiet'
  BY <1>4 DEF OpenTemp
<1>5. ASSUME NEW c \in Client, OpenFails(c) PROVE Quiet'
  BY <1>5 DEF OpenFails
<1>6. ASSUME NEW c \in Client, Write(c) PROVE Quiet'
  BY <1>6 DEF Write, Put
<1>7. ASSUME NEW c \in Client, WriteFails(c) PROVE Quiet'
  BY <1>7 DEF WriteFails, Put
<1>8. ASSUME NEW c \in Client, Rename(c) PROVE Quiet'
  BY <1>8 DEF Rename
<1>9. ASSUME NEW c \in Client, RenameFails(c) PROVE Quiet'
  BY <1>9 DEF RenameFails
<1>10. ASSUME NEW c \in Client, Crash(c) PROVE Quiet'
  BY <1>10 DEF Crash, Put
<1>11. CASE UNCHANGED vars
  BY <1>11 DEF vars
<1> QED
  BY <1>1, <1>2, <1>3, <1>4, <1>5, <1>6, <1>7, <1>8, <1>9, <1>10, <1>11 DEF Next, Step

LEMMA AlwaysQuiet == Spec => []Quiet
BY InitIsQuiet, StepIsQuiet, TypeCorrect, PTL DEF Spec

\* However many operations fail or die, the manifest decodes as long as no two
\* have overlapped: the temporary file and the rename do what store.go:48 says.
THEOREM OneWriterNeverTears == Spec => []TornNeedsOverlap
<1>1. Quiet => TornNeedsOverlap
  BY DEF Quiet, TornNeedsOverlap
<1> QED BY <1>1, AlwaysQuiet, PTL

\* An operation that nobody overlaps is atomic: Load, change, Save is then one
\* change of the manifest, made by the rename that lets it answer "ok".
THEOREM AloneIsOneStep == Spec => AloneIsAtomic
<1>1. ASSUME TypeOK, Quiet, [Next]_vars, NEW c \in Client, alone[c], Active(c)
      PROVE  installed' = IF pc'[c] = "ok" THEN Change(Decoded(installed), op[c])
                          ELSE installed
  <2> USE <1>1, StoreAssumption DEF TypeOK, Quiet, Active, Resting, Goto, Return, files, history
  <2>1. ASSUME NEW d \in Client, d # c, Step(d), Begin(d)
        PROVE  installed' = installed /\ pc'[c] # "ok"
    BY <2>1 DEF Begin
  <2>2. ASSUME NEW d \in Client, d # c, Step(d), ~ Begin(d) PROVE FALSE
    BY <2>2 DEF Step, Load, LoadFails, OpenTemp, OpenFails, Write, WriteFails, Rename,
                RenameFails, Crash
  <2>3. CASE Rename(c)
    BY <2>3 DEF Rename
  <2>4. CASE Step(c) /\ ~ Rename(c)
    BY <2>4 DEF Step, Begin, Load, LoadFails, OpenTemp, OpenFails, Write, WriteFails, Put,
                RenameFails, Crash
  <2>5. CASE UNCHANGED vars
    BY <2>5 DEF vars
  <2> QED BY <2>1, <2>2, <2>3, <2>4, <2>5 DEF Next
<1>2. TypeOK /\ Quiet /\ [Next]_vars
      => [\A c \in Client : alone[c] /\ Active(c) =>
            installed' = IF pc'[c] = "ok" THEN Change(Decoded(installed), op[c])
                         ELSE installed]_vars
  BY <1>1
<1> QED BY <1>2, TypeCorrect, AlwaysQuiet, PTL DEF Spec, AloneIsAtomic

-------------------------------------------------------------------------------
\* While no call has failed, a file that does not decode is open in the hands
\* of a client that is going to write it; a rename moves the file and its
\* writers together.
Writing ==
  ~ faulted =>
    /\ temp = Torn => \E c \in Client : fd[c] = "temp"
    /\ installed = Torn => \E c \in Client : fd[c] = "installed"

LEMMA StepIsWriting == TypeOK /\ Writing /\ [Next]_vars => Writing'
<1> SUFFICES ASSUME TypeOK, Writing, [Next]_vars PROVE Writing' OBVIOUS
<1> USE StoreAssumption DEF TypeOK, Writing, Goto, Return, files, history
<1>1. ASSUME NEW c \in Client, pc[c] # "write", fd[c] = None,
             Begin(c) \/ Load(c) \/ LoadFails(c) \/ OpenFails(c) \/ RenameFails(c)
      PROVE  Writing'
  BY <1>1 DEF Begin, Load, LoadFails, OpenFails, RenameFails
<1>2. ASSUME NEW c \in Client, OpenTemp(c) PROVE Writing'
  BY <1>2 DEF OpenTemp
<1>3. ASSUME NEW c \in Client, Write(c) PROVE Writing'
  BY <1>3 DEF Write, Put
<1>4. ASSUME NEW c \in Client, Rename(c) PROVE Writing'
  BY <1>4 DEF Rename
<1>5. ASSUME NEW c \in Client, WriteFails(c) \/ Crash(c) PROVE Writing'
  BY <1>5 DEF WriteFails, Crash
<1>6. CASE UNCHANGED vars
  BY <1>6 DEF vars
<1>7. ASSUME NEW c \in Client,
             Begin(c) \/ Load(c) \/ LoadFails(c) \/ OpenFails(c) \/ RenameFails(c)
      PROVE  pc[c] # "write" /\ fd[c] = None
  BY <1>7 DEF Begin, Load, LoadFails, OpenFails, RenameFails, Active, Resting
<1> QED BY <1>1, <1>2, <1>3, <1>4, <1>5, <1>6, <1>7 DEF Next, Step

\* Overlap alone tears nothing for good: of the clients that share the file,
\* the last one to write completes it.
THEOREM TornIsMended == Spec => []TornIsBeingWritten
<1>1. Init => Writing
  BY StoreAssumption DEF Init, Writing
<1>2. Writing => TornIsBeingWritten
  BY DEF Writing, TornIsBeingWritten
<1> QED BY <1>1, <1>2, StepIsWriting, TypeCorrect, PTL DEF Spec

\* A torn manifest that nobody is writing stays torn: no operation gets past
\* its Load, so none can write a whole one over it.
THEOREM NoWayBack == Spec => TornIsForEver
<1>1. ASSUME TypeOK, [Next]_vars, Wedged PROVE Wedged'
  <2> USE <1>1, StoreAssumption DEF TypeOK, Wedged, Resting, Active, Goto, Return, files, history
  <2>1. ASSUME NEW c \in Client, Begin(c) PROVE Wedged'
    BY <2>1 DEF Begin
  <2>2. ASSUME NEW c \in Client, LoadFails(c) PROVE Wedged'
    BY <2>2 DEF LoadFails
  <2>3. ASSUME NEW c \in Client, Crash(c) PROVE Wedged'
    BY <2>3 DEF Crash, Put
  <2>4. ASSUME NEW c \in Client, Step(c), ~ Begin(c), ~ LoadFails(c), ~ Crash(c) PROVE FALSE
    BY <2>4 DEF Step, Load, OpenTemp, OpenFails, Write, WriteFails, Rename, RenameFails
  <2>5. CASE UNCHANGED vars
    BY <2>5 DEF vars
  <2> QED BY <2>1, <2>2, <2>3, <2>4, <2>5 DEF Next
<1>2. TypeOK /\ [Next]_vars => [Wedged => Wedged']_vars
  BY <1>1
<1> QED BY <1>2, TypeCorrect, PTL DEF Spec, TornIsForEver
===============================================================================
