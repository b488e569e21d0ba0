------------------------------- MODULE Inventory -------------------------------
(***************************************************************************)
(* Scanner.Scan (internal/inventory/scanner.go) beside the sync engine and *)
(* the outside actors of SyncEngine: what Rekja tells of the plugins       *)
(* directory while others change it.                                       *)
(*                                                                         *)
(* A scan loads the manifest, lists the directory, and hashes one file     *)
(* after another; nothing keeps syncs out meanwhile, and the temporary     *)
(* files of a sync are listed like any other.  The directory is flat: it   *)
(* is listed once.  The .rekja directory is skipped, so neither manifest   *)
(* nor staged archives are names here.                                     *)
(***************************************************************************)
EXTENDS SyncEngine

VARIABLES
  scan,       \* "idle", "list", "walk" or "answered"
  held,       \* the manifest the scan has loaded
  todo,       \* the names it has listed and not hashed
  drift,      \* snapshot.TrackedDrift
  untracked,  \* snapshot.UntrackedFiles
  whole,      \* the snapshot has its drift and its untracked files
  touched,    \* history: names that changed since the scan began
  meddled,    \* history: paths an outside actor has written
  stumbled    \* history: a sync has failed or was killed

scanVars == <<scan, held, todo, drift, untracked, whole>>
inventoryVars == <<vars, scanVars, touched, meddled, stumbled>>

-------------------------------------------------------------------------------
Name == Path \X {"file", "temp"}

Holds(n)   == IF n[2] = "file" THEN disk[n[1]] ELSE temp[n[1]]
Exists(n)  == Holds(n) # Absent

\* The records of n in the manifest the scan holds.  Where two packages
\* record one path, either may be the one that `managed` keeps.
RecordsOf(n) ==
  {r \in UNION {held[k].files : k \in Package} : n = <<r.path, "file">>}
Managed(n) == RecordsOf(n) # {}
Differs(n) == \E r \in RecordsOf(n) : r.sha # Holds(n)
Matches(n) == \E r \in RecordsOf(n) : r.sha = Holds(n)

Answer_WalksOn(d, u, w) ==
  /\ scan' = "answered"
  /\ drift' = d /\ untracked' = u /\ whole' = w
  /\ UNCHANGED todo

\* Scan returns a snapshot, and the walk is over.
Answer(d, u, w) ==
  /\ scan' = "answered"
  /\ drift' = d /\ untracked' = u /\ whole' = w
  /\ todo' = {}

ScanInit ==
  /\ scan = "idle" /\ held = EmptyManifest
  /\ todo = {} /\ drift = {} /\ untracked = {} /\ whole = FALSE

\* The manifest is loaded; one cut short is an error, and there is no snapshot.
ScanLoad ==
  /\ scan \in {"idle", "answered"}
  /\ IF manifest = Partial
     THEN scan' = "idle" /\ held' = EmptyManifest
     ELSE scan' = "list" /\ held' = manifest
  /\ todo' = {} /\ drift' = {} /\ untracked' = {} /\ whole' = FALSE
  /\ touched' = {}

ListFiles ==
  /\ scan = "list"
  /\ todo' = {n \in Name : Exists(n)}
  /\ scan' = "walk"
  /\ UNCHANGED <<held, drift, untracked, whole, touched>>

\* One file is hashed and compared with the record of it, if there is one.
HashFile(n) ==
  /\ scan = "walk" /\ n \in todo
  /\ Exists(n)
  /\ \/ /\ Managed(n) /\ Differs(n)
        /\ drift' = drift \cup {n} /\ UNCHANGED untracked
     \/ Managed(n) /\ Matches(n) /\ UNCHANGED <<drift, untracked>>
     \/ /\ ~ Managed(n)
        /\ untracked' = untracked \cup {n} /\ UNCHANGED drift
  /\ todo' = todo \ {n}
  /\ UNCHANGED <<scan, held, whole, touched>>

\* A listed file is gone: the walk ends, and Scan answers with the manifest
\* alone as it would for a plugins directory that does not exist.
FileVanished(n) ==
  /\ scan = "walk" /\ n \in todo
  /\ ~ Exists(n)
  /\ Answer({}, {}, FALSE)
  /\ UNCHANGED <<held, touched>>

FinishScan_Early ==
  /\ scan = "walk"
  /\ Answer(drift, untracked, TRUE)
  /\ UNCHANGED <<held, touched>>

FinishScan ==
  /\ scan = "walk" /\ todo = {}
  /\ Answer(drift, untracked, TRUE)
  /\ UNCHANGED <<held, touched>>

\* A directory cannot be read or a file not be hashed: an error, no snapshot.
ScanFails ==
  /\ scan \in {"list", "walk"}
  /\ scan' = "idle"
  /\ todo' = {} /\ drift' = {} /\ untracked' = {}
  /\ UNCHANGED <<held, whole, touched>>

-------------------------------------------------------------------------------
Scanning ==
  /\ \/ ScanLoad \/ ListFiles \/ FinishScan \/ ScanFails
     \/ \E n \in Name : HashFile(n) \/ FileVanished(n)
  /\ UNCHANGED <<vars, meddled, stumbled>>

\* A step of a sync, of the sidecar or of an outside actor.
World ==
  /\ Next
  /\ touched' = touched \cup {n \in Name : Holds(n)' # Holds(n)}
  /\ meddled' = meddled \cup {p \in Path : disk[p] # Foreign /\ disk'[p] = Foreign}
  /\ stumbled' = (stumbled \/ \E s \in Session :
                    pc'[s] # pc[s] /\ pc'[s] \in {"failed", "idle"})
  /\ UNCHANGED scanVars

InventoryInit == Init /\ ScanInit /\ touched = {} /\ meddled = {} /\ stumbled = FALSE

InventoryNext == Scanning \/ World

InventorySpec == InventoryInit /\ [][InventoryNext]_inventoryVars

-------------------------------------------------------------------------------
(* Properties.                                                             *)

\* Every variable of the scan has its type, and a scan that is at its
\* beginning or its end has nothing left to hash.
ScanTypeOK ==
  /\ scan \in {"idle", "list", "walk", "answered"}
  /\ held \in Manifest
  /\ todo \subseteq Name /\ drift \subseteq Name /\ untracked \subseteq Name
  /\ whole \in BOOLEAN
  /\ todo # {} => scan = "walk"
  /\ touched \subseteq Name /\ meddled \subseteq Path /\ stumbled \in BOOLEAN

\* Whatever syncs and people do during a scan, a snapshot is right about every
\* file nobody has touched: it is listed as untracked exactly if no record
\* names it, and as drifted exactly if it differs.  The snapshot that hides
\* all of them (scanner.go:83-86) is made only if some file went away meanwhile.
UntouchedAreRight ==
  scan = "answered" =>
    /\ ~ whole => touched # {}
    /\ whole => \A n \in Name \ touched :
         /\ n \in untracked <=> Exists(n) /\ ~ Managed(n)
         /\ n \in drift => Exists(n) /\ Differs(n)
         /\ Exists(n) /\ Managed(n) /\ n \notin drift => Matches(n)

\* A sync records what it leaves on disk: as long as no sync has failed, a
\* scan beside resting syncs shows drift only in files that somebody outside
\* has changed or deleted (README.md:389, "drift detection").
DriftIsSomebodys ==
  /\ scan = "answered" /\ held = manifest
  /\ ~ stumbled /\ \A s \in Session : pc[s] \in Resting
  => \A n \in drift \ touched : n[1] \in meddled \cup removed
===============================================================================
