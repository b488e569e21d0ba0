# Verification of Rekja

Rekja installs Thunderstore mods on a Valheim server.  A terminal UI talks over
gRPC to a sidecar that runs beside the game server, and the sidecar resolves,
downloads and installs packages into the plugins directory of the server and
records what it installed in `installed.json`.  This directory holds TLA+ models
of that code, the TLC configurations that check them and proofs for TLAPS.
Paths below are relative to `src/`.

* [The system](#the-system) - components, state, operations, hard behaviours
* [The modules](#the-modules) - what models what, and how
* [The runs](#the-runs) - what each one checks, with which bounds
* [Disagreements found](#disagreements-found)
* [The proofs](#the-proofs)
* [What is left out](#what-is-left-out) and [the plan](#the-plan)

## The system

| Component | Where | State it keeps | Operations |
|---|---|---|---|
| Sync engine | `internal/sync/engine.go` | none of its own; works on the plugins directory, staged archives, `*.rekja-tmp` files | `Apply`: per package download, extract with ownership checks, update the private manifest; one save at the end |
| Manifest store | `internal/manifest`, `internal/inventory/store.go` | `installed.json`, `installed.json.tmp` | `Load`, `Save` (write beside, rename) |
| Inventory scanner | `internal/inventory/scanner.go` | none | `Scan`: walk, hash, compare with the manifest |
| Resolver | `internal/resolve/resolver.go` | the plan being built, the packages seen | `Resolve`, recursive over dependencies |
| Thunderstore client | `internal/thunderstore` | none | `FetchIndex`, `OpenDownload`; `CompareVersions`, `LatestActive`, `FindVersion`, `ParseDependency` |
| App service | `internal/app/service.go` | none | `LoadState`, `BuildSyncPlan`, `ApplySync`, `TrackMod`, `UntrackMod`, `RestartServer`, `Logs` |
| Sidecar server | `cmd/sidecar` | one event channel per sync | `LoadState`, `StartSync` (a stream), `Restart`, `Logs` |
| gRPC client | `internal/grpcclient/client.go` | one goroutine per sync | the same operations, from the UI's side |
| Terminal UI | `internal/tui/model.go` | the loaded state, the plan shown, the channel it listens to | `Update` on keys and messages; commands run as goroutines |
| Kubernetes client | `internal/kube/client.go` | none | `ResolveTarget`, `Restart`, `Logs` |
| Configuration, command line | `internal/config`, `cmd/main.go` | read once at start | |

How they interact.  Pressing "s" makes `startSync` (UI) call `ApplySync`, which
for a remote server is the client's `StartSync`; it sends no plan and no roots.
The server's `StartSync` loads the manifest, fetches the index, resolves the
tracked packages and starts `Engine.Apply` in a goroutine.  `Apply` reports into
a channel of 64 places, the handler forwards every event to the gRPC stream,
the client's goroutine forwards them to an unbuffered channel, a
`waitForSyncEvent` command takes one and hands it to `Update`.  Without a sidecar
`cmd/main.go` puts a local client in its place, whose `StartSync` applies an empty
plan.

`LoadState`, `BuildSyncPlan`, `TrackMod` and `UntrackMod` of the UI work on a manifest
of the program's own, `.rekja/installed.json` *beside* the plugins directory
(`config.go` 131-138); the sidecar's is `.rekja/installed.json` *inside* it
(`server.go` 47).  Writers of one manifest are therefore the concurrent commands
of one UI, the UIs that share a disk, or the syncs of a sidecar; none takes a
lock.

Which behaviours are hard, and what makes each part correct:

* **Sync engine.**  Syncs overlap (no lock) and share the staged archive, the
  `.rekja-tmp` names and the manifest.  Every file operation may fail, the
  sidecar may die between any two, and the manifest is saved once, at the end.
  People and the game server write to the same directory.  Correct means: the
  manifest names files that exist and gives each to one package; no
  half-written file shows up; configs and other people's files survive; a sync
  that saves has installed its plan; one that fails changes nothing in the
  manifest.
* **Manifest store.**  Load-change-save by several writers, one temporary name.
  Correct means: an operation by itself is atomic, whatever failed before it, and
  the manifest always decodes.
* **Rounds of syncs.**  Every sync turns the dependencies it installs into tracked
  packages, so one plan shapes the next; packages are untracked and tracked
  again, files appear and disappear from archives.  Correct means: one owner per
  file, no file without an owner except where that is intended, and a sync that
  went well can be repeated.
* **Resolver.**  Cycles, diamonds, packages that are root and dependency; the
  first selection wins.  Correct means: it ends, lists each dependency once,
  forgets none, invents none, and warns when it selected an older version.
* **Versions.**  Numeric, not textual, order; numbers that do not parse;
  inactive versions; equal numbers.
* **Sync stream.**  Five queues and goroutines between engine and screen, a
  connection that may break, a UI that stops listening.  Correct means: what
  the UI hears is what was reported, in order; a sync ends even if nobody
  listens; a waiting UI is answered; "sync complete" is true.
* **Terminal UI.**  Results of commands arrive in any order; the state, the plan
  and the list may be of different ages.  Correct means: the screen comes to show
  the manifest, a key acts on what was selected, the spinner stops.
* **Scanner.**  It walks a directory that a sync is changing.  Correct means: what
  it says of a file nobody touched is right.

The list of hazards, each at its line and with the properties that cover it, is
in `PROJECT.json`.

## The modules

| Module | Models | Uses |
|---|---|---|
| `SyncEngine` | `Engine.Apply` with disk, temporary files, archives, manifest, overlapping runs, failures, crashes, outside writers | |
| `SyncPromise` | what `Apply` promises its caller (abstract) | |
| `MCSyncEngine` | small packages and plans for TLC | `SyncEngine` |
| `SyncEngineProofs` | theorems | `SyncEngine` |
| `Versions` | version numbers, `CompareVersions`, what `LatestActive` and `FindVersion` select (pure) | |
| `LatestActive` | the loop of `LatestActive` | `Versions` |
| `MCLatestActive`, `LatestActiveProofs` | instance; theorems | `LatestActive` |
| `Resolver` | `Resolve` and `resolveDependencies`, the recursion as a stack | `Versions` |
| `MCResolver`, `ResolverProofs` | dependency graphs for TLC; theorems | `Resolver` |
| `SyncStream` | the way of the events from `Apply` to the screen | |
| `MCSyncStream`, `SyncStreamProofs` | two settings for TLC; theorems | `SyncStream` |
| `ManifestStore` | `Store.Load` and `Store.Save`, call by call, under `TrackMod`, `UntrackMod` and a sync | |
| `MCManifestStore`, `ManifestStoreProofs` | instance; theorems | `ManifestStore` |
| `Inventory`, `MCInventory` | `Scanner.Scan` beside the engine and outside actors; instance | `SyncEngine` |
| `InventoryProofs` | theorems, on top of the engine's | `Inventory`, `SyncEngineProofs` |
| `SyncRounds` | publish, track, untrack, resolve, apply, save, again and again | |
| `MCSyncRounds`, `SyncRoundsProofs` | instance; theorems | `SyncRounds` |
| `Tui` | `Model.Update`, its keys, commands and messages, over the app service | |
| `MCTui`, `TuiProofs` | instance; theorems | `Tui` |

### SyncEngine

A *session* is one run of `Apply`.  `pc[s]` says where it is, and each action is
the code between two points where another session can interfere (a file
operation):

| Action | Code (`engine.go` unless named) |
|---|---|
| `Begin` | `Load` the manifest into `current` (56), take the plan |
| `Download`, `Copy` | create and truncate the staged archive, fill it (90-112) |
| `Open` | open it as a zip (126) |
| `Skip`, `RejectUnsafe` | directories, metadata; paths that leave the directory (135-146) |
| `Refuse`, `Keep`, `Accept` | `Stat`, ownership check, config kept (150-175) |
| `WriteTemp`, `Rename` | `writeZipFile` (211-234) and the record made after it (176-184) |
| `Upsert`, `NothingInstalled` | `upsertManifest` (251-283); an archive without a file is an error |
| `SaveTemp`, `Commit` | `Store.Save` (`store.go` 49-72) |
| `...Fails` | the error return of each, with what it leaves behind |
| `Crash` | the sidecar dies: sessions are lost, files stay |
| `OutsideWrite`, `OutsideDelete` | people and the game server |

Abstractions.  The content of a file is the name of the version whose archive
it came from, so equal content means equal hash; `Foreign` is anybody else's
content, `Partial` a cut file.  `manifest` is the decoded `installed.json`, or
`Partial` when it does not decode, and then `Load` fails.  The order of
`Tracked` matters only when two records name one file: `fileOwnership` keeps the
last, and the model lets either win (`MayReplace`, `MayRefuse`).  Writing a
temporary file is one step that leaves it whole, or fails and leaves it cut.
Cancellation does not occur: the sidecar passes `context.Background()`.
Paths are compared after normalisation; how `cleanArchivePath` normalises is
not modelled, only that an unsafe path is rejected.  A staged archive is named
after its session while it is filled, so a session that opens an archive
another one is filling fails.

Two history variables weaken properties where the code cannot know better:
`removed` (paths somebody deleted) and `raced` (paths somebody wrote between a
session's check and its rename).

`SyncPromise` has three variables: the installed versions, the status of each
sync and its plan.  `SyncIsAtomic` says that `SyncEngine` implements it when
`installed` is what the manifest on disk says and everything between `Begin` and
the end is "busy": all the engine's steps are stutters except the one that
saves.

### Versions, LatestActive, Resolver

A version number is the sequence of its parts.  `Versions` defines what the
selection functions return (`IsLatest`, `IsListed`); `LatestActive` is the loop
that computes it, checked and proved against that definition, and `Resolver` uses
the definition.  `Resolver` models the recursion of `resolveDependencies` with a
stack of `[item, at]`, one frame per call, `at` being the position in the range
loop: taking a dependency pushes, the end of the list pops.  `seen`, `planRoots`,
`planDeps` and `warned` are the code's `seen` and the fields of the plan; a
warning is who declared what.  Every error empties the plan, as
`return Plan{}, err` does.

### SyncStream

One variable per stage: `apply`, `sent` (history) and `channel` for the engine,
`handler` and `sending` for the server's loop, `wire` and `link` for gRPC, `client`
and `forwarding` for the client goroutine, `wait` for the `waitForSyncEvent`
commands, `listening` for `m.syncEvents`.  The unbuffered channel is a joint step of
client and command (`Hear`); the message of the command reaches `Update` later.
History: `taken` is what commands took from the channel of a sync, `heard` what
`Update` has processed of it, `shared` the syncs that a command of another press
came to wait on.  gRPC is external: it takes up to
`Window` messages ahead of the reader, keeps their order, and may break, losing a
suffix.  What the code does to the disk is in `SyncEngine`; here `Apply` only
reports `downloading`, `extracting`, `installed` per package, or `failed`, and saves.

Two details of `Update` that matter: an event with `Done` or an error clears
`m.syncEvents`, whichever sync it came from, and an event of an older sync makes
the UI wait once more on the *current* channel.

`setting` says how often "s" is pressed, how much the channel and the connection hold
and whether the connection may break; it never changes.

### ManifestStore

A *client* is one operation at a time: `Load`, then the change in memory (`Change`),
then `OpenTemp` (`O_TRUNC`: it empties the temporary file of whoever is writing it),
`Write` (encode and close) and `Rename`.  `fd[c]` is the file a client has open, and a
rename by another client moves it: from `temp` to `installed` (it now writes the
manifest itself), from `installed` to `unlinked` (nobody sees what it writes).  A
manifest here is which packages are tracked and at which versions; `Torn` is a
file that does not decode.  `Encode` hands the file one write; of two writes to one
file from its start the later one is what the decoder reads, as it stops at the
end of the first value.

### Inventory

`Inventory` extends `SyncEngine` and adds one scan to its steps (`World` is any of
them): `ScanLoad`, `ListFiles`, `HashFile` one name at a time, and the three ends,
`FinishScan`, `FileVanished` and `ScanFails`.  Names are the files *and* the temporary
files of the engine, which the walk does not skip.  `WalkDir` reads a directory
once and then visits its entries; a subdirectory, read later, would be listed later.
The order of the walk is left open.

### SyncRounds

A step is one package of one sync, so that sequences of syncs over years stay small.
`IsPlan` accepts the plans that `ResolverProofs` shows `Resolve` to make: closed,
one version of each dependency, each required by something before it.  Which one
it is depends on the order of the roots, and so may whether there is one: a
version that nothing in the index answers is met in one order and not in
another.  `StartSync` therefore takes any plan there is, and fails only if a
root is not found or there is none (`Unresolvable`).
`Install` is `extractPackage` and `upsertManifest` of one package, `Fail` leaves any part
of a package's files, `Save` the manifest.  `loose` is history: the files that lost
their record by an untrack, an update or a failed sync.  `Updates` is what the
sidecar's `LoadState` lists.  Syncs do not overlap here; `SyncEngine` covers that.

### Tui

`cmd[s]` is a command in flight: `run` (nothing done yet), `read` (it has loaded the
manifest) or `done` (its message waits for `Update`).  Keys are `Press...` and `Move`,
messages `Loaded`, `NotLoaded`, `PlanBuilt`, `SyncEnds`, `Output`, `TrackChanged`, each a
case of `Update` with every assignment it makes.  A manifest, a state and a plan are
the list of packages they are about; a list whose plan is what `Resolve` makes of it
either resolves or not.  `here` is the program's manifest, `there` the sidecar's.
`indexed` says that some state was loaded: before that `BuildSyncPlan` resolves against
no packages and fails, whatever the configuration lists (`Planned`), so that "s" can
only show the error (`PressSFails`).  A cursor beyond a shorter list may be brought back
by the list widget, which is a library: `Loaded` leaves it anywhere up to where it was.
History: `rev` numbers the contents of `here`, from 1 on, and each load carries the
number it has seen, which tells an old answer from a new one; `viewed` says that "p"
has brought a plan to the screen.

## The runs

| Run | Bounds | States | Shows |
|---|---|---|---|
| `engine_faults` | 1 session, 3 paths, plans of up to 2 packages with update, downgrade, root-that-is-a-dependency and a rejected archive; every operation may fail, crashes, others write the config; files of others at the start | 3,846,000 | `TypeOK`, `NoPartialFile`, `BytesStayInPackage`, `SaveMeansInstalled`, `SyncIsAtomic`, `ConfigNeverOverwritten`, `UntrackedBlocksOverwrite` |
| `engine_overlap` | 2 sessions (symmetric), each installing B1, C2 or C1, which has no file; B1 and C2 share a file, which others may delete; crashes | 4,618,000 | `RecordedFilesExist`, `UniqueOwner` |
| `latest_active` | every package of up to 3 versions over 6 numbers | 8,500 | `AnswerIsRight` |
| `resolver` | 1,024 graphs of 3 packages of 2 versions, 4 broken ones, 6 lists of roots | 62,000 | `TypeOK`, `OncePerPackage`, `Closed`, `Justified`, `OlderIsWarned`, `Ends` |
| `stream` | 3 packages; either 1 press, roomy channel, connection refused or broken anywhere, or up to 2 presses, channel and connection of 1, connection sound | 222,000 | `TypeOK`, `HeardInOrder`, `CompleteMeansEnded`, `ApplyEnds`, `WaitsEnd`, `EndsUnlessUnheard` |
| `store` | 3 clients (symmetric), 1 package; track, untrack, sync; every call may fail, any client may die | 230,000 | `TypeOK`, `TornNeedsOverlap`, `TornIsBeingWritten`, `AloneIsAtomic`, `TornIsForEver` |
| `inventory` | 1 sync of A1, A2 or A1 and B1, 2 paths, one written and one deleted by others; a scan at any time | 1,405,000 | `ScanTypeOK`, `UntouchedAreRight`, `DriftIsSomebodys` |
| `rounds` | 3 packages of 2 releases, 4 files, any number of rounds | 197,000 | `TypeOK`, `Accounted`, `OneOwner`, `UpdatesExplained`, `ResolvesAgain`, `RefusedOverContested` |
| `tui` | 3 packages, 2 keys that start a command beside the first load, any number of moves, with and without a sidecar; any command may fail | 389,000 | `TypeOK`, `StaleOnlyIfOvertaken`, `OnlySelectedGo`, `LoadingEnds` |
| `owned_after_failure`, `owned_after_overlap`, `plan_applied` | | | violated, see below |

Nothing in the engine, the store and the rounds is bounded but their constants:
sessions, clients and rounds start again for ever, so long sequences are covered.

Why the bounds are enough.  *Engine*: A's second version adds a file that B also
ships, which gives update, dropped file, conflict between packages and, with
the plan `<<A2, A1>>`, the downgrade a resolved plan can contain.  Two sessions suffice
for one to truncate the archive another reads, to rename its temporary file away, to
install over a file it has checked and to save over its manifest; the failures that
follow come from the overlap itself, so `engine_overlap` adds only crashes.  The
same holds for any number of sessions by theorem (`RecordsAreReal`, `OwnersAreUnique`).
*Resolver*: three packages give self-loops, 2-cycles, 3-cycles and diamonds; two
versions of each give conflicting requirements in both orders; 1.9.0 and 1.10.0 tell
numeric from textual order.  *Stream*: after the first `Done` three packages still have six
events, more than the four that client, connection, handler and channel can hold, so
that one press is enough for a sync to hang, and the run reaches that.  A channel
smaller than the plan stands for 64 places and a plan of more than 21 packages (three
events each and one for a failure), a larger one for any smaller plan.  *Store*: a third client is needed for a writer whose file is renamed under it
by one client and replaced by another; packages do not interact, so one is enough.
*Inventory*: a file recorded, one recorded and preserved, one of other people, one that
comes and one that goes.  *Rounds*: A needs an old release of B, two packages ship one
file, one version number does not parse, and B 2 and C 1 need each other, so that
a plan may or may not meet the newest B: each way in which a second round
differs from the first.  *Tui*: the first load and two keys, each with the load that
follows it, make loads that overtake each other; with three slots nothing waits
for a place that the program would not have.

Fairness.  `SyncEngine`, `LatestActive`, `ManifestStore`, `Inventory`, `SyncRounds`: none, only
safety is claimed.  `Resolver`: weak fairness of the next step, since `Resolve` is
sequential and never waits.  `SyncStream`: weak fairness of each goroutine (engine,
handler, client, commands) and of `Update`; the Go scheduler runs goroutines that can
run and the UI's event loop takes the messages it has.  No fairness of the user or of
the connection's failure.  A connection that is up delivers; one that goes silent
without breaking is not distinguished from a break, which gRPC keepalive or TCP
reports.  What this assumes beyond the code is that a call, a download and the fetch of
the index end, in success or failure: the sidecar makes its Thunderstore client without
a timeout (`server.go` 46) and fetches and applies under `context.Background()` (154,
174), so a server that holds a download open for ever would keep `Apply` for ever.
`ApplyEnds`, `WaitsEnd` and `EndsUnlessUnheard` say nothing of that.  `Tui`: weak fairness of each load and of its message: a load reads local
files and makes one request that its client gives up after 20 seconds
(`main.go` 34).  None of a sync, of logs and of a restart, which wait for the sidecar
without a deadline, and none of the user.

Deadlock is checked in the engine, store, inventory and rounds runs.  `LatestActive`,
`Resolver` and `SyncStream` stop when their work is done, and `Tui` when its budget of
keys is spent, so it is not checked there: `Ends`, `ApplyEnds`, `EndsUnlessUnheard`,
`WaitsEnd` and `LoadingEnds` say who may stop where.

Some properties and what they are for:

* `RecordedFilesExist`, `UniqueOwner`: hold even with overlapping syncs, because a
  record is made only after a successful rename and no sync deletes.
* `SaveMeansInstalled`: also when a package is root and dependency and is
  installed twice; then the plan's last version stays.
* `ApplyEnds`: when the channel has room for what is left to report, the sync
  ends and saves although the UI has left and the connection is broken.
* `EndsUnlessUnheard`: with too little room a sync hangs, while the connection
  holds, only when the client's goroutine blocks for ever on the unbuffered channel
  that no command reads, and the pressure goes back to the engine, which never saves
  the manifest.  It comes to that in two ways, both reached in the run: the UI stops
  listening at the first package's `Done`, which takes one press and a plan large
  enough; or a second press makes the command of the first sync wait on the second
  one's channel, or loses `m.syncEvents` to a late `Done` of the first.
* `HeardInOrder`: of each sync the screen gets the first of the reports, none left out and
  none twice, up to where it stopped listening or the connection broke.  The order is
  part of it only as long as no command of another press came to wait on the sync:
  two commands take events in turns, each hands its message to Bubble Tea from a
  goroutine of its own, and the later event may be processed first.  Without that
  exception TLC finds the order broken.
* `WaitsEnd`: a waiting command is answered, except when `StartSync` itself fails:
  then nobody closes the channel, and the UI shows "sync started" for ever.
* `CompleteMeansEnded` holds over a sound connection only.  Over a broken one the
  client closes the channel and the UI says "sync complete" of a sync that runs.
* `AloneIsAtomic`: also after overlaps, failures and crashes, with whatever they left
  in `installed.json.tmp`: opening it truncates it.
* `TornNeedsOverlap`, `TornIsBeingWritten`: one writer at a time can never tear the
  manifest, and several can, but without a failure the tear is mended by the client
  that is still writing.  With a failure it may stay, and then `TornIsForEver`: `Load`
  fails before every `Save`, so no operation repairs it.
* `UntouchedAreRight` bounds what a scan beside a sync may get wrong:
  only files that changed meanwhile, or everything at once, when a file it had
  listed (the temporary file of a sync, as a rule) is gone and `Scan` takes that for a
  missing plugins directory.
* `DriftIsSomebodys`: with resting, never failed syncs drift is the work of somebody
  outside.  After a failed sync it is not: its files differ from the records it did
  not save.
* `Accounted`: which files a later install can be refused over.
* `ResolvesAgain`, `RefusedOverContested`, `UpdatesExplained`: a sync repeated without any
  change works, with one exception that the model shows to be reachable.  A
  dependency is tracked at "latest" when it is first installed, whatever version was
  required.  A requires B 1.0 and B 2.0 exists: the first sync installs B 1.0; the
  second, of the same list, installs B 2.0 as a root and then B 1.0 as a
  dependency, so B 2.0's extra file is on disk without a record; the third is refused
  over that file, for ever, and B is listed as an update for ever.  If B's newest
  number does not parse, already the second does not resolve.  The second may
  also be refused over a package nobody had: B 2.0 as a root may need a C that
  B 1.0 did not, and C ships a file somebody left.
* `StaleOnlyIfOvertaken`: the screen may stay old when an older load is delivered
  last; nothing but another key repairs that.
* `OnlySelectedGo`: "d" removes the package it named when it was pressed, however
  often the list is reloaded before the manifest is rewritten; what a concurrent
  "track" added may be lost, what was there may not.

## Disagreements found

Each is a run that TLC must find violated.

1. `owned_after_failure`: a sync that fails at its second package, or at a later
   entry of an archive, leaves the files it already installed with no record;
   the next sync refuses them as untracked, so a retry cannot succeed.
   `manifest.go:7` calls the manifest the source of truth for ownership.
2. `owned_after_overlap`: two syncs of unrelated packages overlap and both end saved;
   the second save writes back the manifest it loaded at its start and drops the
   first one's record, whose file stays (`SavedFilesAreOwned`).  (`BytesStayInPackage`, which holds for one session, fails in the
   same way for two: both find a path free and both write it.)
3. `plan_applied`: `ApplySync` drops the plan it is given.  Without a sidecar an empty
   plan is applied, and "sync complete" is reported of a sync that installed nothing;
   with one, the sidecar plans from its own manifest, a different file.
   `model.go:541` says "Press s to apply the current plan."  In the run the state is
   loaded, "p" has brought a plan to the screen, and "s" applies an empty one.

Others were met and have no run.  The check for an untracked file is a `Stat` before the
entry is extracted (`engine.go` 151), the replacement a rename after it (231): a file that
appears in between is overwritten, which `UntrackedBlocksOverwrite` excludes with `raced`.
Ownership is consulted only for a file that exists, so one that was deleted by hand may
be recorded for a second package; `UniqueOwner` excludes that with `removed`.  After a
second press the events of a sync may be shown out of order, which `HeardInOrder`
excludes with `shared`.  And "sync complete" is shown when a stream breaks.

## The proofs

Every type invariant, safety invariant and action property that a passing run
checks is also a theorem, for all values of the constants.  Left to the runs is
liveness.  Each proof rests on an invariant stronger than the property; those
are the definitions named `...Inv` in the proof modules.

| Module | Theorem | Property | Condition |
|---|---|---|---|
| `SyncEngineProofs` | `TypeCorrect`, `RecordsAreReal`, `OwnersAreUnique` | `TypeOK`, `RecordedFilesExist`, `UniqueOwner` | |
| | `NothingHalfWritten`, `BytesKeepTheirPackage`, `ConfigsSurvive`, `UntrackedSurvive` | `NoPartialFile`, `BytesStayInPackage`, `ConfigNeverOverwritten`, `UntrackedBlocksOverwrite` | `[]WindowsApart` |
| | `SavesMeanInstalled`, `SyncsAreAtomic` | `SaveMeansInstalled`, `SyncIsAtomic` | `[]OneAtATime` |
| | `AloneIsAtomic` | `SyncIsAtomic` | one session |
| `InventoryProofs` | `ScanTypeCorrect`, `SnapshotsAreRight` | `ScanTypeOK`, `UntouchedAreRight` | |
| | `DriftIsForeign` | `DriftIsSomebodys` | `[]OneAtATime` |
| `ManifestStoreProofs` | `TypeCorrect`, `OneWriterNeverTears`, `TornIsMended`, `AloneIsOneStep`, `NoWayBack` | `TypeOK`, `TornNeedsOverlap`, `TornIsBeingWritten`, `AloneIsAtomic`, `TornIsForEver` | |
| `LatestActiveProofs` | `NewerIsStrictOrder`, `LatestActiveIsRight` | `AnswerIsRight` | |
| `ResolverProofs` | `ResolverTypeCorrect`, `ListedOnce`, `NothingUnasked`, `PlansAreClosed`, `OlderNeverSilent`, `FoundWhenActive` | `TypeOK`, `OncePerPackage`, `Justified`, `Closed`, `OlderIsWarned` | |
| `SyncRoundsProofs` | `TypeCorrect`, `FilesAccounted`, `OneOwnerOnly` | `TypeOK`, `Accounted`, `OneOwner` | |
| | `OnlyContestedUpdates`, `ResolvesUnlessNewest`, `RefusedWithReason` | `UpdatesExplained`, `ResolvesAgain`, `RefusedOverContested` | |
| `SyncStreamProofs` | `StreamTypeCorrect`, `NothingOvertakes`, `CompleteIsTrue` | `TypeOK`, `HeardInOrder`, `CompleteMeansEnded` | |
| `TuiProofs` | `ScreenTypeCorrect`, `ScreenCatchesUp`, `OthersStay` | `TypeOK`, `StaleOnlyIfOvertaken`, `OnlySelectedGo` | |

The conditions speak of the behaviour, not of the constants, because the code
takes no lock.  `OneAtATime`: a sync is started when no other one runs, which is
what an operator who waits for the end of a sync does, and what any instance
with one session does (`AloneFollows`).  `WindowsApart` is weaker (`SerialIsApart`):
syncs may overlap as long as no two of them are between the check and the rename
of *one path*.  Without them the theorems are false: two sessions that find one path
free both write it, and of two that overlap the second save drops what the
first one saved (`owned_after_overlap`).

### SyncEngineProofs

For every set of sessions, packages, versions, paths, archives and plans, with
failures, crashes and outside writers.

`TypeOK` alone is not inductive, because `plan[s][item[s]]` has no type when the cursor
is past the end; `CursorOK` adds where the cursors are.

`RecordsAreReal` and `OwnersAreUnique` share the invariant
`SafeInv == TypeInv /\ AllReal /\ AllSole /\ AllFree`.
The saved manifest is a copy of a session's private one, through the temporary
file, so `AllReal` and `AllSole` say the same of all four kinds of manifest:
saved, temporary, private, and the records being collected.  That is not enough
for ownership, since a session's records become part of its manifest much later
(`Upsert`): `AllFree` says that what a session has recorded, and the path between
its check and its rename, belongs to no other package *in its own manifest*.
That holds however many other sessions there are, since nobody else writes that
manifest, and each rename leaves a file where the record says.
`NothingVanishes` (a path is emptied by outside actors only) carries `AllReal`
over every step.

`ApartInv` adds what makes one session's window safe against the others.  `Claims(k, p)`
is everything that says `p` is a file of `k`: a manifest, saved or private; the
records being collected; a window; the bytes themselves.  `AllAgree` says that all
claims on a path name one package.  It is what ownership looks like when nobody
overlaps on a path, and it must range over the private manifests of all
sessions, since any of them may be the next one saved.  `TempIsMine` (what a session
renames is what it wrote) gives `NoPartialFile` and the bytes; `AllPreserve` (every
record of a config says to keep it, through updates and downgrades) and
`AllAllowed` (what is about to be replaced is nothing or a file of the same package)
give `ConfigNeverOverwritten` and `UntrackedBlocksOverwrite`.

`SerialInv` follows one sync through its plan: `Progress` says of each package that the
sync has not come to it, or that it is recorded at the version listed *last* among
those done, with every file in place, unless a config, or one an outside actor has
changed.  A package that is root and dependency is installed twice, so the earlier
version's files may be replaced by the later ones'; `Settled` excepts the package
that is being extracted, and `Extracted` says of that one which entries are done.
From that, the manifest about to be saved is what the plan makes of the saved one,
which is the step of `SyncPromise`; all others are stutters.

### InventoryProofs

`InventoryProofs` builds on the engine's invariants, since the world of a scan is the
engine (`WorldSteps`).  `WalkIsRight` says of each *untouched* name that it is still to
be hashed or already classified right; it is inductive for any number of
overlapping syncs, because a touched name drops out.  `DriftIsSomebodys` needs that the
records tell the truth (`TruthInv`): the saved manifest when no sync runs, and a
running sync's private one except for the package being extracted, whose old
records and new files differ until `Upsert`.

### ManifestStoreProofs

For any number of clients, packages and operations with failures and crashes.
`Quiet` is the invariant behind the safety of one writer: a client that runs alone
writes the file under the temporary name, renames exactly what it wrote, and what
it is about to save is the manifest that is still there with its change.  That must
hold after overlaps as well, so it speaks of `alone[c]`; a second part says that
before the first overlap every client in progress runs alone and the manifest
decodes.  `Writing` says that while nothing has failed each torn file is open by
somebody, for the temporary file as well as for the manifest, since a rename turns
one into the other.

### LatestActiveProofs and ResolverProofs

`LatestActiveProofs` proves that `Newer` is a strict order, total on the numbers
that parse, and, for packages of any length, that the loop returns what `IsLatest`
defines.  The invariant says that `latest` is the right answer for the versions
before `next`, and that with more than one active version seen all of them parse.

`ResolverProofs` holds for every index and list of roots, cycles included.
`ResolverInv` says of every listed item that it is *at work*, that is, on the stack, or
*settled*, that is, each of its references is handled: listed, with a warning if an
older version is listed.  `FrameInv` says that a call on the stack has handled what it
has passed.  When the stack is empty everything is settled, and that is `Closed` and
`OlderIsWarned`.  That a selection exists whenever some active version parses
(`FoundWhenActive` and the lemma before it) takes an induction over the list of
versions.  The library's induction theorems cannot be used here, but its
well-founded minimum can, and gives the least-number principle (`LeastNumber`), which
suffices.

### SyncRoundsProofs

For any packages, releases, requirements and files.  `TypeOK`, `Accounted` and `OneOwner`
are inductive only together (`IInv`): that a package's files belong to nobody else
follows from the check against files on disk, which sees another package's file
only because recorded files are on disk (`Accounted`), and replacing one entry of a
list by position needs that no package is there twice (`TypeOK`).  `Apart` is `OneOwner`
by position; the lemmas say what `Upsert`, tracking and untracking do to a list
that is `Apart`.

What a repeated sync does rests on what the last good one left (`RoundInv`).  `AddsUp`:
what is tracked are the roots of that sync and packages of its plan at "latest", so
whatever the new list asks for is reached from those roots or is one of them.
`Settled`: each entry records a version that is asked for, with all its files.  During a
sync `UnderWay` says that a plan is being carried out and what of it is done.
Working this out corrected the model.  `ResolvesAgain` and `RefusedOverContested` in
their first form were false, and held in the run only because no two packages of
it needed each other.  With a cycle a repeated sync can meet a package for the
first time, and can reach a version nobody resolves without needing it.  The
properties now name both cases, and the run has such a cycle.

### SyncStreamProofs

For any number of syncs and packages, any buffers and any break.  `InPlace` says of
each stage that what it holds lies in what was sent, directly behind what the next
stages hold; on a connection that holds nothing is missing.  A break cuts off the
end of that order only, and so what is taken stays a prefix of what was sent.  `HeardInv`
goes on from there to `Update`: what was taken is processed or in the hands of one
command, each event once, because no two events of a script are equal; and as long as
a sync is not `shared`, one command alone waits on it (`Alone`), so that it takes the next event
only after `Update` had the last one.  `Way` orders the ends: `Apply`, handler, stream,
client; a client that has closed has seen the end of the stream or a break, and
`MadeUp` says that only such a client's channel gives "complete".

### TuiProofs

For any packages and lists, any number of keys and commands in flight.  `LoadsAreTrue`
and `ShownIsTrue`: what has seen the newest manifest shows it.  `NewestComes`: the newest
manifest has been delivered, its load has failed, or a command in flight will bring
it; with nothing in flight that is `StaleOnlyIfOvertaken`.  `KeptEverywhere`: a package
that nobody selected is in the manifest *and in every list that a command has read
and will write back*, which is why a lost update never loses it.  `SavesHaveKeys`
bounds the saves by the keys, by the cardinality of the commands that will still
save.  `TypeOK` includes that no manifest ever lists a package twice, whatever "track"
commands overlap.

### Assumptions

`SentinelAssumption` (model values differ from versions, manifests and sessions) and
`InputAssumption` (types of archives and plans) of the engine; `StoreAssumption`,
`RoundsAssumption`, `IndexAssumption`, `ListingsAssumption`, `MalformedAssumption`,
`StreamAssumption` and `TuiAssumption` type the constants of their modules, and
`NoneAssumption` keeps the stream's sentinel apart from syncs and events.  Two say more
than types: every version ships some file, or its installation fails (`RoundsAssumption`,
`engine.go` 187-190), and the manifests a UI starts with name no package twice
(`TuiAssumption`; `TrackMod` replaces an entry that is there, `service.go` 150-160; the
configuration's list, which the user writes, may).
TLC evaluates all of them in every run of their module.

### Model-checked only

The liveness properties `Ends`, `ApplyEnds`, `EndsUnlessUnheard`, `WaitsEnd` and `LoadingEnds`: their
proofs need `ENABLED` and fairness, which the prover does not handle.  The three
disagreements above are counterexamples, found by TLC.  That `IsPlan` of `SyncRounds`
accepts what `Resolver` makes is by their definitions and not a theorem: one has a
stack and an index of lists, the other a set of versions.

## What is left out

* HTTP, JSON, zip decoding, SHA-256, the Kubernetes API: operations that succeed
  or fail.
* Views, sizes, text input, logging, wording of messages, the quit key (it ends the
  program; a command it cuts off is a `Crash` of `ManifestStore`).
* The generated gRPC code, which is not in the repository, and the converters on both
  sides of it, which copy fields.  `LoadState` and `BuildSyncPlan` of the gRPC client are
  never called: the app service scans and resolves by itself.
* `Restart` and `Logs` beyond their answer; which pod is the target is a straight-line
  choice from what the Kubernetes API lists.
* Configuration precedence and the wiring in `main`: straight-line code, run once.
* How `cleanArchivePath` and `normalizeInstallPath` rewrite a path, and how
  `parseTrackedSpec` splits what was typed: only that they accept or reject.

## The plan

Written: `SyncEngine` with `SyncPromise`, because installing files is what the system is
for; `Versions` and `LatestActive`; `Resolver`; `SyncStream`; `ManifestStore`; `Inventory`;
`SyncRounds`; `Tui`; for each of them the proofs of its safety properties.

To add, in this order: a module that relates `Resolver` to `IsPlan` of `SyncRounds`, so that
the plan of a round is a theorem about `Resolve`; the refinement of a manifest that
changes in one step by `ManifestStore` for operations that do not overlap, so that
`SyncEngine` and `Tui` may treat `Save` and `Load` as they do by a theorem and not by
`AloneIsAtomic` alone; the safety part of liveness, that is, which states of `SyncStream`
have no step of a goroutine.
