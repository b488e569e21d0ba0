---------------------------------- MODULE Tui ----------------------------------
(***************************************************************************)
(* The terminal program (internal/tui/model.go) on top of the service      *)
(* (internal/app/service.go).  Update handles one message at a time; the   *)
(* commands it returns run beside it, and beside each other, and their     *)
(* messages come back in any order.                                        *)
(*                                                                         *)
(* A manifest, a state and a plan are here the list of the packages they   *)
(* track.  The events of one sync are in SyncStream, what it installs in   *)
(* SyncEngine, a torn manifest in ManifestStore and a scan in Inventory.   *)
(* Views and the text input only say where a key goes: pressing "d" here   *)
(* is "1" and "d", tracking a package is "a", its name and "enter".        *)
(***************************************************************************)
EXTENDS Naturals, Sequences

CONSTANTS
  Mod,      \* Thunderstore packages
  Flying,   \* how many commands may be in flight together
  Presses,  \* how many keys that start a command are pressed
  Lists,    \* the lists the manifests may hold at the start
  Defaults, \* config.Tracked
  None

Tracked == {q \in Seq(Mod) : \A i, j \in DOMAIN q : q[i] = q[j] => i = j}
Slot    == 1..Flying
Kinds   == {"none", "load", "plan", "track", "untrack", "sync", "output"}
Command == [kind : Kinds, stage : {"run", "read", "done"}, ok : BOOLEAN, mod : Mod \cup {None},
            list : Seq(Mod), rev : 0..(Presses + 1)]

ASSUME TuiAssumption ==
  /\ Presses \in Nat /\ Flying \in Nat \ {0} /\ None \notin Mod
  /\ Lists \subseteq Tracked /\ Defaults \in Seq(Mod)

VARIABLES
  remote,   \* REKJA_SERVER is set: a sidecar does the syncs
  here,     \* the manifest of the program's own store
  there,    \* the manifest of the sidecar, a file of its own
  shown,    \* m.state, and with it the items of m.list
  indexed,  \* m.state.Packages is the index, since some state was loaded
  plan,     \* m.plan
  err,      \* m.err # nil
  loading,  \* m.loading: the spinner
  cursor,   \* m.list.Index() + 1
  cmd,      \* the commands in flight
  pressed,  \* how many keys were pressed
  viewed,   \* history: the plan is one that "p" has brought to the screen
  asShown,  \* history: the last sync applies that plan, if there is one
  rev,      \* history: the program's manifest, counted from 1 with every save
  shownRev, \* history: the manifest that the state shown has seen
  bestRev,  \* history: the newest manifest any delivered state has seen
  lostRev,  \* history: the newest manifest of which a load failed
  kept      \* history: packages tracked from the start and never selected for removal

world   == <<remote, here, there>>
model   == <<shown, indexed, plan, err, loading, cursor>>
history == <<viewed, asShown, rev, shownRev, bestRev, lostRev, kept>>
vars    == <<world, model, cmd, pressed, history>>

Idle == [kind |-> "none", stage |-> "run", ok |-> TRUE, mod |-> None, list |-> <<>>, rev |-> 0]
Run(kind) == [Idle EXCEPT !.kind = kind]
Among(q) == {q[i] : i \in DOMAIN q}

\* UntrackMod filters the list; a package is in it at most once.
Without(q, m) ==
  IF m \notin Among(q) THEN q
  ELSE LET at == CHOOSE i \in DOMAIN q : q[i] = m
       IN  SubSeq(q, 1, at - 1) \o SubSeq(q, at + 1, Len(q))

\* NewModel and Init: the first load is under way.
Init ==
  /\ remote \in BOOLEAN /\ here \in Lists
  /\ there \in IF remote THEN Lists ELSE {<<>>}
  /\ shown = <<>> /\ plan = <<>> /\ err = FALSE /\ loading = TRUE
  /\ cursor = 1
  /\ cmd = [s \in Slot |-> IF s = 1 THEN Run("load") ELSE Idle]
  /\ pressed = 0
  /\ indexed = FALSE /\ viewed = FALSE /\ asShown = TRUE
  /\ rev = 1 /\ shownRev = 0 /\ bestRev = 0 /\ lostRev = 0
  /\ kept = Among(here)

-------------------------------------------------------------------------------
(* Keys.                                                                   *)

\* A key that starts the command c.
Start(s, c) ==
  /\ cmd[s] = Idle /\ \A t \in 1..(s - 1) : cmd[t] # Idle
  /\ pressed < Presses
  /\ cmd' = [cmd EXCEPT ![s] = c]
  /\ pressed' = pressed + 1
  /\ UNCHANGED world

\* BuildSyncPlan, which a sidecar has no part in: the packages tracked in the
\* state, or else those of the configuration.  It is an error when there are none,
\* and as long as no state was loaded, since Resolve then finds none of them.
Planned == IF ~ indexed THEN <<>> ELSE IF shown = <<>> THEN Defaults ELSE shown

\* "up" and "down": the list moves its cursor among its items.
Move(i) ==
  /\ i \in {cursor - 1, cursor + 1}
  /\ cursor' = i
  /\ UNCHANGED <<world, shown, indexed, plan, err, loading, cmd, pressed, history>>

PressR(s) ==
  /\ Start(s, Run("load"))
  /\ loading' = TRUE
  /\ UNCHANGED <<shown, indexed, plan, err, cursor, history>>

\* "p": the command plans for the state of this moment, and Resolve may fail.
PressP(s) ==
  /\ \E ok \in BOOLEAN :
       /\ Planned = <<>> => ~ ok
       /\ Start(s, [Run("plan") EXCEPT !.stage = "done", !.list = Planned, !.ok = ok])
  /\ UNCHANGED <<shown, indexed, plan, err, loading, cursor, history>>

\* "s": without a plan one is made here and now, which may fail.  ApplySync
\* does not pass it on: the sidecar resolves what its own manifest tracks, and
\* the local client applies an empty plan.
PressS(s) ==
  /\ LET current == IF plan = <<>> THEN Planned ELSE plan IN
       /\ current # <<>>
       /\ Start(s, Run("sync"))
       /\ plan' = current
       /\ asShown' = (viewed => current = IF remote THEN there ELSE <<>>)
  /\ UNCHANGED <<shown, indexed, err, loading, cursor, viewed, rev, shownRev, bestRev, lostRev, kept>>

PressSFails ==
  /\ plan = <<>>
  /\ err' = TRUE
  /\ UNCHANGED <<world, shown, indexed, plan, loading, cursor, cmd, pressed, history>>

\* "l" and "R".
PressL(s) ==
  /\ Start(s, Run("output"))
  /\ UNCHANGED <<model, history>>

\* "enter" in the input; what was typed may not parse (m = None).
PressEnter(s, m) ==
  /\ Start(s, [Run("track") EXCEPT !.mod = m])
  /\ UNCHANGED <<model, history>>

\* "d": the name of the package under the cursor, if there is one.
PressD(s) ==
  /\ cursor \in DOMAIN shown
  /\ Start(s, [Run("untrack") EXCEPT !.mod = shown[cursor]])
  /\ kept' = kept \ {shown[cursor]}
  /\ UNCHANGED <<model, viewed, asShown, rev, shownRev, bestRev, lostRev>>

-------------------------------------------------------------------------------
(* Commands.                                                               *)

Runs(s, kinds) == cmd[s].kind \in kinds /\ cmd[s].stage = "run"
Writes(c) == c.kind \in {"track", "untrack"} \/ (c.kind = "sync" /\ ~ remote)
Ends(s, ok) == cmd' = [cmd EXCEPT ![s].stage = "done", ![s].ok = ok]
Elsewhere   == UNCHANGED <<world, model, pressed, history>>

\* LoadState scans the program's own manifest, whatever REKJA_SERVER says.
Load(s) ==
  /\ Runs(s, {"load"})
  /\ cmd' = [cmd EXCEPT ![s].stage = "done", ![s].list = here, ![s].rev = rev]
  /\ Elsewhere

LoadFails(s) ==
  /\ Runs(s, {"load"})
  /\ cmd' = [cmd EXCEPT ![s].stage = "done", ![s].ok = FALSE, ![s].rev = rev]
  /\ Elsewhere

\* TrackMod, UntrackMod and the Apply of a local sync load the manifest ...
Read(s) ==
  /\ cmd[s].stage = "run" /\ Writes(cmd[s])
  /\ cmd[s].kind = "track" => cmd[s].mod # None
  /\ cmd' = [cmd EXCEPT ![s].stage = "read", ![s].list = here]
  /\ Elsewhere

Changed_AtCursor(c) ==
  CASE c.kind = "track"   -> IF c.mod \in Among(c.list) THEN c.list ELSE Append(c.list, c.mod)
    [] c.kind = "untrack" -> IF cursor \in DOMAIN shown THEN Without(c.list, shown[cursor]) ELSE c.list
    [] OTHER              -> c.list

Changed_AlwaysAppends(c) ==
  CASE c.kind = "track"   -> Append(c.list, c.mod)
    [] c.kind = "untrack" -> Without(c.list, c.mod)
    [] OTHER              -> c.list

\* What is saved.  The Apply of the local sync has nothing to install.
Changed(c) ==
  CASE c.kind = "track"   -> IF c.mod \in Among(c.list) THEN c.list ELSE Append(c.list, c.mod)
    [] c.kind = "untrack" -> Without(c.list, c.mod)
    [] OTHER              -> c.list

\* ... and save it.
Write(s) ==
  /\ cmd[s].stage = "read"
  /\ here' = Changed(cmd[s])
  /\ rev' = rev + 1
  /\ Ends(s, TRUE)
  /\ UNCHANGED <<remote, there, model, pressed, viewed, asShown, shownRev, bestRev, lostRev, kept>>

\* The spec does not parse, or the file cannot be read or written.
ChangeFails(s) ==
  /\ Writes(cmd[s]) /\ cmd[s].stage \in {"run", "read"}
  /\ Ends(s, FALSE)
  /\ Elsewhere

\* The sidecar's answers; without a sidecar logs and restart are errors.
Answer(s, ok) ==
  /\ Runs(s, {"output"}) \/ (Runs(s, {"sync"}) /\ remote)
  /\ ok => remote
  /\ Ends(s, ok)
  /\ Elsewhere

-------------------------------------------------------------------------------
(* Update: the message of a command.                                       *)

Arrives(s, kinds) == cmd[s].kind \in kinds /\ cmd[s].stage = "done"
Free(s)   == cmd' = [cmd EXCEPT ![s] = Idle]
Reload(s) == cmd' = [cmd EXCEPT ![s] = Run("load")]
Later(a, b) == IF a > b THEN a ELSE b

\* stateLoadedMsg.  The list may bring its cursor back among its items.
Loaded(s) ==
  /\ Arrives(s, {"load"}) /\ cmd[s].ok
  /\ loading' = FALSE
  /\ shown' = cmd[s].list /\ indexed' = TRUE
  /\ cursor' \in 1..cursor
  /\ err' = FALSE
  /\ shownRev' = cmd[s].rev /\ bestRev' = Later(bestRev, cmd[s].rev)
  /\ Free(s)
  /\ UNCHANGED <<world, plan, pressed, viewed, asShown, rev, lostRev, kept>>

NotLoaded_ReturnsEarly(s) ==
  /\ Arrives(s, {"load"}) /\ ~ cmd[s].ok
  /\ err' = TRUE
  /\ lostRev' = Later(lostRev, cmd[s].rev)
  /\ Free(s)
  /\ UNCHANGED <<world, shown, indexed, plan, loading, cursor, pressed, viewed, asShown, rev, shownRev,
                 bestRev, kept>>

NotLoaded(s) ==
  /\ Arrives(s, {"load"}) /\ ~ cmd[s].ok
  /\ loading' = FALSE
  /\ err' = TRUE
  /\ lostRev' = Later(lostRev, cmd[s].rev)
  /\ Free(s)
  /\ UNCHANGED <<world, shown, indexed, plan, cursor, pressed, viewed, asShown, rev, shownRev,
                 bestRev, kept>>

\* planBuiltMsg.
PlanBuilt(s) ==
  /\ Arrives(s, {"plan"})
  /\ err' = ~ cmd[s].ok
  /\ plan' = IF cmd[s].ok THEN cmd[s].list ELSE plan
  /\ viewed' = (viewed \/ cmd[s].ok)
  /\ Free(s)
  /\ UNCHANGED <<world, shown, indexed, loading, cursor, pressed, asShown, rev, shownRev, bestRev,
                 lostRev, kept>>

\* The last event of a sync: an error, or Done and the state is loaded anew.
SyncEnds(s) ==
  /\ Arrives(s, {"sync"})
  /\ err' = (err \/ ~ cmd[s].ok)
  /\ IF cmd[s].ok THEN Reload(s) ELSE Free(s)
  /\ UNCHANGED <<world, shown, indexed, plan, loading, cursor, pressed, history>>

\* logsLoadedMsg and restartMsg.
Output(s) ==
  /\ Arrives(s, {"output"})
  /\ err' = ~ cmd[s].ok
  /\ Free(s)
  /\ UNCHANGED <<world, shown, indexed, plan, loading, cursor, pressed, history>>

TrackChanged_OnlyShows(s) ==
  /\ Arrives(s, {"track", "untrack"})
  /\ err' = ~ cmd[s].ok
  /\ Free(s)
  /\ UNCHANGED <<world, shown, indexed, plan, loading, cursor, pressed, history>>

\* trackChangedMsg.
TrackChanged(s) ==
  /\ Arrives(s, {"track", "untrack"})
  /\ err' = ~ cmd[s].ok
  /\ IF cmd[s].ok THEN Reload(s) ELSE Free(s)
  /\ UNCHANGED <<world, shown, indexed, plan, loading, cursor, pressed, history>>

Commands(s) == Load(s) \/ LoadFails(s) \/ Read(s) \/ Write(s) \/ ChangeFails(s) \/ \E ok \in BOOLEAN : Answer(s, ok)
Messages(s) == Loaded(s) \/ NotLoaded(s) \/ PlanBuilt(s) \/ SyncEnds(s) \/ Output(s) \/ TrackChanged(s)

Next ==
  \/ \E i \in DOMAIN shown : Move(i)
  \/ PressSFails
  \/ \E s \in Slot :
       \/ PressR(s) \/ PressP(s) \/ PressS(s) \/ PressD(s) \/ PressL(s)
       \/ \E m \in Mod \cup {None} : PressEnter(s, m)
       \/ Commands(s) \/ Messages(s)

Spec == Init /\ [][Next]_vars

\* A load ends: its files are there and its HTTP client gives up after 20
\* seconds; Bubble Tea runs every command and delivers every message.  Nothing
\* makes the sidecar answer, or the user press a key.
FairSpec ==
  /\ Spec
  /\ \A s \in Slot : WF_vars(Load(s) \/ LoadFails(s)) /\ WF_vars(Loaded(s) \/ NotLoaded(s))

-------------------------------------------------------------------------------
(* Properties.                                                             *)

\* Every variable has its type.
TypeOK ==
  /\ remote \in BOOLEAN /\ {here, there, shown} \subseteq Tracked /\ plan \in Seq(Mod)
  /\ {indexed, err, loading, viewed, asShown} \subseteq BOOLEAN
  /\ cursor \in Nat \ {0} /\ pressed \in 0..Presses
  /\ cmd \in [Slot -> Command] /\ \A s \in Slot : cmd[s].kind # "plan" => cmd[s].list \in Tracked
  /\ {rev, shownRev, bestRev, lostRev} \subseteq 0..(Presses + 1) /\ kept \subseteq Mod

AtRest == \A s \in Slot : cmd[s] = Idle

\* When nothing is in flight, the list on the screen is the manifest's.  The
\* two exceptions: the last load failed, or a load that read the manifest
\* earlier was delivered after one that read it later.
StaleOnlyIfOvertaken ==
  AtRest => shown = here \/ lostRev = rev \/ shownRev < bestRev

\* A package that was tracked when the program started leaves the manifest
\* only if it was the one under the cursor at some press of "d", though the
\* list is reloaded, and the manifest rewritten, between press and removal.
OnlySelectedGo == kept \subseteq Among(here)

\* The spinner stops again and again, also when loads fail and overtake each
\* other and keys are pressed meanwhile: nothing leaves it turning by itself.
LoadingEnds == []<>(~ loading)

\* "Press s to apply the current plan": when "p" has brought a plan to the
\* screen, what a sync resolves and applies is that plan.
AppliedAsShown == asShown
===============================================================================
