------------------------------ MODULE SyncStream ------------------------------
(***************************************************************************)
(* The way of a sync's progress events from Engine.Apply to the screen:    *)
(*                                                                         *)
(*   Apply --chan--> StartSync handler --gRPC stream--> client goroutine   *)
(*         --unbuffered channel--> waitForSyncEvent --message--> Update    *)
(*                                                                         *)
(* of internal/sync/engine.go, cmd/sidecar/server.go,                      *)
(* internal/grpcclient/client.go and internal/tui/model.go.  Every press   *)
(* of "s" makes a new way; the ways share the UI.  What Apply does to the  *)
(* disk is in SyncEngine: here it only reports and saves.                  *)
(***************************************************************************)
EXTENDS Naturals, Sequences, Functions

CONSTANTS
  Presses,    \* how often the user may press "s" at most
  Packages,   \* packages in the plan
  Settings,   \* the surroundings a behaviour may have
  None

\* How often "s" is pressed, the places in the handler's event channel (64 in
\* the code), the messages gRPC takes from the handler before the client
\* reads, and whether the connection may break.
Setting == [presses : 1..Presses, cap : Nat \ {0}, window : Nat \ {0}, lossy : BOOLEAN]

ASSUME StreamAssumption ==
  /\ Presses \in Nat /\ Packages \in Nat \ {0}
  /\ Settings \subseteq Setting

Sync  == 1..Presses
Kinds == {"downloading", "extracting", "installed", "failed", "complete"}
Event == [kind : Kinds, package : 0..Packages]

ASSUME NoneAssumption == None \notin Sync \cup Event

\* The events of an Apply that goes well, in order.
Script == [i \in 1..(3 * Packages) |->
             [kind |-> <<"downloading", "extracting", "installed">>[((i - 1) % 3) + 1],
              package |-> ((i - 1) \div 3) + 1]]

Done(e) == e.kind \in {"installed", "complete"}

VARIABLES
  setting,    \* the surroundings of this behaviour
  apply,      \* per sync: "off", "run", "done" (manifest saved) or "failed"
  sent,       \* per sync: the events Apply has put in the channel
  channel,    \* per sync: the handler's event channel
  handler,    \* per sync: "off", "loop", "send" or "returned"
  sending,    \* per sync: the event in the handler's hands, or None
  wire,       \* per sync: messages on their way
  link,       \* per sync: "off", "up", "ended" (by the handler) or "broken"
  client,     \* per sync: "off", "call", "recv", "forward" or "closed"
  forwarding, \* per sync: the event in the client goroutine's hands, or None
  pressed,    \* how often "s" was pressed
  listening,  \* m.syncEvents: the sync the model listens to, or None
  wait,       \* per press: the waitForSyncEvent it started and those that follow
  \* History:
  taken,      \* per sync: the events that commands took from its client goroutine
  heard,      \* per sync: its events whose messages Update has processed
  shared      \* the syncs that a command of another press came to wait on

serverVars == <<apply, sent, channel, handler, sending>>
netVars    == <<wire, link>>
clientVars == <<client, forwarding, taken>>
uiVars     == <<pressed, listening, wait, heard, shared>>
vars == <<setting, serverVars, netVars, clientVars, uiVars>>

\* A command blocked on the channel of s, and one that has its message.
WaitsOn(s)  == [on |-> s, got |-> None]
Answered(w) == w.got # None
Idle        == [on |-> None, got |-> None]

Init ==
  /\ setting \in Settings
  /\ apply = [s \in Sync |-> "off"]
  /\ sent = [s \in Sync |-> <<>>]
  /\ channel = [s \in Sync |-> <<>>]
  /\ handler = [s \in Sync |-> "off"]
  /\ sending = [s \in Sync |-> None]
  /\ wire = [s \in Sync |-> <<>>]
  /\ link = [s \in Sync |-> "off"]
  /\ client = [s \in Sync |-> "off"]
  /\ forwarding = [s \in Sync |-> None]
  /\ pressed = 0
  /\ listening = None
  /\ wait = [s \in Sync |-> Idle]
  /\ taken = [s \in Sync |-> <<>>]
  /\ heard = [s \in Sync |-> <<>>]
  /\ shared = {}

-------------------------------------------------------------------------------
(* The UI: startSync, waitForSyncEvent and Update.                         *)

\* The goroutine of ApplySync is started and the model waits for its events.
PressS ==
  /\ pressed < setting.presses
  /\ LET s == pressed + 1 IN
       /\ client' = [client EXCEPT ![s] = "call"]
       /\ listening' = s
       /\ wait' = [wait EXCEPT ![s] = WaitsOn(s)]
  /\ pressed' = pressed + 1
  /\ UNCHANGED <<serverVars, netVars, forwarding, taken, heard, shared>>

\* A waiting command takes the event of the client goroutine.
Hear(w) ==
  /\ wait[w].on # None /\ ~ Answered(wait[w])
  /\ LET s == wait[w].on IN
       /\ client[s] = "forward"
       /\ wait' = [wait EXCEPT ![w].got = forwarding[s]]
       /\ taken' = [taken EXCEPT ![s] = Append(@, forwarding[s])]
       /\ client' = [client EXCEPT ![s] = "recv"]
       /\ forwarding' = [forwarding EXCEPT ![s] = None]
  /\ UNCHANGED <<serverVars, netVars, pressed, listening, heard, shared>>

\* The channel is closed: every command that waits on it makes up an event.
HearClose(w) ==
  /\ wait[w].on # None /\ ~ Answered(wait[w])
  /\ client[wait[w].on] = "closed"
  /\ wait' = [wait EXCEPT ![w].got = [kind |-> "complete", package |-> 0]]
  /\ UNCHANGED <<serverVars, netVars, clientVars, pressed, listening, heard, shared>>

\* Update gets the message of a command.  An error or a Done clears
\* m.syncEvents; otherwise the model waits on whatever it listens to now.
Update(w) ==
  /\ Answered(wait[w])
  /\ LET e == wait[w].got IN
       /\ listening' = IF Done(e) \/ e.kind = "failed" THEN None ELSE listening
       /\ wait' = [wait EXCEPT ![w] = IF listening' = None THEN Idle ELSE WaitsOn(listening')]
       /\ heard' = IF e.kind = "complete" THEN heard
                    ELSE [heard EXCEPT ![wait[w].on] = Append(@, e)]
       /\ shared' = shared \cup ({listening'} \ {None, w})
  /\ UNCHANGED <<serverVars, netVars, clientVars, pressed>>

-------------------------------------------------------------------------------
(* The client: Client.StartSync and its goroutine.                         *)

\* The stream is open and the handler starts Apply.
Connect(s) ==
  /\ client[s] = "call"
  /\ client' = [client EXCEPT ![s] = "recv"]
  /\ link' = [link EXCEPT ![s] = "up"]
  /\ handler' = [handler EXCEPT ![s] = "loop"]
  /\ apply' = [apply EXCEPT ![s] = "run"]
  /\ UNCHANGED <<sent, channel, sending, wire, forwarding, taken, uiVars>>

\* Load, FetchIndex or Resolve failed: one message, and the handler returns.
ConnectNoPlan(s) ==
  /\ client[s] = "call"
  /\ client' = [client EXCEPT ![s] = "recv"]
  /\ link' = [link EXCEPT ![s] = "ended"]
  /\ handler' = [handler EXCEPT ![s] = "returned"]
  /\ wire' = [wire EXCEPT ![s] = <<[kind |-> "failed", package |-> 0]>>]
  /\ UNCHANGED <<apply, sent, channel, sending, forwarding, taken, uiVars>>

\* StartSync returns an error: the goroutine that closes events never starts.
ConnectRefused(s) ==
  /\ setting.lossy
  /\ client[s] = "call"
  /\ client' = [client EXCEPT ![s] = "off"]
  /\ UNCHANGED <<serverVars, netVars, forwarding, taken, uiVars>>

Recv(s) ==
  /\ client[s] = "recv" /\ wire[s] # <<>>
  /\ client' = [client EXCEPT ![s] = "forward"]
  /\ forwarding' = [forwarding EXCEPT ![s] = Head(wire[s])]
  /\ wire' = [wire EXCEPT ![s] = Tail(@)]
  /\ UNCHANGED <<serverVars, link, taken, uiVars>>

RecvEnds_OnlyAtEOF(s) ==
  /\ client[s] = "recv" /\ wire[s] = <<>>
  /\ link[s] = "ended"
  /\ client' = [client EXCEPT ![s] = "closed"]
  /\ UNCHANGED <<serverVars, netVars, forwarding, taken, uiVars>>

\* io.EOF and every other error close the channel alike.
RecvEnds(s) ==
  /\ client[s] = "recv" /\ wire[s] = <<>>
  /\ link[s] \in {"ended", "broken"}
  /\ client' = [client EXCEPT ![s] = "closed"]
  /\ UNCHANGED <<serverVars, netVars, forwarding, taken, uiVars>>

\* The connection breaks; the client may still read what had arrived.
Break(s) ==
  /\ setting.lossy
  /\ link[s] \in {"up", "ended"}
  /\ link' = [link EXCEPT ![s] = "broken"]
  /\ \E n \in 0..Len(wire[s]) : wire' = [wire EXCEPT ![s] = SubSeq(@, 1, n)]
  /\ UNCHANGED <<serverVars, clientVars, uiVars>>

-------------------------------------------------------------------------------
(* The handler: Server.StartSync.  The loop before the first Done or error *)
(* and the loop after it do the same.                                      *)

Take(s) ==
  /\ handler[s] = "loop" /\ channel[s] # <<>>
  /\ handler' = [handler EXCEPT ![s] = "send"]
  /\ sending' = [sending EXCEPT ![s] = Head(channel[s])]
  /\ channel' = [channel EXCEPT ![s] = Tail(@)]
  /\ UNCHANGED <<apply, sent, netVars, clientVars, uiVars>>

Send_Overtakes(s) ==
  /\ handler[s] = "send"
  /\ link[s] = "up" /\ Len(wire[s]) < setting.window
  /\ wire' = [wire EXCEPT ![s] = <<sending[s]>> \o @]
  /\ handler' = [handler EXCEPT ![s] = "loop"]
  /\ sending' = [sending EXCEPT ![s] = None]
  /\ UNCHANGED <<apply, sent, channel, link, clientVars, uiVars>>

Send_Unpaced(s) ==
  /\ handler[s] = "send"
  /\ link[s] = "up"
  /\ wire' = [wire EXCEPT ![s] = Append(@, sending[s])]
  /\ handler' = [handler EXCEPT ![s] = "loop"]
  /\ sending' = [sending EXCEPT ![s] = None]
  /\ UNCHANGED <<apply, sent, channel, link, clientVars, uiVars>>

Send_StopsAtDone(s) ==
  /\ handler[s] = "send"
  /\ link[s] = "up" /\ Len(wire[s]) < setting.window
  /\ wire' = [wire EXCEPT ![s] = Append(@, sending[s])]
  /\ IF Done(sending[s])
     THEN handler' = [handler EXCEPT ![s] = "returned"] /\ link' = [link EXCEPT ![s] = "ended"]
     ELSE handler' = [handler EXCEPT ![s] = "loop"] /\ UNCHANGED link
  /\ sending' = [sending EXCEPT ![s] = None]
  /\ UNCHANGED <<apply, sent, channel, clientVars, uiVars>>

Send(s) ==
  /\ handler[s] = "send"
  /\ link[s] = "up" /\ Len(wire[s]) < setting.window
  /\ wire' = [wire EXCEPT ![s] = Append(@, sending[s])]
  /\ handler' = [handler EXCEPT ![s] = "loop"]
  /\ sending' = [sending EXCEPT ![s] = None]
  /\ UNCHANGED <<apply, sent, channel, link, clientVars, uiVars>>

\* On a broken connection Send may still succeed for a while, for nothing.
SendLost(s) ==
  /\ handler[s] = "send"
  /\ link[s] = "broken"
  /\ handler' = [handler EXCEPT ![s] = "loop"]
  /\ sending' = [sending EXCEPT ![s] = None]
  /\ UNCHANGED <<apply, sent, channel, netVars, clientVars, uiVars>>

\* The handler returns the error, and nobody reads the channel any more.
SendFails(s) ==
  /\ handler[s] = "send"
  /\ link[s] = "broken"
  /\ handler' = [handler EXCEPT ![s] = "returned"]
  /\ sending' = [sending EXCEPT ![s] = None]
  /\ UNCHANGED <<apply, sent, channel, netVars, clientVars, uiVars>>

ChannelClosed(s) == apply[s] \in {"done", "failed"}

HandlerReturns_Early(s) ==
  /\ handler[s] = "loop" /\ channel[s] = <<>>
  /\ sent[s] # <<>>
  /\ handler' = [handler EXCEPT ![s] = "returned"]
  /\ link' = [link EXCEPT ![s] = IF @ = "up" THEN "ended" ELSE @]
  /\ UNCHANGED <<apply, sent, channel, sending, wire, clientVars, uiVars>>

\* The channel is closed and drained.
HandlerReturns(s) ==
  /\ handler[s] = "loop" /\ channel[s] = <<>> /\ ChannelClosed(s)
  /\ handler' = [handler EXCEPT ![s] = "returned"]
  /\ link' = [link EXCEPT ![s] = IF @ = "up" THEN "ended" ELSE @]
  /\ UNCHANGED <<apply, sent, channel, sending, wire, clientVars, uiVars>>

-------------------------------------------------------------------------------
(* Engine.Apply, as far as its events go.                                  *)

Emits_Unbuffered(s, e) ==
  /\ channel[s] = <<>>
  /\ channel' = [channel EXCEPT ![s] = Append(@, e)]
  /\ sent' = [sent EXCEPT ![s] = Append(@, e)]

Emits(s, e) ==
  /\ Len(channel[s]) < setting.cap
  /\ channel' = [channel EXCEPT ![s] = Append(@, e)]
  /\ sent' = [sent EXCEPT ![s] = Append(@, e)]

Report(s) ==
  /\ apply[s] = "run" /\ Len(sent[s]) < Len(Script)
  /\ Emits(s, Script[Len(sent[s]) + 1])
  /\ UNCHANGED <<apply, handler, sending, netVars, clientVars, uiVars>>

\* Load fails at the start, a package fails after "downloading" or
\* "extracting", Save fails at the end; Apply reports it, returns and closes.
ReportFailure(s) ==
  /\ apply[s] = "run"
  /\ Len(sent[s]) \in {0, Len(Script)} \/ Len(sent[s]) % 3 # 0
  /\ Emits(s, [kind |-> "failed", package |-> 0])
  /\ apply' = [apply EXCEPT ![s] = "failed"]
  /\ UNCHANGED <<handler, sending, netVars, clientVars, uiVars>>

\* The manifest is saved; Apply returns and closes the channel.
Save(s) ==
  /\ apply[s] = "run" /\ Len(sent[s]) = Len(Script)
  /\ apply' = [apply EXCEPT ![s] = "done"]
  /\ UNCHANGED <<sent, channel, handler, sending, netVars, clientVars, uiVars>>

-------------------------------------------------------------------------------
Engine(s)  == Report(s) \/ ReportFailure(s) \/ Save(s)
Handler(s) == Take(s) \/ Send(s) \/ SendLost(s) \/ SendFails(s) \/ HandlerReturns(s)
Client(s)  == Connect(s) \/ ConnectNoPlan(s) \/ ConnectRefused(s) \/ Recv(s) \/ RecvEnds(s)
Command(w) == Hear(w) \/ HearClose(w)

Next ==
  /\ \/ PressS
     \/ \E s \in Sync : Engine(s) \/ Handler(s) \/ Client(s) \/ Break(s)
     \/ \E w \in Sync : Command(w) \/ Update(w)
  /\ UNCHANGED setting

\* Goroutines run while they can, and the UI handles the messages it has.  The
\* user need not press anything and the connection need not break.  This assumes
\* of the network what no deadline in the code ensures: that a call, a download
\* and the fetch of the index end, in success or failure.  The sidecar makes its
\* Thunderstore client without one (server.go:46) and fetches and applies under
\* context.Background() (server.go:154, 174).
Fairness ==
  /\ \A s \in Sync : /\ WF_vars(Engine(s) /\ UNCHANGED setting)
                     /\ WF_vars(Handler(s) /\ UNCHANGED setting)
                     /\ WF_vars(Client(s) /\ UNCHANGED setting)
  /\ \A w \in Sync : /\ WF_vars(Command(w) /\ UNCHANGED setting)
                     /\ WF_vars(Update(w) /\ UNCHANGED setting)

Spec == Init /\ [][Next]_vars /\ Fairness

-------------------------------------------------------------------------------
(* Properties.                                                             *)

\* Every variable has its type, and no buffer overflows.
TypeOK ==
  /\ setting \in Settings
  /\ apply \in [Sync -> {"off", "run", "done", "failed"}]
  /\ sent \in [Sync -> Seq(Event)]
  /\ channel \in [Sync -> Seq(Event)] /\ \A s \in Sync : Len(channel[s]) <= setting.cap
  /\ handler \in [Sync -> {"off", "loop", "send", "returned"}]
  /\ sending \in [Sync -> Event \cup {None}]
  /\ wire \in [Sync -> Seq(Event)] /\ \A s \in Sync : Len(wire[s]) <= setting.window
  /\ link \in [Sync -> {"off", "up", "ended", "broken"}]
  /\ client \in [Sync -> {"off", "call", "recv", "forward", "closed"}]
  /\ forwarding \in [Sync -> Event \cup {None}]
  /\ pressed \in 0..Presses /\ listening \in Sync \cup {None}
  /\ wait \in [Sync -> [on : Sync \cup {None}, got : Event \cup {None}]]
  /\ taken \in [Sync -> Seq(Event)] /\ heard \in [Sync -> Seq(Event)]
  /\ shared \subseteq Sync

Ended(s) == apply[s] \in {"done", "failed"}

IsPrefixOf(p, q) == Len(p) <= Len(q) /\ p = SubSeq(q, 1, Len(p))

\* The events of s that commands have taken and Update has yet to process.
Carries(w, s) == wait[w].on = s /\ Answered(wait[w]) /\ wait[w].got.kind # "complete"
Carried(s)    == {wait[w].got : w \in {v \in Sync : Carries(v, s)}}

\* No event of s reaches the screen twice.
Apart(s) ==
  /\ IsInjective(heard[s]) /\ Range(heard[s]) \cap Carried(s) = {}
  /\ \A v, w \in Sync : Carries(v, s) /\ Carries(w, s) /\ wait[v].got = wait[w].got => v = w

\* What Update processes of a sync is what Apply reported: with what is on its
\* way to Update it is the first of the reports, nothing left out and nothing
\* twice, up to where the UI stopped or the connection broke.  It comes in the
\* order of the reports as long as no command of another press waits on the sync.
\* Then two of them take events from one channel in turns, and Bubble Tea may
\* deliver the message of the later event first (model.go:316-331).
HeardInOrder ==
  \A s \in Sync : apply[s] # "off" =>
    /\ IsPrefixOf(taken[s], sent[s])
    /\ Range(heard[s]) \cup Carried(s) = Range(taken[s]) /\ Apart(s)
    /\ s \notin shared => IsPrefixOf(heard[s], sent[s])

\* When the channel has places for all its events (64 are enough for 21
\* packages), every sync that starts runs to its end and saves or fails, even
\* if the UI stops listening and the connection breaks.
ApplyEnds ==
  setting.cap > Len(Script) => \A s \in Sync : apply[s] = "run" ~> Ended(s)

\* The client goroutine of s holds an event that no command waits for.
Unheard(s) == client[s] = "forward" /\ \A w \in Sync : wait[w].on # s

\* While the connection holds, a sync with more events than the buffers have
\* places ends, unless it is left unheard for ever with its channel full.  One
\* press is enough for that: the UI stops listening at the first package that is
\* installed (model.go:323-326), and the rest of the plan fills the buffers.  So
\* are two: the second press makes the command of the first one wait elsewhere
\* (model.go:327-329), or a late Done of the first sync clears what the second set.
EndsUnlessUnheard ==
  ~ setting.lossy =>
    \A s \in Sync : apply[s] = "run" ~> (Ended(s) \/ [](Unheard(s) /\ Len(channel[s]) = setting.cap))

\* A command that waits is answered.  The exception is that StartSync itself
\* was refused: then nobody closes the channel (client.go:103-108), and
\* model.go:624 drops the error.
WaitsEnd ==
  \A w, s \in Sync :
    wait[w] = WaitsOn(s) ~> (Answered(wait[w]) \/ [](client[s] = "off"))

\* While the connection holds, "sync complete" (model.go:636) is told only of
\* a sync whose handler has returned and whose Apply is over.
CompleteMeansEnded ==
  ~ setting.lossy =>
    \A w \in Sync : Answered(wait[w]) /\ wait[w].got.kind = "complete" =>
      handler[wait[w].on] = "returned" /\ apply[wait[w].on] # "run"
===============================================================================
