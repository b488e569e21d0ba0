--------------------------- MODULE SyncStreamProofs ---------------------------
(***************************************************************************)
(* The way of a sync's events, for any number of syncs and packages, any   *)
(* capacity of the buffers and any break of the connection.                *)
(***************************************************************************)
EXTENDS SyncStream, SequenceTheorems, TLAPS

\* What Apply and the handler report: "complete" is made up by the client.
Told == {e \in Event : e.kind # "complete"}

\* The types, and what is in whose hands.
StreamTypes ==
  /\ setting \in Settings
  /\ apply \in [Sync -> {"off", "run", "done", "failed"}]
  /\ handler \in [Sync -> {"off", "loop", "send", "returned"}]
  /\ link \in [Sync -> {"off", "up", "ended", "broken"}]
  /\ client \in [Sync -> {"off", "call", "recv", "forward", "closed"}]
  /\ sent \in [Sync -> Seq(Told)] /\ channel \in [Sync -> Seq(Told)]
  /\ wire \in [Sync -> Seq(Told)] /\ taken \in [Sync -> Seq(Told)]
  /\ sending \in [Sync -> Told \cup {None}] /\ forwarding \in [Sync -> Told \cup {None}]
  /\ pressed \in 0..Presses /\ listening \in Sync \cup {None}
  /\ wait \in [Sync -> [on : Sync \cup {None}, got : Event \cup {None}]]
  /\ \A s \in Sync : /\ Len(channel[s]) <= setting.cap /\ Len(wire[s]) <= setting.window
                     /\ handler[s] = "send" => sending[s] \in Told
                     /\ client[s] = "forward" => forwarding[s] \in Told

\* The events p are those of q that follow the first n.
LiesIn(p, q, n) == n + Len(p) <= Len(q) /\ \A i \in 1..Len(p) : p[i] = q[n + i]

\* The events of s in the hands of the client goroutine and of the handler, and
\* how many the client has read, the handler has passed on and has drained.
InClient(s)  == IF client[s] = "forward" THEN <<forwarding[s]>> ELSE <<>>
InHandler(s) == IF handler[s] = "send" THEN <<sending[s]>> ELSE <<>>
Received(s)  == Len(taken[s]) + Len(InClient(s))
Passed(s)    == Received(s) + Len(wire[s])
Drained(s)     == Passed(s) + Len(InHandler(s))

\* Every event on the way is at its place behind those that went before it; on
\* a connection that holds, the whole of what was sent is on the way or was taken.
InPlace(s) ==
  /\ LiesIn(taken[s], sent[s], 0)
  /\ LiesIn(InClient(s), sent[s], Len(taken[s]))
  /\ LiesIn(wire[s], sent[s], Received(s))
  /\ link[s] # "broken" =>
       /\ LiesIn(InHandler(s), sent[s], Passed(s))
       /\ LiesIn(channel[s], sent[s], Drained(s))
       /\ Drained(s) + Len(channel[s]) = Len(sent[s])

\* Nothing of s has begun.
Fresh(s) ==
  /\ apply[s] = "off" /\ handler[s] = "off" /\ link[s] = "off"
  /\ sent[s] = <<>> /\ channel[s] = <<>> /\ wire[s] = <<>> /\ taken[s] = <<>>

\* How the ends of a sync follow each other: Apply, handler, stream, client.
Way(s) ==
  /\ apply[s] # "off" => InPlace(s)
  /\ client[s] \in {"off", "call"} => Fresh(s)
  /\ client[s] = "closed" => link[s] \in {"ended", "broken"}
  /\ apply[s] = "off" => handler[s] \in {"off", "returned"}
  /\ link[s] = "ended" => handler[s] = "returned" /\ apply[s] # "run"
  /\ link[s] = "broken" => setting.lossy

\* A "complete" is made up when the client goroutine has closed its channel.
MadeUp(w) ==
  Answered(wait[w]) /\ wait[w].got.kind = "complete" =>
    wait[w].on \in Sync /\ client[wait[w].on] = "closed"

StreamInv ==
  /\ StreamTypes
  /\ \A s \in Sync : Way(s) /\ (s > pressed => client[s] = "off") /\ MadeUp(s)

WayState(s) ==
  <<apply[s], sent[s], channel[s], handler[s], sending[s], wire[s], link[s], client[s], forwarding[s], taken[s]>>

\* The script of an Apply tells only what can be told.
LEMMA ScriptIsTold == Script \in Seq(Told)
PROOF
  <1> DEFINE n == 3 * Packages
  <1>1. Packages \in Nat \ {0} /\ n \in Nat
    BY StreamAssumption
  <1>2. ASSUME NEW i \in 1..n
        PROVE  [kind |-> <<"downloading", "extracting", "installed">>[((i - 1) % 3) + 1],
                package |-> ((i - 1) \div 3) + 1] \in Told
    <2>1. (i - 1) % 3 \in 0..2 /\ (i - 1) \div 3 \in 0..(Packages - 1)
      BY <1>1
    <2>2. <<"downloading", "extracting", "installed">>[((i - 1) % 3) + 1] \in {"downloading", "extracting", "installed"}
      BY <2>1
    <2>3. ((i - 1) \div 3) + 1 \in 0..Packages
      BY <1>1, <2>1
    <2> QED BY <2>2, <2>3 DEF Told, Event, Kinds
  <1>3. Script \in [1..n -> Told]
    BY <1>2 DEF Script
  <1>4. Script \in UNION {[1..m -> Told] : m \in Nat}
    BY <1>1, <1>3
  <1> QED BY <1>4, SeqDef

\* A way that nothing happens to stays as it is.
LEMMA WayLasts ==
  ASSUME NEW s, WayState(s)' = WayState(s), setting' = setting, Way(s)
  PROVE  Way(s)'
PROOF
  <1>1. /\ apply'[s] = apply[s] /\ sent'[s] = sent[s] /\ channel'[s] = channel[s] /\ handler'[s] = handler[s]
        /\ sending'[s] = sending[s] /\ wire'[s] = wire[s] /\ link'[s] = link[s] /\ client'[s] = client[s]
        /\ forwarding'[s] = forwarding[s] /\ taken'[s] = taken[s]
    BY DEF WayState
  <1>2. InClient(s)' = InClient(s) /\ InHandler(s)' = InHandler(s)
    BY <1>1 DEF InClient, InHandler
  <1>3. Received(s)' = Received(s) /\ Passed(s)' = Passed(s) /\ Drained(s)' = Drained(s)
    BY <1>1, <1>2 DEF Received, Passed, Drained
  <1>4. InPlace(s) => InPlace(s)'
    BY <1>1, <1>2, <1>3 DEF InPlace
  <1>5. Fresh(s) => Fresh(s)'
    BY <1>1 DEF Fresh
  <1> QED BY <1>1, <1>4, <1>5 DEF Way

\* What lies in q still does when q grows, and the new event lies behind it.
LEMMA LiesInMore ==
  ASSUME NEW q \in Seq(Told), NEW e \in Told
  PROVE  /\ \A p \in Seq(Told), n \in Nat : LiesIn(p, q, n) => LiesIn(p, Append(q, e), n)
         /\ LiesIn(<<e>>, Append(q, e), Len(q))
PROOF
  <1>1. Len(Append(q, e)) = Len(q) + 1 /\ Len(q) \in Nat /\ \A i \in 1..Len(q) : Append(q, e)[i] = q[i]
        /\ Append(q, e)[Len(q) + 1] = e
    OBVIOUS
  <1>2. ASSUME NEW p \in Seq(Told), NEW n \in Nat, LiesIn(p, q, n)
        PROVE  LiesIn(p, Append(q, e), n)
    <2>1. Len(p) \in Nat /\ n + Len(p) <= Len(q) /\ \A i \in 1..Len(p) : p[i] = q[n + i]
      BY <1>2 DEF LiesIn
    <2>2. \A i \in 1..Len(p) : n + i \in 1..Len(q)
      BY <1>1, <2>1
    <2> QED BY <1>1, <2>1, <2>2 DEF LiesIn
  <1>3. LiesIn(<<e>>, Append(q, e), Len(q))
    BY <1>1 DEF LiesIn
  <1> QED BY <1>2, <1>3

\* One event is handed on to the end of what lies before it.
LEMMA LiesInLast ==
  ASSUME NEW p \in Seq(Told), NEW q \in Seq(Told), NEW e \in Told, NEW n \in Nat,
         LiesIn(p, q, n), LiesIn(<<e>>, q, n + Len(p))
  PROVE  /\ Append(p, e) \in Seq(Told) /\ Len(Append(p, e)) = Len(p) + 1
         /\ LiesIn(Append(p, e), q, n) /\ LiesIn(<<>>, q, n + Len(p) + 1)
PROOF
  <1>1. /\ Append(p, e) \in Seq(Told) /\ Len(Append(p, e)) = Len(p) + 1 /\ Len(p) \in Nat /\ Len(q) \in Nat
        /\ \A i \in 1..Len(p) : Append(p, e)[i] = p[i]
        /\ Append(p, e)[Len(p) + 1] = e
    OBVIOUS
  <1>2. n + Len(p) + 1 <= Len(q) /\ q[n + Len(p) + 1] = e
    BY DEF LiesIn
  <1>3. ASSUME NEW i \in 1..(Len(p) + 1) PROVE Append(p, e)[i] = q[n + i]
    <2>1. CASE i \in 1..Len(p)
      BY <1>1, <2>1 DEF LiesIn
    <2>2. CASE i = Len(p) + 1
      <3>1. n + i = n + Len(p) + 1
        BY <1>1, <2>2
      <3> QED BY <1>1, <1>2, <2>2, <3>1
    <2> QED BY <1>1, <2>1, <2>2
  <1> QED BY <1>1, <1>2, <1>3 DEF LiesIn

\* One event is handed on from the front of what lies behind it.
LEMMA LiesInFirst ==
  ASSUME NEW p \in Seq(Told), p # <<>>, NEW q \in Seq(Told), NEW n \in Nat, LiesIn(p, q, n)
  PROVE  /\ Head(p) \in Told /\ Tail(p) \in Seq(Told) /\ Len(Tail(p)) = Len(p) - 1 /\ Len(p) \in Nat \ {0}
         /\ LiesIn(<<Head(p)>>, q, n) /\ LiesIn(Tail(p), q, n + 1)
PROOF
  <1>1. /\ Head(p) \in Told /\ Tail(p) \in Seq(Told) /\ Len(Tail(p)) = Len(p) - 1 /\ Len(p) \in Nat \ {0}
        /\ Head(p) = p[1] /\ \A i \in 1..(Len(p) - 1) : Tail(p)[i] = p[i + 1]
    BY HeadTailProperties, EmptySeq
  <1>2. n + Len(p) <= Len(q) /\ Len(q) \in Nat /\ \A i \in 1..Len(p) : p[i] = q[n + i]
    BY DEF LiesIn
  <1>3. LiesIn(<<Head(p)>>, q, n)
    BY <1>1, <1>2 DEF LiesIn
  <1>4. ASSUME NEW i \in 1..(Len(p) - 1) PROVE Tail(p)[i] = q[(n + 1) + i]
    <2>1. i + 1 \in 1..Len(p) /\ n + (i + 1) = (n + 1) + i
      BY <1>1
    <2> QED BY <1>1, <1>2, <2>1
  <1> QED BY <1>1, <1>2, <1>3, <1>4 DEF LiesIn

\* What a broken connection has left of it lies where it lay.
LEMMA LiesInPart ==
  ASSUME NEW p \in Seq(Told), NEW q \in Seq(Told), NEW n \in Nat, LiesIn(p, q, n), NEW k \in 0..Len(p)
  PROVE  SubSeq(p, 1, k) \in Seq(Told) /\ Len(SubSeq(p, 1, k)) = k /\ LiesIn(SubSeq(p, 1, k), q, n)
PROOF
  <1>1. /\ SubSeq(p, 1, k) \in Seq(Told) /\ Len(SubSeq(p, 1, k)) = k /\ Len(p) \in Nat /\ Len(q) \in Nat
        /\ \A i \in 1..k : SubSeq(p, 1, k)[i] = p[i]
    OBVIOUS
  <1> QED BY <1>1 DEF LiesIn

\* Nothing is on its way before the first press.
LEMMA StreamInit == Init => StreamInv
PROOF
  <1> SUFFICES ASSUME Init PROVE StreamInv
    OBVIOUS
  <1>1. <<>> \in Seq(Told) /\ Len(<<>>) = 0 /\ Presses \in Nat
    BY EmptySeq, StreamAssumption
  <1>2. setting.cap \in Nat \ {0} /\ setting.window \in Nat \ {0}
    BY StreamAssumption DEF Init, Setting
  <1>3. StreamTypes
    BY <1>1, <1>2 DEF Init, StreamTypes, Idle
  <1>4. \A s \in Sync : Way(s) /\ client[s] = "off" /\ MadeUp(s)
    BY DEF Init, Way, Fresh, MadeUp, Answered, Idle
  <1> QED BY <1>3, <1>4 DEF StreamInv

\* A step that moves one sync on, and no command.
LEMMA OneWay ==
  ASSUME StreamInv, StreamTypes', UNCHANGED <<setting, pressed, wait>>, NEW s \in Sync, Way(s)',
         \A t \in Sync \ {s} : WayState(t)' = WayState(t),
         client[s] = "closed" => client'[s] = "closed", client[s] = "off" => client'[s] = "off"
  PROVE  StreamInv'
PROOF
  <1>1. ASSUME NEW t \in Sync PROVE Way(t)'
    BY <1>1, WayLasts DEF StreamInv
  <1>2. \A t \in Sync : client[t] \in {"closed", "off"} => client'[t] = client[t]
    BY DEF WayState
  <1>3. ASSUME NEW t \in Sync PROVE MadeUp(t)'
    BY <1>2 DEF StreamInv, MadeUp, Answered
  <1>4. \A t \in Sync : t > pressed' => client'[t] = "off"
    BY <1>2 DEF StreamInv
  <1> QED BY <1>1, <1>3, <1>4 DEF StreamInv

\* What is on the way of s, and how much of it.
LEMMA WayTypes ==
  ASSUME StreamTypes, NEW s \in Sync
  PROVE  /\ taken[s] \in Seq(Told) /\ sent[s] \in Seq(Told) /\ wire[s] \in Seq(Told) /\ channel[s] \in Seq(Told)
         /\ InClient(s) \in Seq(Told) /\ InHandler(s) \in Seq(Told)
         /\ Len(taken[s]) \in Nat /\ Len(sent[s]) \in Nat /\ Len(wire[s]) \in Nat /\ Len(channel[s]) \in Nat
         /\ Len(InClient(s)) = (IF client[s] = "forward" THEN 1 ELSE 0)
         /\ Len(InHandler(s)) = (IF handler[s] = "send" THEN 1 ELSE 0)
         /\ Received(s) \in Nat /\ Passed(s) \in Nat /\ Drained(s) \in Nat
PROOF
  <1>1. /\ taken[s] \in Seq(Told) /\ sent[s] \in Seq(Told) /\ wire[s] \in Seq(Told) /\ channel[s] \in Seq(Told)
        /\ handler[s] = "send" => sending[s] \in Told
        /\ client[s] = "forward" => forwarding[s] \in Told
    BY DEF StreamTypes
  <1>2. /\ InClient(s) \in Seq(Told) /\ InHandler(s) \in Seq(Told)
        /\ Len(InClient(s)) = IF client[s] = "forward" THEN 1 ELSE 0
        /\ Len(InHandler(s)) = IF handler[s] = "send" THEN 1 ELSE 0
    BY <1>1 DEF InClient, InHandler
  <1>3. /\ Len(taken[s]) \in Nat /\ Len(sent[s]) \in Nat /\ Len(wire[s]) \in Nat /\ Len(channel[s]) \in Nat
    BY <1>1, LenProperties
  <1>4. Len(InClient(s)) \in Nat /\ Len(InHandler(s)) \in Nat
    BY <1>2, LenProperties
  <1>5. Received(s) \in Nat
    BY <1>3, <1>4 DEF Received
  <1>6. Passed(s) \in Nat
    BY <1>3, <1>5 DEF Passed
  <1>7. Drained(s) \in Nat
    BY <1>4, <1>6 DEF Drained
  <1> QED BY <1>1, <1>2, <1>3, <1>5, <1>6, <1>7

-------------------------------------------------------------------------------
(* Engine.Apply.                                                           *)

\* An event goes into the channel.
LEMMA EmitsKeeps ==
  ASSUME StreamInv, NEW s \in Sync, NEW e \in Told, apply[s] = "run", Emits(s, e),
         apply' \in {apply, [apply EXCEPT ![s] = "failed"]},
         UNCHANGED <<setting, handler, sending, netVars, clientVars, uiVars>>
  PROVE  StreamInv'
PROOF
  <1>1. PICK c, q, c2, q2 : c = channel[s] /\ q = sent[s] /\ c2 = Append(c, e) /\ q2 = Append(q, e)
    OBVIOUS
  <1>2. /\ StreamTypes /\ c \in Seq(Told) /\ q \in Seq(Told) /\ Len(c) < setting.cap /\ setting.cap \in Nat
        /\ channel' = [channel EXCEPT ![s] = c2] /\ sent' = [sent EXCEPT ![s] = q2]
        /\ UNCHANGED <<setting, handler, sending, wire, link, client, forwarding, taken, pressed, listening, wait>>
    BY <1>1, StreamAssumption DEF StreamInv, StreamTypes, Setting, Emits, netVars, clientVars, uiVars
  <1>3. /\ c2 \in Seq(Told) /\ q2 \in Seq(Told) /\ Len(c2) = Len(c) + 1 /\ Len(q2) = Len(q) + 1
        /\ Len(c) \in Nat /\ Len(q) \in Nat
    BY <1>1, <1>2
  <1>4. /\ channel'[s] = c2 /\ sent'[s] = q2 /\ apply'[s] \in {"run", "failed"}
        /\ \A t \in Sync \ {s} : channel'[t] = channel[t] /\ sent'[t] = sent[t] /\ apply'[t] = apply[t]
    BY <1>2 DEF StreamTypes
  <1>5. \A t \in Sync \ {s} : WayState(t)' = WayState(t)
    BY <1>2, <1>4 DEF WayState
  <1>6. StreamTypes'
    <2>1. /\ channel' \in [Sync -> Seq(Told)] /\ sent' \in [Sync -> Seq(Told)]
          /\ apply' \in [Sync -> {"off", "run", "done", "failed"}]
      BY <1>2, <1>3 DEF StreamTypes
    <2>2. \A t \in Sync : Len(channel'[t]) <= setting.cap
      BY <1>2, <1>3, <1>4 DEF StreamTypes
    <2> QED BY <1>2, <2>1, <2>2 DEF StreamTypes
  <1>7. InPlace(s)'
    <2>1. InPlace(s)
      BY DEF StreamInv, Way
    <2>2. InClient(s)' = InClient(s) /\ InHandler(s)' = InHandler(s)
      BY <1>2 DEF InClient, InHandler
    <2>3. Received(s)' = Received(s) /\ Passed(s)' = Passed(s) /\ Drained(s)' = Drained(s)
      BY <1>2, <2>2 DEF Received, Passed, Drained
    <2>4. \A p \in Seq(Told), n \in Nat : LiesIn(p, q, n) => LiesIn(p, q2, n)
      BY <1>1, <1>2, LiesInMore
    <2>5. LiesIn(taken[s], q2, 0) /\ LiesIn(InClient(s), q2, Len(taken[s])) /\ LiesIn(wire[s], q2, Received(s))
      BY <1>1, <1>2, <2>1, <2>4, WayTypes DEF InPlace
    <2>6. ASSUME link[s] # "broken"
          PROVE  /\ LiesIn(InHandler(s), q2, Passed(s)) /\ LiesIn(c2, q2, Drained(s))
                 /\ Drained(s) + Len(c2) = Len(q2)
      <3>1. LiesIn(InHandler(s), q, Passed(s)) /\ LiesIn(c, q, Drained(s)) /\ Drained(s) + Len(c) = Len(q)
        BY <1>1, <2>1, <2>6 DEF InPlace
      <3>2. LiesIn(InHandler(s), q2, Passed(s)) /\ LiesIn(c, q2, Drained(s)) /\ Drained(s) \in Nat
        BY <1>2, <2>4, <3>1, WayTypes
      <3>3. LiesIn(<<e>>, q2, Drained(s) + Len(c))
        BY <1>1, <1>2, <3>1, LiesInMore
      <3>4. LiesIn(c2, q2, Drained(s))
        BY <1>1, <1>2, <1>3, <3>2, <3>3, LiesInLast
      <3> QED BY <1>3, <3>1, <3>2, <3>4
    <2> QED BY <1>2, <1>4, <2>2, <2>3, <2>5, <2>6 DEF InPlace
  <1>8. Way(s)'
    <2>1. client[s] \notin {"off", "call"} /\ link[s] # "ended"
      BY DEF StreamInv, Way, Fresh
    <2> QED BY <1>2, <1>4, <1>7, <2>1 DEF StreamInv, Way
  <1> QED BY <1>2, <1>5, <1>6, <1>8, OneWay

\* The steps of Apply.
LEMMA EngineKeeps ==
  ASSUME StreamInv, NEW s \in Sync, Engine(s), UNCHANGED setting
  PROVE  StreamInv'
PROOF
  <1>1. CASE Report(s)
    <2>1. Len(sent[s]) \in Nat /\ Len(Script) \in Nat
      BY ScriptIsTold, LenProperties DEF StreamInv, StreamTypes
    <2>2. Len(sent[s]) + 1 \in 1..Len(Script)
      BY <1>1, <2>1 DEF Report
    <2>3. Script[Len(sent[s]) + 1] \in Told
      BY <2>2, ScriptIsTold, ElementOfSeq
    <2> QED BY <1>1, <2>3, EmitsKeeps DEF Report
  <1>2. CASE ReportFailure(s)
    <2>1. [kind |-> "failed", package |-> 0] \in Told
      BY StreamAssumption DEF Told, Event, Kinds
    <2> QED BY <1>2, <2>1, EmitsKeeps DEF ReportFailure
  <1>3. CASE Save(s)
    <2>1. /\ apply[s] = "run" /\ apply' = [apply EXCEPT ![s] = "done"]
          /\ UNCHANGED <<sent, channel, handler, sending, wire, link, client, forwarding, taken, pressed, listening, wait>>
      BY <1>3 DEF Save, netVars, clientVars, uiVars
    <2>2. StreamTypes'
      BY <2>1 DEF StreamInv, StreamTypes
    <2>3. apply'[s] = "done"
      BY <2>1 DEF StreamInv, StreamTypes
    <2>4. Way(s)'
      <3>1. InPlace(s)'
        BY <2>1 DEF StreamInv, Way, InPlace, Passed, Drained, Received, InClient, InHandler
      <3> QED BY <2>1, <2>3, <3>1 DEF StreamInv, Way, Fresh
    <2>5. \A t \in Sync \ {s} : WayState(t)' = WayState(t)
      BY <2>1 DEF StreamInv, StreamTypes, WayState
    <2> QED BY <2>1, <2>2, <2>4, <2>5, OneWay
  <1> QED BY <1>1, <1>2, <1>3 DEF Engine

-------------------------------------------------------------------------------
(* The handler and the connection.                                         *)

\* The handler takes an event.
LEMMA TakeKeeps ==
  ASSUME StreamInv, NEW s \in Sync, Take(s), UNCHANGED setting
  PROVE  StreamInv'
PROOF
  <1>1. PICK c, q : c = channel[s] /\ q = sent[s]
    OBVIOUS
  <1>2. /\ StreamTypes /\ c \in Seq(Told) /\ q \in Seq(Told) /\ c # <<>> /\ handler[s] = "loop"
        /\ handler' = [handler EXCEPT ![s] = "send"] /\ sending' = [sending EXCEPT ![s] = Head(c)]
        /\ channel' = [channel EXCEPT ![s] = Tail(c)]
        /\ UNCHANGED <<setting, apply, sent, wire, link, client, forwarding, taken, pressed, listening, wait>>
    BY <1>1 DEF StreamInv, StreamTypes, Take, netVars, clientVars, uiVars
  <1>3. /\ Head(c) \in Told /\ Tail(c) \in Seq(Told) /\ Len(Tail(c)) = Len(c) - 1 /\ Len(c) \in Nat \ {0}
    BY <1>2, HeadTailProperties, EmptySeq
  <1>4. /\ handler'[s] = "send" /\ sending'[s] = Head(c) /\ channel'[s] = Tail(c)
        /\ \A t \in Sync \ {s} : handler'[t] = handler[t] /\ sending'[t] = sending[t] /\ channel'[t] = channel[t]
    BY <1>2 DEF StreamTypes
  <1>5. \A t \in Sync \ {s} : WayState(t)' = WayState(t)
    BY <1>2, <1>4 DEF WayState
  <1>6. StreamTypes'
    <2>1. /\ channel' \in [Sync -> Seq(Told)] /\ sending' \in [Sync -> Told \cup {None}]
          /\ handler' \in [Sync -> {"off", "loop", "send", "returned"}]
      BY <1>2, <1>3 DEF StreamTypes
    <2>2. setting.cap \in Nat
      BY <1>2, StreamAssumption DEF StreamTypes, Setting
    <2>3. \A t \in Sync : Len(channel'[t]) <= setting.cap /\ (handler'[t] = "send" => sending'[t] \in Told)
      BY <1>1, <1>2, <1>3, <1>4, <2>2 DEF StreamTypes
    <2> QED BY <1>2, <2>1, <2>3 DEF StreamTypes
  <1>7. Way(s) /\ apply[s] # "off" /\ InPlace(s) /\ link[s] # "ended" /\ client[s] \notin {"off", "call"}
    BY <1>2 DEF StreamInv, Way, Fresh
  <1>8. InPlace(s)'
    <2>1. InClient(s)' = InClient(s) /\ InHandler(s)' = <<Head(c)>> /\ InHandler(s) = <<>>
      BY <1>2, <1>4 DEF InClient, InHandler
    <2>2. Received(s)' = Received(s) /\ Passed(s)' = Passed(s) /\ Drained(s)' = Passed(s) + 1 /\ Drained(s) = Passed(s)
      BY <1>2, <2>1, WayTypes DEF Received, Passed, Drained
    <2>3. ASSUME link[s] # "broken"
          PROVE  /\ LiesIn(<<Head(c)>>, q, Passed(s)) /\ LiesIn(Tail(c), q, Passed(s) + 1)
                 /\ Passed(s) + 1 + Len(Tail(c)) = Len(q)
      <3>1. LiesIn(c, q, Passed(s)) /\ Passed(s) + Len(c) = Len(q) /\ Passed(s) \in Nat
        BY <1>1, <1>2, <1>7, <2>2, <2>3, WayTypes DEF InPlace
      <3> QED BY <1>2, <1>3, <3>1, LiesInFirst
    <2> QED BY <1>1, <1>2, <1>4, <1>7, <2>1, <2>2, <2>3 DEF InPlace
  <1>9. Way(s)'
    BY <1>2, <1>4, <1>7, <1>8 DEF Way
  <1> QED BY <1>2, <1>5, <1>6, <1>9, OneWay

\* The handler passes its event on to the stream.
LEMMA SendKeeps ==
  ASSUME StreamInv, NEW s \in Sync, Send(s), UNCHANGED setting
  PROVE  StreamInv'
PROOF
  <1>1. PICK w, q, e, w2 : w = wire[s] /\ q = sent[s] /\ e = sending[s] /\ w2 = Append(w, e)
    OBVIOUS
  <1>2. /\ StreamTypes /\ w \in Seq(Told) /\ q \in Seq(Told) /\ e \in Told /\ handler[s] = "send" /\ link[s] = "up"
        /\ Len(w) < setting.window /\ setting.window \in Nat
        /\ handler' = [handler EXCEPT ![s] = "loop"] /\ sending' = [sending EXCEPT ![s] = None]
        /\ wire' = [wire EXCEPT ![s] = w2]
        /\ UNCHANGED <<setting, apply, sent, channel, link, client, forwarding, taken, pressed, listening, wait>>
    BY <1>1, StreamAssumption DEF StreamInv, StreamTypes, Setting, Send, clientVars, uiVars
  <1>3. w2 \in Seq(Told) /\ Len(w2) = Len(w) + 1 /\ Len(w) \in Nat
    BY <1>1, <1>2
  <1>4. /\ handler'[s] = "loop" /\ sending'[s] = None /\ wire'[s] = w2
        /\ \A t \in Sync \ {s} : handler'[t] = handler[t] /\ sending'[t] = sending[t] /\ wire'[t] = wire[t]
    BY <1>2 DEF StreamTypes
  <1>5. \A t \in Sync \ {s} : WayState(t)' = WayState(t)
    BY <1>2, <1>4 DEF WayState
  <1>6. StreamTypes'
    <2>1. /\ wire' \in [Sync -> Seq(Told)] /\ sending' \in [Sync -> Told \cup {None}]
          /\ handler' \in [Sync -> {"off", "loop", "send", "returned"}]
      BY <1>2, <1>3 DEF StreamTypes
    <2>2. \A t \in Sync : Len(wire'[t]) <= setting.window /\ (handler'[t] = "send" => sending'[t] \in Told)
      BY <1>2, <1>3, <1>4 DEF StreamTypes
    <2> QED BY <1>2, <2>1, <2>2 DEF StreamTypes
  <1>7. Way(s) /\ apply[s] # "off" /\ InPlace(s) /\ client[s] \notin {"off", "call"}
    BY <1>2 DEF StreamInv, Way, Fresh
  <1>8. InPlace(s)'
    <2>1. InClient(s)' = InClient(s) /\ InHandler(s)' = <<>> /\ InHandler(s) = <<e>>
      BY <1>1, <1>2, <1>4 DEF InClient, InHandler
    <2>2. /\ Received(s)' = Received(s) /\ Received(s) \in Nat /\ Passed(s) = Received(s) + Len(w)
          /\ Passed(s)' = Passed(s) + 1 /\ Drained(s) = Passed(s) + 1 /\ Drained(s)' = Drained(s)
      <3>1. Received(s)' = Received(s)
        BY <1>2, <2>1 DEF Received
      <3>2. Received(s) \in Nat /\ Passed(s) = Received(s) + Len(w)
        BY <1>1, <1>2, WayTypes DEF Passed
      <3>3. Passed(s)' = Received(s) + Len(w2)
        BY <1>4, <3>1 DEF Passed
      <3>4. Passed(s)' = Passed(s) + 1
        BY <1>3, <3>2, <3>3
      <3>5. Len(<<e>>) = 1 /\ Len(<<>>) = 0
        OBVIOUS
      <3>6. Drained(s) = Passed(s) + 1 /\ Drained(s)' = Passed(s)' + 0
        BY <2>1, <3>5 DEF Drained
      <3> QED BY <1>3, <3>1, <3>2, <3>4, <3>6
    <2>3. /\ LiesIn(w, q, Received(s)) /\ LiesIn(<<e>>, q, Received(s) + Len(w))
          /\ LiesIn(channel[s], q, Drained(s)) /\ Drained(s) + Len(channel[s]) = Len(q)
      BY <1>1, <1>2, <1>7, <2>1, <2>2 DEF InPlace
    <2>4. LiesIn(w2, q, Received(s)) /\ LiesIn(<<>>, q, Received(s) + Len(w) + 1)
      BY <1>1, <1>2, <2>2, <2>3, LiesInLast
    <2> QED BY <1>1, <1>2, <1>4, <1>7, <2>1, <2>2, <2>3, <2>4 DEF InPlace
  <1>9. Way(s)'
    BY <1>2, <1>4, <1>7, <1>8 DEF Way
  <1> QED BY <1>2, <1>5, <1>6, <1>9, OneWay

\* On a broken connection the event is lost, and the handler may return.
LEMMA LoseKeeps ==
  ASSUME StreamInv, NEW s \in Sync, SendLost(s) \/ SendFails(s), UNCHANGED setting
  PROVE  StreamInv'
PROOF
  <1>1. PICK h \in {"loop", "returned"} : handler' = [handler EXCEPT ![s] = h]
    BY DEF SendLost, SendFails
  <1>2. /\ StreamTypes /\ handler[s] = "send" /\ link[s] = "broken" /\ sending' = [sending EXCEPT ![s] = None]
        /\ UNCHANGED <<setting, apply, sent, channel, wire, link, client, forwarding, taken, pressed, listening, wait>>
    BY DEF StreamInv, SendLost, SendFails, netVars, clientVars, uiVars
  <1>3. /\ handler'[s] = h /\ \A t \in Sync \ {s} : handler'[t] = handler[t] /\ sending'[t] = sending[t]
    BY <1>1, <1>2 DEF StreamTypes
  <1>4. \A t \in Sync \ {s} : WayState(t)' = WayState(t)
    BY <1>2, <1>3 DEF WayState
  <1>5. StreamTypes'
    <2>1. sending' \in [Sync -> Told \cup {None}] /\ handler' \in [Sync -> {"off", "loop", "send", "returned"}]
      BY <1>1, <1>2 DEF StreamTypes
    <2>2. \A t \in Sync : handler'[t] = "send" => sending'[t] \in Told
      BY <1>1, <1>2, <1>3 DEF StreamTypes
    <2> QED BY <1>2, <2>1, <2>2 DEF StreamTypes
  <1>6. Way(s) /\ apply[s] # "off" /\ InPlace(s) /\ client[s] \notin {"off", "call"}
    BY <1>2 DEF StreamInv, Way, Fresh
  <1>7. InPlace(s)'
    <2>1. InClient(s)' = InClient(s) /\ Received(s)' = Received(s)
      BY <1>2 DEF InClient, Received
    <2> QED BY <1>2, <1>6, <2>1 DEF InPlace
  <1>8. Way(s)'
    BY <1>2, <1>3, <1>6, <1>7 DEF Way
  <1> QED BY <1>2, <1>4, <1>5, <1>8, OneWay

\* The handler returns, and ends the stream when it still holds.
LEMMA HandlerReturnsKeeps ==
  ASSUME StreamInv, NEW s \in Sync, HandlerReturns(s), UNCHANGED setting
  PROVE  StreamInv'
PROOF
  <1>1. PICK l : l = IF link[s] = "up" THEN "ended" ELSE link[s]
    OBVIOUS
  <1>2. /\ StreamTypes /\ handler[s] = "loop" /\ apply[s] \in {"done", "failed"}
        /\ handler' = [handler EXCEPT ![s] = "returned"] /\ link' = [link EXCEPT ![s] = l]
        /\ UNCHANGED <<setting, apply, sent, channel, sending, wire, client, forwarding, taken, pressed, listening, wait>>
    BY <1>1 DEF StreamInv, StreamTypes, HandlerReturns, ChannelClosed, clientVars, uiVars
  <1>3. /\ l \in {"off", "ended", "broken"} /\ handler'[s] = "returned" /\ link'[s] = l
        /\ \A t \in Sync \ {s} : handler'[t] = handler[t] /\ link'[t] = link[t]
    BY <1>1, <1>2 DEF StreamTypes
  <1>4. \A t \in Sync \ {s} : WayState(t)' = WayState(t)
    BY <1>2, <1>3 DEF WayState
  <1>5. StreamTypes'
    <2>1. /\ link' \in [Sync -> {"off", "up", "ended", "broken"}]
          /\ handler' \in [Sync -> {"off", "loop", "send", "returned"}]
      BY <1>2, <1>3 DEF StreamTypes
    <2>2. \A t \in Sync : handler'[t] = "send" => sending'[t] \in Told
      BY <1>2, <1>3 DEF StreamTypes
    <2> QED BY <1>2, <2>1, <2>2 DEF StreamTypes
  <1>6. Way(s) /\ InPlace(s) /\ client[s] \notin {"off", "call"}
    BY <1>2 DEF StreamInv, Way, Fresh
  <1>7. InPlace(s)'
    <2>1. InClient(s)' = InClient(s) /\ InHandler(s)' = InHandler(s)
      BY <1>2, <1>3 DEF InClient, InHandler
    <2>2. Received(s)' = Received(s) /\ Passed(s)' = Passed(s) /\ Drained(s)' = Drained(s)
      BY <1>2, <2>1 DEF Received, Passed, Drained
    <2>3. link'[s] # "broken" => link[s] # "broken"
      BY <1>1, <1>3
    <2> QED BY <1>2, <1>6, <2>1, <2>2, <2>3 DEF InPlace
  <1>8. Way(s)'
    <2>1. client[s] = "closed" => l \in {"ended", "broken"}
      BY <1>1, <1>6 DEF Way
    <2>2. l = "broken" => setting.lossy
      BY <1>1, <1>6 DEF Way
    <2> QED BY <1>2, <1>3, <1>6, <1>7, <2>1, <2>2 DEF Way
  <1> QED BY <1>2, <1>4, <1>5, <1>8, OneWay

\* The connection breaks, and some of what is on it is lost.
LEMMA BreakKeeps ==
  ASSUME StreamInv, NEW s \in Sync, Break(s), UNCHANGED setting
  PROVE  StreamInv'
PROOF
  <1>1. PICK w, q : w = wire[s] /\ q = sent[s]
    OBVIOUS
  <1>2. PICK n, w2 : n \in 0..Len(w) /\ w2 = SubSeq(w, 1, n) /\ wire' = [wire EXCEPT ![s] = w2]
    BY <1>1 DEF Break, StreamInv, StreamTypes
  <1>3. /\ StreamTypes /\ setting.lossy /\ w \in Seq(Told) /\ q \in Seq(Told) /\ link' = [link EXCEPT ![s] = "broken"]
        /\ link[s] \in {"up", "ended"}
        /\ UNCHANGED <<setting, apply, sent, channel, handler, sending, client, forwarding, taken, pressed, listening, wait>>
    BY <1>1 DEF StreamInv, StreamTypes, Break, serverVars, clientVars, uiVars
  <1>4. w2 \in Seq(Told) /\ Len(w2) = n /\ Len(w) \in Nat
    BY <1>2, <1>3
  <1>5. /\ link'[s] = "broken" /\ wire'[s] = w2
        /\ \A t \in Sync \ {s} : link'[t] = link[t] /\ wire'[t] = wire[t]
    BY <1>2, <1>3 DEF StreamTypes
  <1>6. \A t \in Sync \ {s} : WayState(t)' = WayState(t)
    BY <1>3, <1>5 DEF WayState
  <1>7. StreamTypes'
    <2>1. wire' \in [Sync -> Seq(Told)] /\ link' \in [Sync -> {"off", "up", "ended", "broken"}]
      BY <1>2, <1>3, <1>4 DEF StreamTypes
    <2>2. setting.window \in Nat
      BY <1>3, StreamAssumption DEF StreamTypes, Setting
    <2>3. \A t \in Sync : Len(wire'[t]) <= setting.window
      BY <1>1, <1>2, <1>3, <1>4, <1>5, <2>2 DEF StreamTypes
    <2> QED BY <1>3, <2>1, <2>3 DEF StreamTypes
  <1>8. Way(s) /\ client[s] \notin {"off", "call"}
    BY <1>3 DEF StreamInv, Way, Fresh
  <1>9. ASSUME InPlace(s) PROVE InPlace(s)'
    <2>1. InClient(s)' = InClient(s) /\ Received(s)' = Received(s) /\ Received(s) \in Nat
      BY <1>3, WayTypes DEF InClient, Received
    <2>2. LiesIn(w, q, Received(s))
      BY <1>1, <1>9 DEF InPlace
    <2>3. LiesIn(w2, q, Received(s))
      BY <1>2, <1>3, <2>1, <2>2, LiesInPart
    <2> QED BY <1>1, <1>3, <1>5, <1>9, <2>1, <2>3 DEF InPlace
  <1>10. Way(s)'
    BY <1>3, <1>5, <1>8, <1>9 DEF Way
  <1> QED BY <1>3, <1>6, <1>7, <1>10, OneWay

-------------------------------------------------------------------------------
(* The client.                                                             *)

\* The stream opens, and Apply begins.
LEMMA ConnectKeeps ==
  ASSUME StreamInv, NEW s \in Sync, Connect(s), UNCHANGED setting
  PROVE  StreamInv'
PROOF
  <1>1. /\ StreamTypes /\ client[s] = "call" /\ client' = [client EXCEPT ![s] = "recv"]
        /\ link' = [link EXCEPT ![s] = "up"] /\ handler' = [handler EXCEPT ![s] = "loop"]
        /\ apply' = [apply EXCEPT ![s] = "run"]
        /\ UNCHANGED <<setting, sent, channel, sending, wire, forwarding, taken, pressed, listening, wait>>
    BY DEF StreamInv, Connect, uiVars
  <1>2. /\ client'[s] = "recv" /\ link'[s] = "up" /\ handler'[s] = "loop" /\ apply'[s] = "run"
        /\ \A t \in Sync \ {s} : /\ client'[t] = client[t] /\ link'[t] = link[t]
                                 /\ handler'[t] = handler[t] /\ apply'[t] = apply[t]
    BY <1>1 DEF StreamTypes
  <1>3. \A t \in Sync \ {s} : WayState(t)' = WayState(t)
    BY <1>1, <1>2 DEF WayState
  <1>4. StreamTypes'
    <2>1. /\ client' \in [Sync -> {"off", "call", "recv", "forward", "closed"}]
          /\ link' \in [Sync -> {"off", "up", "ended", "broken"}]
          /\ handler' \in [Sync -> {"off", "loop", "send", "returned"}]
          /\ apply' \in [Sync -> {"off", "run", "done", "failed"}]
      BY <1>1 DEF StreamTypes
    <2>2. \A t \in Sync : /\ handler'[t] = "send" => sending'[t] \in Told
                          /\ client'[t] = "forward" => forwarding'[t] \in Told
      BY <1>1, <1>2 DEF StreamTypes
    <2> QED BY <1>1, <2>1, <2>2 DEF StreamTypes
  <1>5. Fresh(s)
    BY <1>1 DEF StreamInv, Way
  <1>6. InPlace(s)'
    <2>1. /\ taken'[s] = <<>> /\ sent'[s] = <<>> /\ wire'[s] = <<>> /\ channel'[s] = <<>>
          /\ InClient(s)' = <<>> /\ InHandler(s)' = <<>>
      BY <1>1, <1>2, <1>5 DEF Fresh, InClient, InHandler
    <2>2. Len(<<>>) = 0 /\ LiesIn(<<>>, <<>>, 0)
      BY DEF LiesIn
    <2>3. Received(s)' = 0
      BY <2>1, <2>2 DEF Received
    <2>4. Passed(s)' = 0
      BY <2>1, <2>2, <2>3 DEF Passed
    <2>5. Drained(s)' = 0
      BY <2>1, <2>2, <2>4 DEF Drained
    <2> QED BY <2>1, <2>2, <2>3, <2>4, <2>5 DEF InPlace
  <1>7. Way(s)'
    BY <1>2, <1>6 DEF Way
  <1> QED BY <1>1, <1>3, <1>4, <1>7, OneWay

\* The handler fails before Apply begins.
LEMMA ConnectNoPlanKeeps ==
  ASSUME StreamInv, NEW s \in Sync, ConnectNoPlan(s), UNCHANGED setting
  PROVE  StreamInv'
PROOF
  <1>1. PICK w : w = <<[kind |-> "failed", package |-> 0]>>
    OBVIOUS
  <1>2. w \in Seq(Told) /\ Len(w) = 1
    <2>1. [kind |-> "failed", package |-> 0] \in Told
      BY StreamAssumption DEF Told, Event, Kinds
    <2> QED BY <1>1, <2>1
  <1>3. /\ StreamTypes /\ client[s] = "call" /\ client' = [client EXCEPT ![s] = "recv"]
        /\ link' = [link EXCEPT ![s] = "ended"] /\ handler' = [handler EXCEPT ![s] = "returned"]
        /\ wire' = [wire EXCEPT ![s] = w] /\ setting.window \in Nat \ {0}
        /\ UNCHANGED <<setting, apply, sent, channel, sending, forwarding, taken, pressed, listening, wait>>
    BY <1>1, StreamAssumption DEF StreamInv, StreamTypes, Setting, ConnectNoPlan, uiVars
  <1>4. /\ client'[s] = "recv" /\ link'[s] = "ended" /\ handler'[s] = "returned" /\ wire'[s] = w
        /\ \A t \in Sync \ {s} : /\ client'[t] = client[t] /\ link'[t] = link[t]
                                 /\ handler'[t] = handler[t] /\ wire'[t] = wire[t]
    BY <1>3 DEF StreamTypes
  <1>5. \A t \in Sync \ {s} : WayState(t)' = WayState(t)
    BY <1>3, <1>4 DEF WayState
  <1>6. StreamTypes'
    <2>1. /\ client' \in [Sync -> {"off", "call", "recv", "forward", "closed"}]
          /\ link' \in [Sync -> {"off", "up", "ended", "broken"}]
          /\ handler' \in [Sync -> {"off", "loop", "send", "returned"}]
          /\ wire' \in [Sync -> Seq(Told)]
      BY <1>2, <1>3 DEF StreamTypes
    <2>2. ASSUME NEW t \in Sync
          PROVE  /\ handler'[t] = "send" => sending'[t] \in Told
                 /\ client'[t] = "forward" => forwarding'[t] \in Told
                 /\ Len(wire'[t]) <= setting'.window /\ Len(channel'[t]) <= setting'.cap
      <3>1. CASE t = s
        <4>1. 1 <= setting.window /\ Len(channel[s]) <= setting.cap
          BY <1>3 DEF StreamTypes
        <4>2. Len(wire'[t]) = 1 /\ handler'[t] = "returned" /\ client'[t] = "recv"
          BY <1>2, <1>4, <3>1
        <4>3. setting' = setting /\ channel' = channel
          BY <1>3
        <4> QED BY <3>1, <4>1, <4>2, <4>3
      <3>2. CASE t # s
        BY <1>3, <1>4, <3>2 DEF StreamTypes
      <3> QED BY <3>1, <3>2
    <2>3. /\ setting' \in Settings /\ apply' \in [Sync -> {"off", "run", "done", "failed"}]
          /\ sent' \in [Sync -> Seq(Told)] /\ channel' \in [Sync -> Seq(Told)] /\ taken' \in [Sync -> Seq(Told)]
          /\ sending' \in [Sync -> Told \cup {None}] /\ forwarding' \in [Sync -> Told \cup {None}]
          /\ pressed' \in 0..Presses /\ listening' \in Sync \cup {None}
          /\ wait' \in [Sync -> [on : Sync \cup {None}, got : Event \cup {None}]]
      BY <1>3 DEF StreamTypes
    <2> QED BY <2>1, <2>2, <2>3 DEF StreamTypes
  <1>7. Fresh(s)
    BY <1>3 DEF StreamInv, Way
  <1>8. Way(s)'
    BY <1>3, <1>4, <1>7 DEF Way, Fresh
  <1> QED BY <1>3, <1>5, <1>6, <1>8, OneWay

\* The client goroutine reads an event.
LEMMA RecvKeeps ==
  ASSUME StreamInv, NEW s \in Sync, Recv(s), UNCHANGED setting
  PROVE  StreamInv'
PROOF
  <1>1. PICK w, q : w = wire[s] /\ q = sent[s]
    OBVIOUS
  <1>2. /\ StreamTypes /\ w \in Seq(Told) /\ q \in Seq(Told) /\ w # <<>> /\ client[s] = "recv"
        /\ client' = [client EXCEPT ![s] = "forward"] /\ forwarding' = [forwarding EXCEPT ![s] = Head(w)]
        /\ wire' = [wire EXCEPT ![s] = Tail(w)]
        /\ UNCHANGED <<setting, apply, sent, channel, handler, sending, link, taken, pressed, listening, wait>>
    BY <1>1 DEF StreamInv, StreamTypes, Recv, serverVars, uiVars
  <1>3. /\ Head(w) \in Told /\ Tail(w) \in Seq(Told) /\ Len(Tail(w)) = Len(w) - 1 /\ Len(w) \in Nat \ {0}
    BY <1>2, HeadTailProperties, EmptySeq
  <1>4. /\ client'[s] = "forward" /\ forwarding'[s] = Head(w) /\ wire'[s] = Tail(w)
        /\ \A t \in Sync \ {s} : client'[t] = client[t] /\ forwarding'[t] = forwarding[t] /\ wire'[t] = wire[t]
    BY <1>2 DEF StreamTypes
  <1>5. \A t \in Sync \ {s} : WayState(t)' = WayState(t)
    BY <1>2, <1>4 DEF WayState
  <1>6. StreamTypes'
    <2>1. /\ wire' \in [Sync -> Seq(Told)] /\ forwarding' \in [Sync -> Told \cup {None}]
          /\ client' \in [Sync -> {"off", "call", "recv", "forward", "closed"}]
      BY <1>2, <1>3 DEF StreamTypes
    <2>2. setting.window \in Nat
      BY <1>2, StreamAssumption DEF StreamTypes, Setting
    <2>3. \A t \in Sync : Len(wire'[t]) <= setting.window /\ (client'[t] = "forward" => forwarding'[t] \in Told)
      BY <1>1, <1>2, <1>3, <1>4, <2>2 DEF StreamTypes
    <2> QED BY <1>2, <2>1, <2>3 DEF StreamTypes
  <1>7. ASSUME InPlace(s) PROVE InPlace(s)'
    <2>1. InHandler(s)' = InHandler(s) /\ InClient(s)' = <<Head(w)>> /\ InClient(s) = <<>>
      BY <1>2, <1>4 DEF InClient, InHandler
    <2>2. Len(taken[s]) \in Nat /\ Len(<<Head(w)>>) = 1 /\ Len(<<>>) = 0
      BY <1>2, WayTypes
    <2>3. Received(s) = Len(taken[s]) /\ Received(s)' = Len(taken[s]) + 1
      BY <1>2, <2>1, <2>2 DEF Received
    <2>4. Passed(s)' = Passed(s)
      <3>1. Passed(s) = Len(taken[s]) + Len(w)
        BY <1>1, <2>3 DEF Passed
      <3>2. Passed(s)' = Len(taken[s]) + 1 + Len(Tail(w))
        BY <1>4, <2>3 DEF Passed
      <3> QED BY <1>3, <2>2, <3>1, <3>2
    <2>5. Drained(s)' = Drained(s)
      BY <2>1, <2>4 DEF Drained
    <2>6. LiesIn(<<Head(w)>>, q, Len(taken[s])) /\ LiesIn(Tail(w), q, Len(taken[s]) + 1)
      BY <1>1, <1>2, <1>7, <2>2, <2>3, LiesInFirst DEF InPlace
    <2> QED BY <1>1, <1>2, <1>4, <1>7, <2>1, <2>3, <2>4, <2>5, <2>6 DEF InPlace
  <1>8. Way(s)'
    BY <1>2, <1>4, <1>7 DEF StreamInv, Way
  <1> QED BY <1>2, <1>5, <1>6, <1>8, OneWay

\* StartSync is refused, or the stream is at its end.
LEMMA ClientEndsKeeps ==
  ASSUME StreamInv, NEW s \in Sync, ConnectRefused(s) \/ RecvEnds(s), UNCHANGED setting
  PROVE  StreamInv'
PROOF
  <1>1. PICK c : /\ client' = [client EXCEPT ![s] = c]
                 /\ \/ client[s] = "call" /\ c = "off"
                    \/ client[s] = "recv" /\ c = "closed" /\ link[s] \in {"ended", "broken"}
    BY DEF ConnectRefused, RecvEnds
  <1>2. /\ StreamTypes
        /\ UNCHANGED <<setting, apply, sent, channel, handler, sending, wire, link, forwarding, taken, pressed, listening, wait>>
    BY DEF StreamInv, ConnectRefused, RecvEnds, serverVars, netVars, uiVars
  <1>3. client'[s] = c /\ \A t \in Sync \ {s} : client'[t] = client[t]
    BY <1>1, <1>2 DEF StreamTypes
  <1>4. \A t \in Sync \ {s} : WayState(t)' = WayState(t)
    BY <1>2, <1>3 DEF WayState
  <1>5. StreamTypes'
    <2>1. client' \in [Sync -> {"off", "call", "recv", "forward", "closed"}]
      BY <1>1, <1>2 DEF StreamTypes
    <2>2. \A t \in Sync : client'[t] = "forward" => forwarding'[t] \in Told
      BY <1>1, <1>2, <1>3 DEF StreamTypes
    <2> QED BY <1>2, <2>1, <2>2 DEF StreamTypes
  <1>6. ASSUME InPlace(s) PROVE InPlace(s)'
    <2>1. InClient(s)' = InClient(s) /\ InHandler(s)' = InHandler(s)
      BY <1>1, <1>2, <1>3 DEF InClient, InHandler
    <2>2. Received(s)' = Received(s) /\ Passed(s)' = Passed(s) /\ Drained(s)' = Drained(s)
      BY <1>2, <2>1 DEF Received, Passed, Drained
    <2> QED BY <1>2, <1>6, <2>1, <2>2 DEF InPlace
  <1>7. Fresh(s) => Fresh(s)'
    BY <1>2 DEF Fresh
  <1>8. Way(s)'
    BY <1>1, <1>2, <1>3, <1>6, <1>7 DEF StreamInv, Way
  <1> QED BY <1>1, <1>2, <1>3, <1>4, <1>5, <1>8, OneWay

-------------------------------------------------------------------------------
(* The commands and Update.                                                *)

\* A press begins a new way.
LEMMA PressKeeps == StreamInv /\ PressS /\ UNCHANGED setting => StreamInv'
PROOF
  <1> SUFFICES ASSUME StreamInv, PressS, UNCHANGED setting PROVE StreamInv'
    OBVIOUS
  <1>1. PICK s : s = pressed + 1
    OBVIOUS
  <1>2. /\ StreamTypes /\ s \in Sync /\ pressed \in Nat /\ Presses \in Nat
    <2>1. StreamTypes /\ setting \in Setting /\ pressed \in 0..Presses /\ pressed < setting.presses /\ Presses \in Nat
      BY StreamAssumption DEF StreamInv, StreamTypes, PressS
    <2>2. setting.presses \in 1..Presses
      BY <2>1 DEF Setting
    <2> QED BY <1>1, <2>1, <2>2 DEF Sync
  <1>3. /\ client' = [client EXCEPT ![s] = "call"] /\ listening' = s /\ wait' = [wait EXCEPT ![s] = WaitsOn(s)]
        /\ pressed' = s
        /\ UNCHANGED <<setting, apply, sent, channel, handler, sending, wire, link, forwarding, taken>>
    BY <1>1 DEF PressS, serverVars, netVars
  <1>4. /\ client'[s] = "call" /\ \A t \in Sync \ {s} : client'[t] = client[t]
        /\ wait'[s] = WaitsOn(s) /\ \A t \in Sync \ {s} : wait'[t] = wait[t]
    BY <1>2, <1>3 DEF StreamTypes
  <1>5. client[s] = "off"
    BY <1>1, <1>2 DEF StreamInv
  <1>6. StreamTypes'
    <2>1. /\ client' \in [Sync -> {"off", "call", "recv", "forward", "closed"}]
          /\ wait' \in [Sync -> [on : Sync \cup {None}, got : Event \cup {None}]]
      BY <1>2, <1>3 DEF StreamTypes, WaitsOn
    <2>2. \A t \in Sync : client'[t] = "forward" => forwarding'[t] \in Told
      BY <1>2, <1>3, <1>4 DEF StreamTypes
    <2>3. pressed' \in 0..Presses
      BY <1>2, <1>3 DEF Sync
    <2> QED BY <1>2, <1>3, <2>1, <2>2, <2>3 DEF StreamTypes
  <1>7. ASSUME NEW t \in Sync PROVE Way(t)'
    <2>1. CASE t = s
      <3>1. Fresh(s)
        BY <1>2, <1>5 DEF StreamInv, Way
      <3>2. Fresh(s)'
        BY <1>3, <3>1 DEF Fresh
      <3> QED BY <1>4, <2>1, <3>2 DEF Way, Fresh
    <2>2. CASE t # s
      <3>1. WayState(t)' = WayState(t)
        BY <1>3, <1>4, <2>2 DEF WayState
      <3> QED BY <1>3, <3>1, WayLasts DEF StreamInv
    <2> QED BY <2>1, <2>2
  <1>8. ASSUME NEW t \in Sync, t > pressed' PROVE client'[t] = "off"
    <2>1. t # s /\ t > pressed
      BY <1>1, <1>2, <1>3, <1>8 DEF Sync
    <2> QED BY <1>4, <2>1 DEF StreamInv
  <1>9. ASSUME NEW t \in Sync PROVE MadeUp(t)'
    <2>1. CASE t = s
      BY <1>4, <2>1 DEF MadeUp, Answered, WaitsOn
    <2>2. CASE t # s
      BY <1>4, <1>5, <2>2 DEF StreamInv, MadeUp, Answered
    <2> QED BY <2>1, <2>2
  <1> QED BY <1>6, <1>7, <1>8, <1>9 DEF StreamInv

\* A command takes an event of the client goroutine.
LEMMA HearKeeps ==
  ASSUME StreamInv, NEW w \in Sync, Hear(w), UNCHANGED setting
  PROVE  StreamInv'
PROOF
  <1>1. PICK s, h, q, e, h2 : /\ s = wait[w].on /\ h = taken[s] /\ q = sent[s] /\ e = forwarding[s]
                              /\ h2 = Append(h, e)
    OBVIOUS
  <1>2. s \in Sync
    BY <1>1 DEF StreamInv, StreamTypes, Hear
  <1>3. /\ StreamTypes /\ h \in Seq(Told) /\ q \in Seq(Told) /\ e \in Told /\ client[s] = "forward"
        /\ wait' = [wait EXCEPT ![w].got = e] /\ taken' = [taken EXCEPT ![s] = h2]
        /\ client' = [client EXCEPT ![s] = "recv"] /\ forwarding' = [forwarding EXCEPT ![s] = None]
        /\ UNCHANGED <<setting, apply, sent, channel, handler, sending, wire, link, pressed, listening>>
    BY <1>1, <1>2 DEF StreamInv, StreamTypes, Hear, serverVars, netVars
  <1>4. h2 \in Seq(Told) /\ Len(h2) = Len(h) + 1 /\ Len(h) \in Nat
    BY <1>1, <1>3
  <1>5. /\ client'[s] = "recv" /\ forwarding'[s] = None /\ taken'[s] = h2
        /\ \A t \in Sync \ {s} : client'[t] = client[t] /\ forwarding'[t] = forwarding[t] /\ taken'[t] = taken[t]
        /\ wait'[w].on = s /\ wait'[w].got = e
        /\ \A t \in Sync \ {w} : wait'[t] = wait[t]
    BY <1>1, <1>2, <1>3 DEF StreamTypes
  <1>6. e \in Event /\ e.kind # "complete"
    BY <1>3 DEF Told
  <1>7. StreamTypes'
    <2>1. /\ client' \in [Sync -> {"off", "call", "recv", "forward", "closed"}]
          /\ taken' \in [Sync -> Seq(Told)] /\ forwarding' \in [Sync -> Told \cup {None}]
          /\ wait' \in [Sync -> [on : Sync \cup {None}, got : Event \cup {None}]]
      BY <1>2, <1>3, <1>4, <1>6 DEF StreamTypes
    <2>2. \A t \in Sync : client'[t] = "forward" => forwarding'[t] \in Told
      BY <1>2, <1>3, <1>5 DEF StreamTypes
    <2> QED BY <1>3, <2>1, <2>2 DEF StreamTypes
  <1>8. ASSUME InPlace(s) PROVE InPlace(s)'
    <2>1. InHandler(s)' = InHandler(s) /\ InClient(s)' = <<>> /\ InClient(s) = <<e>>
      BY <1>1, <1>3, <1>5 DEF InClient, InHandler
    <2>2. Len(<<e>>) = 1 /\ Len(<<>>) = 0
      OBVIOUS
    <2>3. Received(s) = Len(h) + 1 /\ Received(s)' = Len(h) + 1
      BY <1>1, <1>4, <1>5, <2>1, <2>2 DEF Received
    <2>4. Passed(s)' = Passed(s)
      BY <1>3, <2>3 DEF Passed
    <2>5. Drained(s)' = Drained(s)
      BY <2>1, <2>4 DEF Drained
    <2>6. LiesIn(h, q, 0) /\ LiesIn(<<e>>, q, 0 + Len(h))
      BY <1>1, <1>4, <1>8, <2>1 DEF InPlace
    <2>7. LiesIn(h2, q, 0) /\ LiesIn(<<>>, q, 0 + Len(h) + 1)
      BY <1>1, <1>3, <2>6, LiesInLast
    <2>8. LiesIn(<<>>, q, Len(h2))
      BY <1>4, <2>7
    <2> QED BY <1>1, <1>3, <1>5, <1>8, <2>1, <2>3, <2>4, <2>5, <2>7, <2>8 DEF InPlace
  <1>9. ASSUME NEW t \in Sync PROVE Way(t)'
    <2>1. CASE t = s
      BY <1>2, <1>3, <1>5, <1>8, <2>1 DEF StreamInv, Way, Fresh
    <2>2. CASE t # s
      <3>1. WayState(t)' = WayState(t)
        BY <1>3, <1>5, <2>2 DEF WayState
      <3> QED BY <1>3, <3>1, WayLasts DEF StreamInv
    <2> QED BY <2>1, <2>2
  <1>10. \A t \in Sync : t > pressed' => client'[t] = "off"
    BY <1>2, <1>3, <1>5 DEF StreamInv
  <1>11. ASSUME NEW t \in Sync PROVE MadeUp(t)'
    <2>1. CASE t = w
      BY <1>5, <1>6, <2>1 DEF MadeUp
    <2>2. CASE t # w
      BY <1>3, <1>5, <2>2 DEF StreamInv, MadeUp, Answered
    <2> QED BY <2>1, <2>2
  <1> QED BY <1>7, <1>9, <1>10, <1>11 DEF StreamInv

\* A command makes up its event at the close, or Update gets a message.
LEMMA CommandKeeps ==
  ASSUME StreamInv, NEW w \in Sync, HearClose(w) \/ Update(w), UNCHANGED setting
  PROVE  StreamInv'
PROOF
  <1>1. /\ StreamTypes
        /\ UNCHANGED <<setting, apply, sent, channel, handler, sending, wire, link, client, forwarding, taken, pressed>>
    BY DEF StreamInv, HearClose, Update, serverVars, netVars, clientVars
  <1>2. PICK x : /\ wait' = [wait EXCEPT ![w] = x]
                 /\ x \in [on : Sync \cup {None}, got : Event \cup {None}]
                 /\ x.got # None => x.on \in Sync /\ client[x.on] = "closed"
    <2>1. CASE HearClose(w)
      <3>1. PICK x : x = [wait[w] EXCEPT !.got = [kind |-> "complete", package |-> 0]]
        OBVIOUS
      <3>2. wait' = [wait EXCEPT ![w] = x]
        BY <2>1, <3>1 DEF HearClose
      <3>3. [kind |-> "complete", package |-> 0] \in Event
        BY StreamAssumption DEF Event, Kinds
      <3>4. x.on = wait[w].on /\ x \in [on : Sync \cup {None}, got : Event \cup {None}]
        BY <1>1, <3>1, <3>3 DEF StreamTypes
      <3>5. x.on \in Sync /\ client[x.on] = "closed"
        BY <1>1, <2>1, <3>4 DEF HearClose, StreamTypes
      <3> QED BY <3>2, <3>4, <3>5
    <2>2. CASE Update(w)
      <3>1. PICK x : x = IF listening' = None THEN Idle ELSE WaitsOn(listening')
        OBVIOUS
      <3>2. wait' = [wait EXCEPT ![w] = x] /\ listening' \in Sync \cup {None}
        BY <1>1, <2>2, <3>1 DEF Update, StreamTypes
      <3>3. x.got = None /\ x \in [on : Sync \cup {None}, got : Event \cup {None}]
        BY <3>1, <3>2 DEF Idle, WaitsOn
      <3> QED BY <3>2, <3>3
    <2> QED BY <2>1, <2>2
  <1>3. listening' \in Sync \cup {None}
    BY <1>1 DEF StreamTypes, HearClose, Update
  <1>4. wait'[w] = x /\ \A t \in Sync \ {w} : wait'[t] = wait[t]
    BY <1>1, <1>2 DEF StreamTypes
  <1>5. StreamTypes'
    <2>1. wait' \in [Sync -> [on : Sync \cup {None}, got : Event \cup {None}]]
      BY <1>1, <1>2 DEF StreamTypes
    <2> QED BY <1>1, <1>3, <2>1 DEF StreamTypes
  <1>6. ASSUME NEW t \in Sync PROVE Way(t)'
    <2>1. WayState(t)' = WayState(t)
      BY <1>1 DEF WayState
    <2> QED BY <1>1, <2>1, WayLasts DEF StreamInv
  <1>7. ASSUME NEW t \in Sync PROVE MadeUp(t)'
    <2>1. CASE t = w
      BY <1>1, <1>2, <1>4, <2>1 DEF MadeUp, Answered
    <2>2. CASE t # w
      BY <1>1, <1>4, <2>2 DEF StreamInv, MadeUp, Answered
    <2> QED BY <2>1, <2>2
  <1> QED BY <1>1, <1>5, <1>6, <1>7 DEF StreamInv

\* Every step keeps the invariant.
LEMMA StreamInductive == StreamInv /\ [Next]_vars => StreamInv'
PROOF
  <1> SUFFICES ASSUME StreamInv, [Next]_vars PROVE StreamInv'
    OBVIOUS
  <1>1. CASE UNCHANGED vars
    <2>1. UNCHANGED <<setting, apply, sent, channel, handler, sending, wire, link, client, forwarding, taken,
                      pressed, listening, wait>>
      BY <1>1 DEF vars, serverVars, netVars, clientVars, uiVars
    <2>2. StreamTypes'
      BY <2>1 DEF StreamInv, StreamTypes
    <2>3. ASSUME NEW s \in Sync PROVE Way(s)' /\ (s > pressed' => client'[s] = "off") /\ MadeUp(s)'
      <3>1. WayState(s)' = WayState(s)
        BY <2>1 DEF WayState
      <3>2. Way(s)'
        BY <2>1, <3>1, WayLasts DEF StreamInv
      <3> QED BY <2>1, <3>2 DEF StreamInv, MadeUp, Answered
    <2> QED BY <2>2, <2>3 DEF StreamInv
  <1>2. ASSUME Next PROVE StreamInv'
    <2>1. UNCHANGED setting
      BY <1>2 DEF Next
    <2>2. CASE PressS
      BY <2>1, <2>2, PressKeeps
    <2>3. ASSUME NEW s \in Sync, Engine(s) PROVE StreamInv'
      BY <2>1, <2>3, EngineKeeps
    <2>4. ASSUME NEW s \in Sync, Handler(s) PROVE StreamInv'
      BY <2>1, <2>4, TakeKeeps, SendKeeps, LoseKeeps, HandlerReturnsKeeps DEF Handler
    <2>5. ASSUME NEW s \in Sync, Client(s) PROVE StreamInv'
      BY <2>1, <2>5, ConnectKeeps, ConnectNoPlanKeeps, RecvKeeps, ClientEndsKeeps DEF Client
    <2>6. ASSUME NEW s \in Sync, Break(s) PROVE StreamInv'
      BY <2>1, <2>6, BreakKeeps
    <2>7. ASSUME NEW w \in Sync, Command(w) \/ Update(w) PROVE StreamInv'
      BY <2>1, <2>7, HearKeeps, CommandKeeps DEF Command
    <2> QED BY <1>2, <2>2, <2>3, <2>4, <2>5, <2>6, <2>7 DEF Next
  <1> QED BY <1>1, <1>2

LEMMA StreamAlways == Spec => []StreamInv
PROOF BY StreamInit, StreamInductive, PTL DEF Spec

-------------------------------------------------------------------------------
(* What Update has processed, and what the commands carry to it.           *)

\* Apply reports the script, and a failure at most once and last.
Scripted(s) ==
  \A i \in 1..Len(sent[s]) :
    \/ i \in 1..Len(Script) /\ sent[s][i] = Script[i]
    \/ i = Len(sent[s]) /\ sent[s][i].kind = "failed" /\ apply[s] = "failed"

\* Only the command of its own press waits on s, and it carries what Update has
\* yet to process.
Alone(s) ==
  /\ \A w \in Sync : wait[w].on = s => w = s
  /\ taken[s] = IF Carries(s, s) THEN Append(heard[s], wait[s].got) ELSE heard[s]

HeardWay(s) ==
  /\ Scripted(s)
  /\ Range(heard[s]) \cup Carried(s) = Range(taken[s])
  /\ apply[s] # "off" => Apart(s)
  /\ s \notin shared => Alone(s)
  /\ s > pressed => wait[s] = Idle

HeardInv ==
  /\ heard \in [Sync -> Seq(Told)] /\ shared \subseteq Sync
  /\ \A s \in Sync : HeardWay(s)

\* The script tells no event twice, and no failure.
LEMMA ScriptDistinct ==
  /\ \A i, j \in 1..Len(Script) : Script[i] = Script[j] => i = j
  /\ \A i \in 1..Len(Script) : Script[i].kind # "failed"
PROOF
  <1> DEFINE n == 3 * Packages
  <1> DEFINE Kind(i) == <<"downloading", "extracting", "installed">>[((i - 1) % 3) + 1]
  <1>1. n \in Nat
    BY StreamAssumption
  <1>2. \A i \in 1..n : Script[i].kind = Kind(i) /\ Script[i].package = ((i - 1) \div 3) + 1
    BY DEF Script
  <1>3. 1..Len(Script) = 1..n
    <2>1. DOMAIN Script = 1..n
      BY DEF Script
    <2>2. DOMAIN Script = 1..Len(Script)
      BY ScriptIsTold, LenProperties
    <2> QED BY <2>1, <2>2
  <1>4. ASSUME NEW i \in 1..n
        PROVE  /\ (i - 1) % 3 \in 0..2 /\ (i - 1) \div 3 \in Int
               /\ i - 1 = 3 * ((i - 1) \div 3) + ((i - 1) % 3)
    BY <1>1
  <1>5. \A k \in 0..2 : <<"downloading", "extracting", "installed">>[k + 1] =
                          IF k = 0 THEN "downloading" ELSE IF k = 1 THEN "extracting" ELSE "installed"
    OBVIOUS
  <1>6. ASSUME NEW i \in 1..n
        PROVE  Kind(i) = IF (i - 1) % 3 = 0 THEN "downloading" ELSE IF (i - 1) % 3 = 1 THEN "extracting" ELSE "installed"
    BY <1>4, <1>5
  <1> HIDE DEF Kind, n
  <1>7. ASSUME NEW i \in 1..n, NEW j \in 1..n, Script[i] = Script[j] PROVE i = j
    <2>1. Kind(i) = Kind(j) /\ ((i - 1) \div 3) + 1 = ((j - 1) \div 3) + 1
      <3>1. Script[i].kind = Script[j].kind /\ Script[i].package = Script[j].package
        BY <1>7
      <3> QED BY <1>2, <3>1, Zenon
    <2>2. PICK a, b, k, l : a = (i - 1) \div 3 /\ b = (j - 1) \div 3 /\ k = (i - 1) % 3 /\ l = (j - 1) % 3
      OBVIOUS
    <2>3. a \in Int /\ b \in Int /\ k \in 0..2 /\ l \in 0..2 /\ i - 1 = 3 * a + k /\ j - 1 = 3 * b + l
      BY <1>4, <2>2
    <2>4. k = l
      BY <1>6, <2>1, <2>2, <2>3
    <2>5. a = b
      BY <2>1, <2>2, <2>3
    <2> QED BY <1>1, <2>3, <2>4, <2>5
  <1>8. ASSUME NEW i \in 1..n PROVE Script[i].kind # "failed"
    <2>1. Kind(i) # "failed"
      BY <1>6
    <2> QED BY <1>2, <2>1, Zenon
  <1> QED BY <1>3, <1>7, <1>8

\* So Apply reports nothing twice.
LEMMA SentDistinct ==
  ASSUME StreamTypes, NEW s \in Sync, Scripted(s), NEW i \in 1..Len(sent[s]), NEW j \in 1..Len(sent[s]),
         sent[s][i] = sent[s][j]
  PROVE  i = j
PROOF
  <1>1. Len(sent[s]) \in Nat
    BY WayTypes
  <1>2. CASE i \in 1..Len(Script) /\ j \in 1..Len(Script) /\ sent[s][i] = Script[i] /\ sent[s][j] = Script[j]
    BY <1>2, ScriptDistinct
  <1>3. CASE i = Len(sent[s]) /\ j = Len(sent[s])
    BY <1>3
  <1> QED BY <1>2, <1>3, ScriptDistinct DEF Scripted

\* One more element of a sequence.
LEMMA RangeAppend ==
  ASSUME NEW q \in Seq(Told), NEW e \in Told
  PROVE  /\ Range(Append(q, e)) = Range(q) \cup {e}
         /\ IsInjective(q) /\ e \notin Range(q) => IsInjective(Append(q, e))
PROOF
  <1>1. /\ DOMAIN q = 1..Len(q) /\ Len(q) \in Nat /\ DOMAIN Append(q, e) = 1..(Len(q) + 1)
        /\ \A i \in 1..Len(q) : Append(q, e)[i] = q[i]
        /\ Append(q, e)[Len(q) + 1] = e
    OBVIOUS
  <1>2. \A i : i \in 1..(Len(q) + 1) <=> i \in 1..Len(q) \/ i = Len(q) + 1
    BY <1>1
  <1> QED BY <1>1, <1>2 DEF Range, IsInjective

\* Nothing has been heard before the first press.
LEMMA HeardInit == Init => HeardInv
PROOF
  <1> SUFFICES ASSUME Init PROVE HeardInv
    OBVIOUS
  <1>1. heard \in [Sync -> Seq(Told)] /\ shared \subseteq Sync
    BY EmptySeq DEF Init
  <1>2. ASSUME NEW s \in Sync PROVE HeardWay(s)
    <2>1. /\ sent[s] = <<>> /\ heard[s] = <<>> /\ taken[s] = <<>> /\ apply[s] = "off"
          /\ \A w \in Sync : wait[w] = Idle
      BY DEF Init
    <2>2. \A w \in Sync : ~ Carries(w, s) /\ wait[w].on # s
      BY <2>1, NoneAssumption DEF Carries, Answered, Idle
    <2>3. Carried(s) = {}
      BY <2>2 DEF Carried
    <2>4. Scripted(s)
      BY <2>1 DEF Scripted
    <2> QED BY <2>1, <2>2, <2>3, <2>4 DEF HeardWay, Alone
  <1> QED BY <1>1, <1>2 DEF HeardInv

\* A step of Apply, of the handler, of the client goroutine or of the network.
LEMMA HeardLasts ==
  ASSUME HeardInv, UNCHANGED <<taken, heard, shared, wait, pressed>>,
         \A s \in Sync : Scripted(s)', \A s \in Sync : apply[s] = "off" => apply'[s] = "off" \/ taken[s] = <<>>
  PROVE  HeardInv'
PROOF
  <1>1. ASSUME NEW s \in Sync PROVE HeardWay(s)'
    <2>1. \A w : Carries(w, s)' = Carries(w, s)
      BY DEF Carries, Answered
    <2>2. Carried(s)' = Carried(s)
      BY <2>1 DEF Carried
    <2>3. Apart(s) => Apart(s)'
      BY <2>1, <2>2 DEF Apart
    <2>4. ASSUME taken[s] = <<>> PROVE Apart(s)
      <3>1. Range(taken[s]) = {}
        BY <2>4 DEF Range
      <3>2. Range(heard[s]) = {} /\ Carried(s) = {}
        BY <3>1 DEF HeardInv, HeardWay
      <3>3. IsInjective(heard[s])
        BY <3>2 DEF Range, IsInjective
      <3>4. \A v \in Sync : ~ Carries(v, s)
        BY <3>2 DEF Carried
      <3> QED BY <3>2, <3>3, <3>4 DEF Apart
    <2>5. Alone(s) => Alone(s)'
      BY <2>1 DEF Alone
    <2> QED BY <2>2, <2>3, <2>4, <2>5 DEF HeardInv, HeardWay
  <1> QED BY <1>1 DEF HeardInv

\* Reports that stay as they are stay scripted, whatever becomes of Apply.
LEMMA ScriptedLasts ==
  ASSUME NEW s \in Sync, Scripted(s), sent'[s] = sent[s], apply[s] = "failed" => apply'[s] = "failed"
  PROVE  Scripted(s)'
PROOF
  BY DEF Scripted

\* One report more.
LEMMA EmitsScripted ==
  ASSUME StreamInv, HeardInv, NEW s \in Sync, NEW e \in Told, apply[s] = "run", Emits(s, e),
         UNCHANGED <<taken, heard, shared, wait, pressed>>,
         \/ apply' = apply /\ Len(sent[s]) + 1 \in 1..Len(Script) /\ e = Script[Len(sent[s]) + 1]
         \/ apply' = [apply EXCEPT ![s] = "failed"] /\ e.kind = "failed"
  PROVE  HeardInv'
PROOF
  <1>1. StreamTypes /\ sent' = [sent EXCEPT ![s] = Append(sent[s], e)]
    BY DEF StreamInv, Emits
  <1>2. /\ \A t \in Sync \ {s} : sent'[t] = sent[t] /\ apply'[t] = apply[t]
        /\ apply'[s] # "off"
    BY <1>1 DEF StreamTypes
  <1>3. PICK q, q2 : q = sent[s] /\ q2 = Append(q, e)
    OBVIOUS
  <1>4. q \in Seq(Told) /\ sent'[s] = q2
    BY <1>1, <1>3 DEF StreamTypes
  <1>5. /\ Len(q) \in Nat /\ Len(q2) = Len(q) + 1 /\ q2[Len(q) + 1] = e
        /\ \A i \in 1..Len(q) : q2[i] = q[i]
    BY <1>3, <1>4
  <1>6. \A i \in 1..Len(q) : i \in 1..Len(Script) /\ q[i] = Script[i]
    BY <1>3 DEF HeardInv, HeardWay, Scripted
  <1>7. ASSUME NEW i \in 1..Len(q2)
        PROVE  \/ i \in 1..Len(Script) /\ q2[i] = Script[i]
               \/ i = Len(q2) /\ q2[i].kind = "failed" /\ apply'[s] = "failed"
    <2>1. CASE i \in 1..Len(q)
      BY <1>5, <1>6, <2>1
    <2>2. CASE i = Len(q) + 1
      <3>1. apply' = [apply EXCEPT ![s] = "failed"] => apply'[s] = "failed"
        BY <1>1 DEF StreamTypes
      <3> QED BY <1>3, <1>5, <2>2, <3>1
    <2> QED BY <1>5, <2>1, <2>2
  <1>8. Scripted(s)'
    BY <1>4, <1>7 DEF Scripted
  <1>9. \A t \in Sync : Scripted(t)'
    BY <1>2, <1>8, ScriptedLasts DEF HeardInv, HeardWay
  <1> QED BY <1>2, <1>9, HeardLasts

\* A press: nobody has heard of the new sync, and its command is idle.
LEMMA PressHeard ==
  ASSUME StreamInv, HeardInv, PressS
  PROVE  HeardInv'
PROOF
  <1>1. PICK s : s = pressed + 1
    OBVIOUS
  <1>2. /\ StreamTypes /\ wait' = [wait EXCEPT ![s] = WaitsOn(s)] /\ pressed' = s /\ pressed \in Nat
        /\ UNCHANGED <<apply, sent, taken, heard, shared>>
    BY <1>1, StreamAssumption DEF StreamInv, StreamTypes, PressS, serverVars
  <1>3. s \in Sync
    <2>1. setting \in Setting /\ pressed < setting.presses /\ Presses \in Nat
      BY StreamAssumption DEF StreamInv, StreamTypes, PressS
    <2>2. setting.presses \in 1..Presses
      BY <2>1 DEF Setting
    <2> QED BY <1>1, <1>2, <2>1, <2>2 DEF Sync
  <1>4. /\ wait[s] = Idle /\ wait'[s] = WaitsOn(s) /\ \A w \in Sync \ {s} : wait'[w] = wait[w]
    BY <1>1, <1>2, <1>3 DEF StreamTypes, HeardInv, HeardWay
  <1>5. ASSUME NEW t \in Sync PROVE HeardWay(t)'
    <2>1. \A w \in Sync : Carries(w, t)' = Carries(w, t) /\ (Carries(w, t) => wait'[w] = wait[w])
      BY <1>4 DEF Carries, Answered, Idle, WaitsOn
    <2>2. Carried(t)' = Carried(t)
      BY <2>1 DEF Carried
    <2>3. Apart(t) => Apart(t)'
      BY <1>2, <2>1, <2>2 DEF Apart
    <2>4. Scripted(t)'
      BY <1>2, ScriptedLasts DEF HeardInv, HeardWay
    <2>5. Alone(t) => Alone(t)'
      <3>1. ASSUME Alone(t), NEW w \in Sync, wait'[w].on = t PROVE w = t
        BY <1>4, <3>1 DEF Alone, WaitsOn
      <3>2. Alone(t) => taken'[t] = IF Carries(t, t)' THEN Append(heard'[t], wait'[t].got) ELSE heard'[t]
        <4>1. Carries(t, t) => wait'[t] = wait[t]
          BY <1>4 DEF Carries, Answered, Idle
        <4> QED BY <1>2, <2>1, <4>1 DEF Alone
      <3> QED BY <3>1, <3>2 DEF Alone
    <2>6. t > pressed' => wait'[t] = Idle
      <3>1. t > pressed' => t # s /\ t > pressed
        BY <1>1, <1>2 DEF Sync
      <3> QED BY <1>4, <3>1 DEF HeardInv, HeardWay
    <2> QED BY <1>2, <2>2, <2>3, <2>4, <2>5, <2>6 DEF HeardInv, HeardWay
  <1> QED BY <1>2, <1>5 DEF HeardInv

\* A command takes an event: Update has yet to process it.
LEMMA HearHeard ==
  ASSUME StreamInv, HeardInv, NEW w \in Sync, Hear(w)
  PROVE  HeardInv'
PROOF
  <1>1. PICK s, e, q : s = wait[w].on /\ e = forwarding[s] /\ q = taken[s]
    OBVIOUS
  <1>2. s \in Sync
    BY <1>1 DEF StreamInv, StreamTypes, Hear
  <1>3. /\ StreamTypes /\ e \in Told /\ q \in Seq(Told) /\ client[s] = "forward" /\ ~ Answered(wait[w])
        /\ wait' = [wait EXCEPT ![w].got = e] /\ taken' = [taken EXCEPT ![s] = Append(q, e)]
        /\ UNCHANGED <<apply, sent, heard, shared, pressed>>
    BY <1>1, <1>2 DEF StreamInv, StreamTypes, Hear, serverVars
  <1>4. /\ wait'[w].on = s /\ wait'[w].got = e /\ \A v \in Sync \ {w} : wait'[v] = wait[v]
        /\ taken'[s] = Append(q, e) /\ \A t \in Sync \ {s} : taken'[t] = taken[t]
    BY <1>1, <1>2, <1>3 DEF StreamTypes
  <1>5. e # None /\ e.kind # "complete"
    BY <1>3, NoneAssumption DEF Told
  <1>6. /\ ~ Carries(w, s) /\ Carries(w, s)'
        /\ \A v \in Sync \ {w} : Carries(v, s)' = Carries(v, s)
    BY <1>3, <1>4, <1>5 DEF Carries, Answered
  <1>7. Carried(s)' = Carried(s) \cup {e}
    BY <1>4, <1>6 DEF Carried
  <1>8. Range(Append(q, e)) = Range(q) \cup {e}
    BY <1>3, RangeAppend
  <1>9. ASSUME apply[s] # "off" PROVE e \notin Range(q)
    <2>1. InPlace(s) /\ Scripted(s)
      BY <1>2, <1>9 DEF StreamInv, Way, HeardInv, HeardWay
    <2>2. InClient(s) = <<e>>
      BY <1>1, <1>3 DEF InClient
    <2>3. Len(q) \in Nat /\ Len(sent[s]) \in Nat /\ DOMAIN q = 1..Len(q)
      BY <1>2, <1>3, WayTypes
    <2>4. Len(q) + 1 <= Len(sent[s]) /\ sent[s][Len(q) + 1] = e
      <3>1. LiesIn(<<e>>, sent[s], Len(q))
        BY <1>1, <2>1, <2>2 DEF InPlace
      <3> QED BY <3>1 DEF LiesIn
    <2>5. \A i \in 1..Len(q) : q[i] = sent[s][i] /\ i \in 1..Len(sent[s])
      BY <1>1, <2>1, <2>3, <2>4 DEF InPlace, LiesIn
    <2>6. ASSUME NEW i \in 1..Len(q) PROVE q[i] # e
      <3>1. Len(q) + 1 \in 1..Len(sent[s]) /\ i # Len(q) + 1
        BY <2>3, <2>4
      <3> QED BY <1>2, <1>3, <2>1, <2>4, <2>5, <3>1, SentDistinct
    <2> QED BY <2>3, <2>6 DEF Range
  <1>10. ASSUME apply[s] # "off" PROVE Apart(s)'
    <2>1. e \notin Range(heard[s]) /\ e \notin Carried(s) /\ Apart(s)
      BY <1>1, <1>2, <1>9, <1>10 DEF HeardInv, HeardWay
    <2>2. IsInjective(heard'[s]) /\ Range(heard'[s]) \cap Carried(s)' = {}
      BY <1>3, <1>7, <2>1 DEF Apart
    <2>3. \A v \in Sync : Carries(v, s) => wait[v].got # e
      BY <2>1 DEF Carried
    <2>4. ASSUME NEW v \in Sync, NEW u \in Sync, Carries(v, s)', Carries(u, s)', wait'[v].got = wait'[u].got
          PROVE  v = u
      <3>1. CASE v # w /\ u # w
        BY <1>4, <1>6, <2>1, <2>4, <3>1 DEF Apart
      <3>2. CASE v # w /\ u = w
        BY <1>4, <1>6, <2>3, <2>4, <3>2
      <3>3. CASE v = w /\ u # w
        BY <1>4, <1>6, <2>3, <2>4, <3>3
      <3> QED BY <3>1, <3>2, <3>3
    <2> QED BY <2>2, <2>4 DEF Apart
  <1>11. ASSUME s \notin shared PROVE Alone(s)'
    <2>1. Alone(s) /\ w = s
      BY <1>1, <1>2, <1>11 DEF HeardInv, HeardWay, Alone
    <2>2. q = heard[s]
      BY <1>1, <1>6, <2>1 DEF Alone
    <2>3. \A v \in Sync : wait'[v].on = s => v = s
      BY <1>4, <2>1 DEF Alone
    <2> QED BY <1>3, <1>4, <1>6, <2>1, <2>2, <2>3 DEF Alone
  <1>12. ASSUME NEW t \in Sync PROVE HeardWay(t)'
    <2>1. t > pressed' => wait'[t] = Idle
      <3>1. wait[w].on # None /\ (w > pressed => wait[w] = Idle) /\ Idle.on = None
        BY DEF Hear, HeardInv, HeardWay, Idle
      <3> QED BY <1>3, <1>4, <3>1 DEF HeardInv, HeardWay
    <2>2. Scripted(t)'
      BY <1>3, ScriptedLasts DEF HeardInv, HeardWay
    <2>3. CASE t = s
      BY <1>1, <1>2, <1>3, <1>4, <1>7, <1>8, <1>10, <1>11, <2>1, <2>2, <2>3 DEF HeardInv, HeardWay
    <2>4. CASE t # s
      <3>1. \A v \in Sync : Carries(v, t)' = Carries(v, t) /\ (Carries(v, t) => wait'[v] = wait[v])
        BY <1>1, <1>4, <2>4 DEF Carries, Answered
      <3>2. Carried(t)' = Carried(t)
        BY <3>1 DEF Carried
      <3>3. Apart(t) => Apart(t)'
        BY <1>3, <3>1, <3>2 DEF Apart
      <3>4. Alone(t) => Alone(t)'
        BY <1>1, <1>3, <1>4, <2>4, <3>1 DEF Alone
      <3> QED BY <1>3, <1>4, <2>1, <2>2, <2>4, <3>2, <3>3, <3>4 DEF HeardInv, HeardWay
    <2> QED BY <2>3, <2>4
  <1> QED BY <1>3, <1>12 DEF HeardInv

\* A command makes up its event: it carries nothing of what was reported.
LEMMA CloseHeard ==
  ASSUME StreamInv, HeardInv, NEW w \in Sync, HearClose(w)
  PROVE  HeardInv'
PROOF
  <1>1. PICK c : c = [kind |-> "complete", package |-> 0]
    OBVIOUS
  <1>2. /\ StreamTypes /\ wait' = [wait EXCEPT ![w].got = c] /\ wait[w].on # None /\ ~ Answered(wait[w])
        /\ UNCHANGED <<apply, sent, taken, heard, shared, pressed>>
    BY <1>1 DEF StreamInv, HearClose, serverVars, clientVars
  <1>3. /\ wait'[w].on = wait[w].on /\ wait'[w].got = c /\ \A v \in Sync \ {w} : wait'[v] = wait[v]
    BY <1>2 DEF StreamTypes
  <1>4. ASSUME NEW t \in Sync PROVE HeardWay(t)'
    <2>1. t > pressed' => wait'[t] = Idle
      <3>1. (w > pressed => wait[w] = Idle) /\ Idle.on = None
        BY DEF HeardInv, HeardWay, Idle
      <3> QED BY <1>2, <1>3, <3>1 DEF HeardInv, HeardWay
    <2>2. Scripted(t)'
      BY <1>2, ScriptedLasts DEF HeardInv, HeardWay
    <2>3. \A v \in Sync : Carries(v, t)' = Carries(v, t) /\ (Carries(v, t) => wait'[v] = wait[v])
      BY <1>1, <1>2, <1>3 DEF Carries, Answered
    <2>4. Carried(t)' = Carried(t)
      BY <2>3 DEF Carried
    <2>5. Apart(t) => Apart(t)'
      BY <1>2, <2>3, <2>4 DEF Apart
    <2>6. Alone(t) => Alone(t)'
      BY <1>2, <1>3, <2>3 DEF Alone
    <2> QED BY <1>2, <2>1, <2>2, <2>4, <2>5, <2>6 DEF HeardInv, HeardWay
  <1> QED BY <1>2, <1>4 DEF HeardInv

\* Update processes the message of a command, which then waits on or is done.
LEMMA UpdateHeard ==
  ASSUME StreamInv, HeardInv, NEW w \in Sync, Update(w)
  PROVE  HeardInv'
PROOF
  <1>1. PICK s, e, x : /\ s = wait[w].on /\ e = wait[w].got
                       /\ x = IF listening' = None THEN Idle ELSE WaitsOn(listening')
    OBVIOUS
  <1>2. /\ StreamTypes /\ Answered(wait[w]) /\ wait' = [wait EXCEPT ![w] = x]
        /\ heard' = IF e.kind = "complete" THEN heard ELSE [heard EXCEPT ![s] = Append(@, e)]
        /\ shared' = shared \cup ({listening'} \ {None, w})
        /\ listening' \in Sync \cup {None}
        /\ UNCHANGED <<apply, sent, taken, pressed>>
    BY <1>1 DEF StreamInv, StreamTypes, Update, serverVars, clientVars
  <1>3. /\ x.got = None /\ x.on = listening'
        /\ wait'[w] = x /\ \A v \in Sync \ {w} : wait'[v] = wait[v]
    BY <1>1, <1>2 DEF StreamTypes, Idle, WaitsOn
  <1>4. s \in Sync \cup {None} /\ e \in Event
    BY <1>1, <1>2 DEF StreamTypes, Answered
  <1>5. w <= pressed
    <2>1. (w > pressed => wait[w] = Idle) /\ Idle.got = None /\ pressed \in Nat
      BY <1>2, StreamAssumption DEF HeardInv, HeardWay, Idle, StreamTypes
    <2> QED BY <1>2, <2>1 DEF Answered, Sync
  <1>6. \A t \in Sync : t > pressed' => wait'[t] = Idle
    BY <1>2, <1>3, <1>5 DEF HeardInv, HeardWay, Sync, StreamTypes
  <1>7. \A t \in Sync : Scripted(t)'
    BY <1>2, ScriptedLasts DEF HeardInv, HeardWay
  <1>8. \A t \in Sync, v \in Sync : Carries(v, t)' <=> Carries(v, t) /\ v # w
    BY <1>3 DEF Carries, Answered
  <1>9. \A t \in Sync : t \notin shared' => t \notin shared /\ (wait'[w].on = t => w = t)
    BY <1>2, <1>3, NoneAssumption
  <1>10. ASSUME NEW t \in Sync, ~ Carries(w, t) PROVE HeardWay(t)'
    <2>1. heard'[t] = heard[t]
      <3>1. s = t => e.kind = "complete"
        BY <1>1, <1>2, <1>10 DEF Carries
      <3> QED BY <1>2, <3>1 DEF HeardInv
    <2>2. \A v \in Sync : (Carries(v, t)' <=> Carries(v, t)) /\ (Carries(v, t) => wait'[v] = wait[v])
      BY <1>3, <1>8, <1>10
    <2>3. Carried(t)' = Carried(t)
      BY <2>2 DEF Carried
    <2>4. Apart(t) => Apart(t)'
      BY <2>1, <2>2, <2>3 DEF Apart
    <2>5. ASSUME t \notin shared' PROVE Alone(t)'
      BY <1>2, <1>3, <1>9, <2>1, <2>2, <2>5 DEF HeardInv, HeardWay, Alone
    <2> QED BY <1>2, <1>6, <1>7, <2>1, <2>3, <2>4, <2>5 DEF HeardInv, HeardWay
  <1>11. ASSUME NEW t \in Sync, Carries(w, t) PROVE HeardWay(t)'
    <2>1. t = s /\ e.kind # "complete" /\ e \in Told
      BY <1>1, <1>4, <1>11 DEF Carries, Told
    <2>2. PICK h : h = heard[t]
      OBVIOUS
    <2>3. heard'[t] = Append(h, e) /\ h \in Seq(Told)
      BY <1>2, <2>1, <2>2 DEF HeardInv
    <2>4. Range(heard'[t]) = Range(h) \cup {e} /\ (IsInjective(h) /\ e \notin Range(h) => IsInjective(heard'[t]))
      BY <2>1, <2>3, RangeAppend
    <2>5. Carried(t) = Carried(t)' \cup {e}
      BY <1>1, <1>3, <1>8, <1>11 DEF Carried
    <2>6. Range(heard'[t]) \cup Carried(t)' = Range(taken'[t])
      BY <1>2, <2>2, <2>4, <2>5 DEF HeardInv, HeardWay
    <2>7. ASSUME apply'[t] # "off" PROVE Apart(t)'
      <3>1. Apart(t) /\ e \notin Range(h)
        BY <1>2, <2>2, <2>5, <2>7 DEF HeardInv, HeardWay, Apart
      <3>2. e \notin Carried(t)'
        BY <1>1, <1>3, <1>8, <1>11, <3>1 DEF Carried, Apart
      <3>3. IsInjective(heard'[t]) /\ Range(heard'[t]) \cap Carried(t)' = {}
        BY <2>2, <2>4, <2>5, <3>1, <3>2 DEF Apart
      <3>4. \A v, u \in Sync : Carries(v, t)' /\ Carries(u, t)' /\ wait'[v].got = wait'[u].got => v = u
        BY <1>3, <1>8, <3>1 DEF Apart
      <3> QED BY <3>3, <3>4 DEF Apart
    <2>8. ASSUME t \notin shared' PROVE Alone(t)'
      <3>1. Alone(t) /\ w = t
        BY <1>1, <1>9, <2>1, <2>8 DEF HeardInv, HeardWay, Alone
      <3>2. taken[t] = Append(h, e)
        BY <1>1, <1>11, <2>2, <3>1 DEF Alone
      <3>3. ~ Carries(t, t)'
        BY <1>8, <3>1
      <3>4. \A v \in Sync : wait'[v].on = t => v = t
        BY <1>3, <3>1 DEF Alone
      <3> QED BY <1>2, <2>3, <3>2, <3>3, <3>4 DEF Alone
    <2> QED BY <1>6, <1>7, <2>6, <2>7, <2>8 DEF HeardWay
  <1>12. heard' \in [Sync -> Seq(Told)]
    <2>1. CASE e.kind = "complete"
      BY <1>2, <2>1 DEF HeardInv
    <2>2. CASE e.kind # "complete"
      <3>1. e \in Told /\ \A t \in Sync : Append(heard[t], e) \in Seq(Told)
        BY <1>4, <2>2 DEF Told, HeardInv
      <3> QED BY <1>2, <2>2, <3>1 DEF HeardInv
    <2> QED BY <2>1, <2>2
  <1>13. shared' \subseteq Sync
    BY <1>2 DEF HeardInv
  <1> QED BY <1>10, <1>11, <1>12, <1>13 DEF HeardInv

\* Every step keeps it.
LEMMA HeardInductive == StreamInv /\ HeardInv /\ [Next]_vars => HeardInv'
PROOF
  <1> SUFFICES ASSUME StreamInv, HeardInv, [Next]_vars PROVE HeardInv'
    OBVIOUS
  <1>1. \A s \in Sync : Scripted(s)
    BY DEF HeardInv, HeardWay
  <1>2. ASSUME UNCHANGED <<sent, taken, heard, shared, wait, pressed>>,
               \A s \in Sync : apply[s] = "failed" => apply'[s] = "failed",
               \A s \in Sync : apply[s] = "off" => apply'[s] = "off" \/ taken[s] = <<>>
        PROVE  HeardInv'
    BY <1>1, <1>2, ScriptedLasts, HeardLasts
  <1>3. CASE UNCHANGED vars
    <2>1. UNCHANGED <<apply, sent, taken, heard, shared, wait, pressed>>
      BY <1>3 DEF vars, serverVars, clientVars, uiVars
    <2> QED BY <1>2, <2>1
  <1>4. ASSUME NEW s \in Sync, Engine(s) PROVE HeardInv'
    <2>1. apply[s] = "run" /\ UNCHANGED <<taken, heard, shared, wait, pressed>>
      BY <1>4 DEF Engine, Report, ReportFailure, Save, clientVars, uiVars
    <2>2. CASE Report(s)
      <3>1. Len(sent[s]) \in Nat /\ Len(Script) \in Nat
        BY ScriptIsTold, LenProperties DEF StreamInv, StreamTypes
      <3>2. Len(sent[s]) + 1 \in 1..Len(Script)
        BY <2>2, <3>1 DEF Report
      <3>3. Script[Len(sent[s]) + 1] \in Told
        BY <3>2, ScriptIsTold, ElementOfSeq
      <3> QED BY <2>1, <2>2, <3>2, <3>3, EmitsScripted DEF Report
    <2>3. CASE ReportFailure(s)
      <3>1. [kind |-> "failed", package |-> 0] \in Told
        BY StreamAssumption DEF Told, Event, Kinds
      <3> QED BY <2>1, <2>3, <3>1, EmitsScripted DEF ReportFailure
    <2>4. CASE Save(s)
      <3>1. apply' = [apply EXCEPT ![s] = "done"] /\ sent' = sent /\ apply \in [Sync -> {"off", "run", "done", "failed"}]
        BY <2>4 DEF Save, StreamInv, StreamTypes
      <3>2. \A t \in Sync : apply'[t] = apply[t] \/ t = s
        BY <3>1
      <3> QED BY <1>2, <2>1, <3>1, <3>2
    <2> QED BY <1>4, <2>2, <2>3, <2>4 DEF Engine
  <1>5. ASSUME NEW s \in Sync, Handler(s) PROVE HeardInv'
    <2>1. UNCHANGED <<apply, sent, taken, heard, shared, wait, pressed>>
      BY <1>5 DEF Handler, Take, Send, SendLost, SendFails, HandlerReturns, clientVars, uiVars
    <2> QED BY <1>2, <2>1
  <1>6. ASSUME NEW s \in Sync, Client(s) PROVE HeardInv'
    <2>1. CASE Connect(s)
      <3>1. /\ apply' = [apply EXCEPT ![s] = "run"] /\ apply \in [Sync -> {"off", "run", "done", "failed"}]
            /\ UNCHANGED <<sent, taken, heard, shared, wait, pressed>>
        BY <2>1 DEF Connect, StreamInv, StreamTypes, uiVars
      <3>2. apply[s] = "off" /\ taken[s] = <<>>
        BY <2>1 DEF Connect, StreamInv, Way, Fresh
      <3>3. \A t \in Sync : apply'[t] = apply[t] \/ t = s
        BY <3>1
      <3> QED BY <1>2, <3>1, <3>2, <3>3
    <2>2. CASE ~ Connect(s)
      <3>1. UNCHANGED <<apply, sent, taken, heard, shared, wait, pressed>>
        BY <1>6, <2>2 DEF Client, ConnectNoPlan, ConnectRefused, Recv, RecvEnds, serverVars, uiVars
      <3> QED BY <1>2, <3>1
    <2> QED BY <2>1, <2>2
  <1>7. ASSUME NEW s \in Sync, Break(s) PROVE HeardInv'
    <2>1. UNCHANGED <<apply, sent, taken, heard, shared, wait, pressed>>
      BY <1>7 DEF Break, serverVars, clientVars, uiVars
    <2> QED BY <1>2, <2>1
  <1> QED BY <1>3, <1>4, <1>5, <1>6, <1>7, PressHeard, HearHeard, CloseHeard, UpdateHeard DEF Next, Command

LEMMA HeardAlways == Spec => []HeardInv
PROOF
  <1>1. StreamInv /\ HeardInv /\ [Next]_vars => HeardInv'
    BY HeardInductive
  <1> QED BY <1>1, HeardInit, StreamAlways, PTL DEF Spec

-------------------------------------------------------------------------------
(* What the run checks.                                                    *)

\* No buffer is ever fuller than it can be, and nobody forwards or sends an event
\* that is not in its hands.
THEOREM StreamTypeCorrect == Spec => []TypeOK
PROOF
  <1>1. ASSUME StreamTypes, HeardInv PROVE TypeOK
    <2>1. Told \subseteq Event
      BY DEF Told
    <2>2. \A q \in Seq(Told) : q \in Seq(Event)
      BY <2>1, SeqMonotonic
    <2>3. /\ sent \in [Sync -> Seq(Event)] /\ channel \in [Sync -> Seq(Event)]
          /\ wire \in [Sync -> Seq(Event)] /\ taken \in [Sync -> Seq(Event)] /\ heard \in [Sync -> Seq(Event)]
          /\ sending \in [Sync -> Event \cup {None}] /\ forwarding \in [Sync -> Event \cup {None}]
      BY <1>1, <2>1, <2>2 DEF StreamTypes, HeardInv
    <2> QED BY <1>1, <2>3 DEF StreamTypes, HeardInv, TypeOK
  <1>2. StreamInv /\ HeardInv => TypeOK
    BY <1>1 DEF StreamInv
  <1> QED BY <1>2, StreamAlways, HeardAlways, PTL

\* The screen hears what Apply reported once and with no gap, however full the
\* buffers are, wherever the connection breaks and however many commands take the
\* events; and in the order of the reports, if only one press's command does.
THEOREM NothingOvertakes == Spec => []HeardInOrder
PROOF
  <1>1. ASSUME StreamInv, HeardInv, NEW s \in Sync, apply[s] # "off"
        PROVE  /\ IsPrefixOf(taken[s], sent[s])
               /\ Range(heard[s]) \cup Carried(s) = Range(taken[s]) /\ Apart(s)
               /\ s \notin shared => IsPrefixOf(heard[s], sent[s])
    <2>1. PICK q : q = sent[s]
      OBVIOUS
    <2>2. /\ taken[s] \in Seq(Told) /\ heard[s] \in Seq(Told) /\ q \in Seq(Told)
          /\ Len(taken[s]) \in Nat /\ Len(heard[s]) \in Nat /\ Len(q) \in Nat
      BY <1>1, <2>1, WayTypes, LenProperties DEF StreamInv, HeardInv
    <2>3. Len(taken[s]) <= Len(q) /\ \A i \in 1..Len(taken[s]) : taken[s][i] = q[i]
      BY <1>1, <2>1, <2>2 DEF StreamInv, Way, InPlace, LiesIn
    <2>4. ASSUME NEW p \in Seq(Told), Len(p) <= Len(q), \A i \in 1..Len(p) : p[i] = q[i]
          PROVE  IsPrefixOf(p, q)
      <3>1. /\ SubSeq(q, 1, Len(p)) \in Seq(Told) /\ Len(SubSeq(q, 1, Len(p))) = Len(p) /\ Len(p) \in Nat
            /\ \A i \in 1..Len(p) : SubSeq(q, 1, Len(p))[i] = q[i]
        BY <2>2, <2>4
      <3>2. p = SubSeq(q, 1, Len(p))
        BY <2>4, <3>1, SeqEqual
      <3> QED BY <2>4, <3>2 DEF IsPrefixOf
    <2>5. ASSUME s \notin shared PROVE IsPrefixOf(heard[s], q)
      <3>1. taken[s] = heard[s] \/ (wait[s].got \in Told /\ taken[s] = Append(heard[s], wait[s].got))
        BY <1>1, <2>5 DEF HeardInv, HeardWay, Alone, StreamInv, StreamTypes, Carries, Answered, Told
      <3>2. Len(heard[s]) <= Len(taken[s]) /\ \A i \in 1..Len(heard[s]) : heard[s][i] = taken[s][i]
        BY <2>2, <3>1
      <3> QED BY <2>2, <2>3, <2>4, <3>2
    <2> QED BY <1>1, <2>1, <2>2, <2>3, <2>4, <2>5 DEF HeardInv, HeardWay
  <1>2. StreamInv /\ HeardInv => HeardInOrder
    BY <1>1 DEF HeardInOrder
  <1> QED BY <1>2, StreamAlways, HeardAlways, PTL

\* "sync complete" is not told of a sync that still runs, as long as the
\* connection holds: neither a late command nor another sync can cause it.
THEOREM CompleteIsTrue == Spec => []CompleteMeansEnded
PROOF
  <1>1. ASSUME StreamInv, ~ setting.lossy, NEW w \in Sync, Answered(wait[w]), wait[w].got.kind = "complete"
        PROVE  handler[wait[w].on] = "returned" /\ apply[wait[w].on] # "run"
    <2>1. PICK s : s = wait[w].on
      OBVIOUS
    <2>2. s \in Sync /\ client[s] = "closed"
      BY <1>1, <2>1 DEF StreamInv, MadeUp
    <2>3. link[s] = "ended"
      BY <1>1, <2>2 DEF StreamInv, Way
    <2> QED BY <1>1, <2>1, <2>2, <2>3 DEF StreamInv, Way
  <1>2. StreamInv => CompleteMeansEnded
    BY <1>1 DEF CompleteMeansEnded
  <1> QED BY <1>2, StreamAlways, PTL
===============================================================================
