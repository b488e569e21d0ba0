------------------------------- MODULE TuiProofs -------------------------------
(***************************************************************************)
(* Proofs about Tui, for any packages and lists, any number of keys and of *)
(* commands in flight.  What a command carries, the list it has read, the  *)
(* package it was given, the manifest it has seen, must be right as long   *)
(* as the command can still use it, whatever the others do meanwhile.      *)
(***************************************************************************)
EXTENDS Tui, FiniteSetTheorems, SequenceTheorems, TLAPS

\* The commands that will still save the manifest, or fail to.
Pending == {s \in Slot : Writes(cmd[s]) /\ cmd[s].stage \in {"run", "read"}}

\* Every save, made or to be made, has had its key.
SavesHaveKeys == rev + Cardinality(Pending) <= pressed + 1

\* Only a command that is going to save has read the manifest.
ReadersWrite ==
  \A s \in Slot : cmd[s].stage = "read" =>
    Writes(cmd[s]) /\ (cmd[s].kind = "track" => cmd[s].mod # None)

\* A load under way has seen a manifest; if that is the newest, it carries it.
LoadsAreTrue ==
  \A s \in Slot : cmd[s].kind = "load" /\ cmd[s].stage = "done" =>
    cmd[s].rev <= rev /\ (cmd[s].ok /\ cmd[s].rev = rev => cmd[s].list = here)

\* So does the screen.
ShownIsTrue ==
  /\ shownRev <= bestRev /\ bestRev <= rev /\ lostRev <= rev
  /\ shownRev = rev => shown = here

\* The message of such a command, or of the load that follows it, has seen the
\* newest manifest.
Brings(c) ==
  \/ c.kind = "load" /\ (c.stage = "run" \/ c.rev = rev)
  \/ Writes(c) /\ c.stage = "done" /\ c.ok

\* The newest manifest has been delivered, its load has failed, or it comes.
NewestComes == bestRev = rev \/ lostRev = rev \/ \E s \in Slot : Brings(cmd[s])

\* The packages kept are in the manifest and in every list that will replace
\* it, and no command under way removes one.
KeptEverywhere ==
  /\ kept \subseteq Among(here)
  /\ \A s \in Slot : cmd[s].stage = "read" => kept \subseteq Among(cmd[s].list)
  /\ \A s \in Slot : cmd[s].kind = "untrack" /\ cmd[s].stage \in {"run", "read"} => cmd[s].mod \notin kept

TuiInv ==
  /\ TypeOK /\ SavesHaveKeys /\ ReadersWrite /\ LoadsAreTrue
  /\ ShownIsTrue /\ NewestComes /\ KeptEverywhere

-------------------------------------------------------------------------------
(* Lists.                                                                  *)

LEMMA EmptyList == <<>> \in Tracked /\ Among(<<>>) = {}
BY DEF Tracked, Among

LEMMA AppendLemma ==
  ASSUME NEW q \in Tracked, NEW m \in Mod, m \notin Among(q)
  PROVE  Append(q, m) \in Tracked /\ Among(q) \subseteq Among(Append(q, m))
<1> DEFINE U == Append(q, m)
<1>1. q \in Seq(Mod) /\ \A i, j \in DOMAIN q : q[i] = q[j] => i = j
  BY DEF Tracked
<1>2. /\ U \in Seq(Mod) /\ DOMAIN U = 1..(Len(q) + 1) /\ U[Len(q) + 1] = m
      /\ \A i \in 1..Len(q) : U[i] = q[i]
  BY <1>1
<1>3. DOMAIN q = 1..Len(q) /\ Len(q) \in Nat /\ \A i \in DOMAIN q : q[i] # m
  BY <1>1 DEF Among
<1> HIDE DEF U
<1>4. U \in Tracked
  BY <1>1, <1>2, <1>3 DEF Tracked
<1>5. Among(q) \subseteq Among(U)
  BY <1>2, <1>3 DEF Among
<1> QED BY <1>4, <1>5 DEF U

\* Taking the k-th package out closes the gap.
LEMMA RemoveLemma ==
  ASSUME NEW q \in Seq(Mod), NEW k \in DOMAIN q
  PROVE  LET R == SubSeq(q, 1, k - 1) \o SubSeq(q, k + 1, Len(q)) IN
         /\ R \in Seq(Mod) /\ Len(R) = Len(q) - 1
         /\ \A i \in 1..(Len(q) - 1) : R[i] = q[IF i < k THEN i ELSE i + 1]
<1> DEFINE L == SubSeq(q, 1, k - 1)
           T == SubSeq(q, k + 1, Len(q))
           R == L \o T
<1>1. Len(q) \in Nat /\ DOMAIN q = 1..Len(q) /\ k \in 1..Len(q)
  OBVIOUS
<1>2. R \in Seq(Mod) /\ Len(R) = Len(q) - 1
  BY <1>1
<1>3. ASSUME NEW i \in 1..(Len(q) - 1) PROVE R[i] = q[IF i < k THEN i ELSE i + 1]
  <2>1. L \in Seq(Mod) /\ Len(L) = k - 1 /\ \A n \in 1..(k - 1) : L[n] = q[n]
    BY <1>1
  <2>2. T \in Seq(Mod) /\ Len(T) = Len(q) - k /\ \A n \in 1..(Len(q) - k) : T[n] = q[n + k]
    BY <1>1
  <2>3. R[i] = (L \o T)[i]
    OBVIOUS
  <2> HIDE DEF L, T, R
  <2>4. i \in Int /\ k \in Int /\ Len(q) \in Int
    BY <1>1
  <2>5. (L \o T)[i] = IF i <= Len(L) THEN L[i] ELSE T[i - Len(L)]
    <3>1. i \in 1..(Len(L) + Len(T))
      BY <1>1, <2>1, <2>2
    <3> QED BY <2>1, <2>2, <3>1, ConcatProperties
  <2>6. CASE i < k
    <3>1. i <= Len(L) /\ i \in 1..(k - 1)
      BY <2>1, <2>4, <2>6
    <3> QED BY <2>1, <2>3, <2>5, <2>6, <3>1
  <2>7. CASE i >= k
    <3>1. ~ i <= Len(L) /\ ~ i < k
      BY <2>1, <2>4, <2>7
    <3>2. i - Len(L) \in 1..(Len(q) - k) /\ (i - Len(L)) + k = i + 1
      BY <1>1, <2>1, <2>4, <2>7
    <3>3. T[i - Len(L)] = q[i + 1]
      BY <2>2, <3>2
    <3> QED BY <2>3, <2>5, <3>1, <3>3
  <2> QED BY <2>4, <2>6, <2>7
<1> QED BY <1>2, <1>3

\* Taking a package from a list leaves the others.
LEMMA WithoutLemma ==
  ASSUME NEW q \in Tracked, NEW m
  PROVE  Without(q, m) \in Tracked /\ \A x \in Among(q) : x = m \/ x \in Among(Without(q, m))
<1>1. CASE m \notin Among(q)
  BY <1>1 DEF Without
<1>2. CASE m \in Among(q)
  <2> DEFINE at == CHOOSE i \in DOMAIN q : q[i] = m
             Old(k, i) == IF i < k THEN i ELSE i + 1
  <2>1. PICK k : k = at
    OBVIOUS
  <2>2. k \in DOMAIN q /\ q[k] = m
    BY <1>2, <2>1 DEF Among
  <2>3. PICK R : R = SubSeq(q, 1, k - 1) \o SubSeq(q, k + 1, Len(q))
    OBVIOUS
  <2>4. Without(q, m) = R
    BY <1>2, <2>1, <2>3 DEF Without
  <2>5. q \in Seq(Mod) /\ \A i, j \in DOMAIN q : q[i] = q[j] => i = j
    BY DEF Tracked
  <2>6. R \in Seq(Mod) /\ Len(R) = Len(q) - 1 /\ \A i \in 1..(Len(q) - 1) : R[i] = q[Old(k, i)]
    BY <2>2, <2>3, <2>5, RemoveLemma
  <2>7. Len(q) \in Nat /\ DOMAIN q = 1..Len(q) /\ k \in 1..Len(q) /\ DOMAIN R = 1..(Len(q) - 1)
    BY <2>2, <2>5, <2>6
  <2>8. \A i \in DOMAIN R : Old(k, i) \in DOMAIN q
    BY <2>7
  <2>9. \A i, j \in DOMAIN R : Old(k, i) = Old(k, j) => i = j
    BY <2>7
  <2>10. \A n \in DOMAIN q : n # k => \E i \in DOMAIN R : Old(k, i) = n
    <3> SUFFICES ASSUME NEW n \in DOMAIN q, n # k PROVE \E i \in DOMAIN R : Old(k, i) = n
      OBVIOUS
    <3>1. CASE n < k
      BY <2>7, <3>1
    <3>2. CASE n > k
      <4>1. n - 1 \in DOMAIN R /\ Old(k, n - 1) = n
        BY <2>7, <3>2
      <4> QED BY <4>1
    <3> QED BY <2>7, <3>1, <3>2
  <2> HIDE DEF Old, at
  <2>11. R \in Tracked
    BY <2>5, <2>6, <2>7, <2>8, <2>9 DEF Tracked
  <2>12. \A x \in Among(q) : x = m \/ x \in Among(R)
    BY <2>2, <2>6, <2>7, <2>10 DEF Among
  <2> QED BY <2>4, <2>11, <2>12
<1> QED BY <1>1, <1>2

LEMMA PlannedLemma == shown \in Tracked => Planned \in Seq(Mod)
BY TuiAssumption, EmptyList DEF Planned, Tracked

-------------------------------------------------------------------------------
(* The commands in flight.                                                 *)

LEMMA SlotLemma == IsFiniteSet(Slot) /\ 1 \in Slot /\ Slot \subseteq Nat
<1>1. Flying \in Nat /\ Flying > 0
  BY TuiAssumption
<1> QED BY <1>1, FS_Interval DEF Slot

LEMMA PendingLemma == IsFiniteSet(Pending) /\ Cardinality(Pending) \in Nat
<1>1. Pending \subseteq Slot
  BY DEF Pending
<1> QED BY <1>1, SlotLemma, FS_Subset, FS_CardinalityType

LEMMA IdleLemma == Idle \in Command /\ Idle.list \in Tracked
BY EmptyList, TuiAssumption DEF Idle, Command, Kinds

LEMMA CommandParts ==
  ASSUME NEW c \in Command
  PROVE  /\ c.kind \in Kinds /\ c.stage \in {"run", "read", "done"} /\ c.ok \in BOOLEAN
         /\ c.mod \in Mod \cup {None} /\ c.list \in Seq(Mod) /\ c.rev \in 0..(Presses + 1)
BY DEF Command

\* What one command turns into, in a step that leaves the manifest alone.
Carries(c) ==
  /\ c \in Command /\ (c.kind # "plan" => c.list \in Tracked)
  /\ c.stage = "read" =>
       Writes(c) /\ (c.kind = "track" => c.mod # None) /\ kept' \subseteq Among(c.list)
  /\ c.kind = "load" /\ c.stage = "done" => c.rev <= rev /\ (c.ok /\ c.rev = rev => c.list = here)
  /\ c.kind = "untrack" /\ c.stage \in {"run", "read"} => c.mod \notin kept'

\* It saves only if it did before, or for a new key, and the newest manifest
\* does not get lost with it.
Follows(old, c) ==
  /\ Writes(c) /\ c.stage \in {"run", "read"} =>
       (Writes(old) /\ old.stage \in {"run", "read"}) \/ pressed' = pressed + 1
  /\ Brings(old) => Brings(c) \/ bestRev' = rev \/ lostRev' = rev

ScreenIsTyped ==
  /\ shown \in Tracked /\ plan \in Seq(Mod)
  /\ {indexed, err, loading, viewed, asShown} \subseteq BOOLEAN
  /\ cursor \in Nat \ {0} /\ pressed \in 0..Presses /\ {shownRev, bestRev, lostRev} \subseteq 0..(Presses + 1)

\* What else such a step does.
Quiet ==
  /\ UNCHANGED <<remote, here, there, rev>> /\ kept' \subseteq kept /\ ScreenIsTyped'
  /\ pressed' \in {pressed, pressed + 1}
  /\ bestRev <= bestRev' /\ lostRev <= lostRev'
  /\ shownRev' <= bestRev' /\ bestRev' <= rev /\ lostRev' <= rev
  /\ shownRev' = rev => shown' = here

LEMMA Turning ==
  ASSUME TuiInv, Quiet, NEW s \in Slot, NEW c, cmd' = [cmd EXCEPT ![s] = c],
         Carries(c), Follows(cmd[s], c)
  PROVE  TuiInv'
<1>1. cmd'[s] = c /\ cmd' \in [Slot -> Command] /\ \A t \in Slot \ {s} : cmd'[t] = cmd[t]
  BY DEF TuiInv, TypeOK, Carries
<1>2. remote' = remote /\ here' = here /\ there' = there /\ rev' = rev /\ kept' \subseteq kept
  BY DEF Quiet
<1>3. \A d : Writes(d)' = Writes(d) /\ Brings(d)' = Brings(d)
  BY <1>2 DEF Writes, Brings
<1>4. TypeOK'
  <2>1. \A t \in Slot : cmd'[t].kind # "plan" => cmd'[t].list \in Tracked
    BY <1>1 DEF TuiInv, TypeOK, Carries
  <2> QED BY <1>1, <1>2, <2>1 DEF Quiet, ScreenIsTyped, TuiInv, TypeOK
<1>5. ReadersWrite'
  <2> SUFFICES ASSUME NEW t \in Slot, cmd'[t].stage = "read"
               PROVE  Writes(cmd'[t]) /\ (cmd'[t].kind = "track" => cmd'[t].mod # None)
    BY <1>3 DEF ReadersWrite
  <2> QED BY <1>1 DEF TuiInv, ReadersWrite, Carries
<1>6. LoadsAreTrue'
  <2> SUFFICES ASSUME NEW t \in Slot, cmd'[t].kind = "load", cmd'[t].stage = "done"
               PROVE  cmd'[t].rev <= rev /\ (cmd'[t].ok /\ cmd'[t].rev = rev => cmd'[t].list = here)
    BY <1>2 DEF LoadsAreTrue
  <2> QED BY <1>1 DEF TuiInv, LoadsAreTrue, Carries
<1>7. ShownIsTrue'
  BY <1>2 DEF Quiet, ShownIsTrue
<1>8. KeptEverywhere'
  BY <1>1, <1>2 DEF TuiInv, KeptEverywhere, Carries
<1>9. NewestComes'
  <2>1. bestRev = rev => bestRev' = rev
    BY DEF Quiet, TuiInv, TypeOK, ScreenIsTyped
  <2>2. lostRev = rev => lostRev' = rev
    BY DEF Quiet, TuiInv, TypeOK, ScreenIsTyped
  <2>3. ASSUME NEW t \in Slot, Brings(cmd[t])
        PROVE  bestRev' = rev \/ lostRev' = rev \/ \E u \in Slot : Brings(cmd'[u])
    BY <1>1, <2>3 DEF Follows
  <2>4. bestRev' = rev \/ lostRev' = rev \/ \E u \in Slot : Brings(cmd'[u])
    BY <2>1, <2>2, <2>3 DEF TuiInv, NewestComes
  <2>5. \A u \in Slot : Brings(cmd'[u]) => Brings(cmd[u])'
    BY <1>2 DEF Brings, Writes
  <2> QED BY <1>2, <2>4, <2>5 DEF NewestComes
<1>10. SavesHaveKeys'
  <2>1. \A t \in Slot : t \in Pending' <=> Writes(cmd'[t]) /\ cmd'[t].stage \in {"run", "read"}
    BY <1>2 DEF Pending, Writes
  <2>2. Pending' \subseteq Slot /\ Pending \subseteq Slot
    BY DEF Pending
  <2>3. \A t \in Slot \ {s} : t \in Pending' <=> t \in Pending
    BY <1>1, <2>1 DEF Pending
  <2>4. IsFiniteSet(Pending) /\ Cardinality(Pending) \in Nat
    BY PendingLemma
  <2>5. rev + Cardinality(Pending) <= pressed + 1 /\ rev \in Nat /\ pressed \in Nat
    BY DEF TuiInv, TypeOK, SavesHaveKeys
  <2>6. CASE s \in Pending' /\ s \notin Pending
    <3>1. Pending' = Pending \cup {s}
      BY <2>2, <2>3, <2>6
    <3>2. Cardinality(Pending') = Cardinality(Pending) + 1
      BY <2>4, <2>6, <3>1, FS_AddElement
    <3>3. pressed' = pressed + 1
      BY <1>1, <2>1, <2>6 DEF Follows, Pending
    <3> QED BY <1>2, <2>4, <2>5, <3>2, <3>3 DEF SavesHaveKeys
  <2>7. CASE ~ (s \in Pending' /\ s \notin Pending)
    <3>1. Pending' \subseteq Pending
      BY <2>2, <2>3, <2>7
    <3>2. Cardinality(Pending') <= Cardinality(Pending) /\ Cardinality(Pending') \in Nat
      BY <2>4, <3>1, FS_Subset, FS_CardinalityType
    <3>3. pressed' \in {pressed, pressed + 1}
      BY DEF Quiet
    <3> QED BY <1>2, <2>4, <2>5, <3>2, <3>3 DEF SavesHaveKeys
  <2> QED BY <2>6, <2>7
<1> QED BY <1>4, <1>5, <1>6, <1>7, <1>8, <1>9, <1>10 DEF TuiInv

\* A command that nothing happens to.
LEMMA Resting ==
  ASSUME TuiInv, kept' \subseteq kept, NEW s \in Slot
  PROVE  Carries(cmd[s]) /\ Follows(cmd[s], cmd[s]) /\ [cmd EXCEPT ![s] = cmd[s]] = cmd
<1>1. cmd \in [Slot -> Command] /\ (cmd[s].kind # "plan" => cmd[s].list \in Tracked)
  BY DEF TuiInv, TypeOK
<1>2. Carries(cmd[s])
  BY <1>1 DEF TuiInv, ReadersWrite, LoadsAreTrue, KeptEverywhere, Carries
<1>3. Follows(cmd[s], cmd[s])
  BY DEF Follows
<1> QED BY <1>1, <1>2, <1>3

\* A step that leaves the commands and the manifest alone.
LEMMA StillStep == TuiInv /\ Quiet /\ cmd' = cmd => TuiInv'
<1> SUFFICES ASSUME TuiInv, Quiet, cmd' = cmd PROVE TuiInv'
  OBVIOUS
<1>1. PICK s \in Slot : s = 1
  BY SlotLemma
<1>2. PICK c : c = cmd[s]
  OBVIOUS
<1>3. Carries(c) /\ Follows(cmd[s], c) /\ cmd' = [cmd EXCEPT ![s] = c]
  BY <1>2, Resting DEF Quiet
<1> QED BY <1>3, Turning

\* A free place takes a command, which is loading or about to begin or plans.
LEMMA StartStep ==
  ASSUME TuiInv, Quiet, NEW s \in Slot, NEW c \in Command, Start(s, c), c.stage # "read",
         c.kind # "plan" => c.list \in Tracked,
         c.kind = "load" => c.stage = "run", c.kind = "untrack" => c.mod \notin kept'
  PROVE  TuiInv'
<1>1. cmd' = [cmd EXCEPT ![s] = c] /\ cmd[s] = Idle /\ pressed' = pressed + 1
  BY DEF Start
<1>2. Carries(c)
  BY DEF Carries
<1>3. ~ Brings(cmd[s])
  BY <1>1 DEF Brings, Idle, Writes
<1>4. Follows(cmd[s], c)
  BY <1>1, <1>3 DEF Follows
<1> QED BY <1>1, <1>2, <1>4, Turning

LEMMA RunLemma ==
  ASSUME NEW kind \in Kinds
  PROVE  /\ Run(kind) \in Command /\ Run(kind).kind = kind /\ Run(kind).stage = "run"
         /\ Run(kind).list \in Tracked
BY IdleLemma DEF Run, Idle, Command

\* Keys.
LEMMA KeyStep ==
  ASSUME TuiInv, NEW s \in Slot,
         \/ PressR(s) \/ PressP(s) \/ PressS(s) \/ PressD(s) \/ PressL(s)
         \/ \E m \in Mod \cup {None} : PressEnter(s, m)
  PROVE  TuiInv'
<1>1. ShownIsTrue /\ ScreenIsTyped /\ shown \in Tracked
  BY DEF TuiInv, TypeOK, ScreenIsTyped
<1>2. ASSUME NEW c, Start(s, c)
      PROVE  pressed' \in 0..Presses /\ pressed' = pressed + 1 /\ UNCHANGED <<remote, here, there>>
  BY <1>1, <1>2, TuiAssumption DEF Start, world, ScreenIsTyped
<1>3. CASE PressR(s)
  <2>1. Start(s, Run("load")) /\ UNCHANGED <<shown, indexed, plan, err, cursor, history>> /\ loading' = TRUE
    BY <1>3 DEF PressR
  <2>2. Quiet
    BY <1>1, <1>2, <2>1 DEF Quiet, ScreenIsTyped, ShownIsTrue, history
  <2>3. /\ Run("load") \in Command /\ Run("load").kind = "load" /\ Run("load").stage = "run"
        /\ Run("load").list \in Tracked
    BY RunLemma DEF Kinds
  <2> QED BY <2>1, <2>2, <2>3, StartStep
<1>4. CASE PressP(s)
  <2>1. PICK ok \in BOOLEAN :
          Start(s, [Run("plan") EXCEPT !.stage = "done", !.list = Planned, !.ok = ok])
    BY <1>4 DEF PressP
  <2>2. PICK c : c = [Run("plan") EXCEPT !.stage = "done", !.list = Planned, !.ok = ok]
    OBVIOUS
  <2>3. UNCHANGED <<shown, indexed, plan, err, loading, cursor, history>> /\ Start(s, c)
    BY <1>4, <2>1, <2>2 DEF PressP
  <2>4. c \in Command /\ c.kind = "plan" /\ c.stage = "done"
    <3>1. Run("plan") \in Command /\ Run("plan").kind = "plan"
      BY RunLemma DEF Kinds
    <3>2. Planned \in Seq(Mod)
      BY <1>1, PlannedLemma
    <3> QED BY <2>2, <3>1, <3>2 DEF Command
  <2>5. Quiet
    BY <1>1, <1>2, <2>3 DEF Quiet, ScreenIsTyped, ShownIsTrue, history
  <2> QED BY <2>3, <2>4, <2>5, StartStep
<1>5. CASE PressS(s)
  <2>1. /\ Start(s, Run("sync")) /\ plan' = (IF plan = <<>> THEN Planned ELSE plan)
        /\ asShown' \in BOOLEAN /\ UNCHANGED <<shown, indexed, err, loading, cursor, viewed>>
        /\ UNCHANGED <<rev, shownRev, bestRev, lostRev, kept>>
    BY <1>5 DEF PressS
  <2>2. plan' \in Seq(Mod)
    BY <1>1, <2>1, PlannedLemma DEF ScreenIsTyped
  <2>3. Quiet
    BY <1>1, <1>2, <2>1, <2>2 DEF Quiet, ScreenIsTyped, ShownIsTrue
  <2>4. /\ Run("sync") \in Command /\ Run("sync").kind = "sync" /\ Run("sync").stage = "run"
        /\ Run("sync").list \in Tracked
    BY RunLemma DEF Kinds
  <2> QED BY <2>1, <2>3, <2>4, StartStep
<1>6. CASE PressD(s)
  <2>1. PICK c : c = [Run("untrack") EXCEPT !.mod = shown[cursor]]
    OBVIOUS
  <2>2. /\ Start(s, c) /\ kept' = kept \ {shown[cursor]} /\ cursor \in DOMAIN shown
        /\ UNCHANGED <<model, viewed, asShown, rev, shownRev, bestRev, lostRev>>
    BY <1>6, <2>1 DEF PressD
  <2>3. c \in Command /\ c.kind = "untrack" /\ c.stage = "run" /\ c.mod = shown[cursor] /\ c.list \in Tracked
    <3>1. /\ Run("untrack") \in Command /\ Run("untrack").kind = "untrack" /\ Run("untrack").stage = "run"
          /\ Run("untrack").list \in Tracked
      BY RunLemma DEF Kinds
    <3>2. shown[cursor] \in Mod
      BY <1>1, <2>2 DEF Tracked
    <3> QED BY <2>1, <3>1, <3>2 DEF Command
  <2>4. Quiet
    BY <1>1, <1>2, <2>2 DEF Quiet, ScreenIsTyped, ShownIsTrue, model
  <2> QED BY <2>2, <2>3, <2>4, StartStep
<1>7. CASE PressL(s)
  <2>1. Start(s, Run("output")) /\ UNCHANGED <<model, history>>
    BY <1>7 DEF PressL
  <2>2. Quiet
    BY <1>1, <1>2, <2>1 DEF Quiet, ScreenIsTyped, ShownIsTrue, history, model
  <2>3. /\ Run("output") \in Command /\ Run("output").kind = "output" /\ Run("output").stage = "run"
        /\ Run("output").list \in Tracked
    BY RunLemma DEF Kinds
  <2> QED BY <2>1, <2>2, <2>3, StartStep
<1>8. ASSUME NEW m \in Mod \cup {None}, PressEnter(s, m) PROVE TuiInv'
  <2>1. PICK c : c = [Run("track") EXCEPT !.mod = m]
    OBVIOUS
  <2>2. Start(s, c) /\ UNCHANGED <<model, history>>
    BY <1>8, <2>1 DEF PressEnter
  <2>3. c \in Command /\ c.kind = "track" /\ c.stage = "run" /\ c.list \in Tracked
    <3>1. /\ Run("track") \in Command /\ Run("track").kind = "track" /\ Run("track").stage = "run"
          /\ Run("track").list \in Tracked
      BY RunLemma DEF Kinds
    <3> QED BY <2>1, <3>1 DEF Command
  <2>4. Quiet
    BY <1>1, <1>2, <2>2 DEF Quiet, ScreenIsTyped, ShownIsTrue, history, model
  <2> QED BY <2>2, <2>3, <2>4, StartStep
<1> QED BY <1>3, <1>4, <1>5, <1>6, <1>7, <1>8

\* A command that ends, or has read the manifest, without saving it.
LEMMA CommandStep ==
  ASSUME TuiInv, NEW s \in Slot,
         Load(s) \/ LoadFails(s) \/ Read(s) \/ ChangeFails(s) \/ \E ok \in BOOLEAN : Answer(s, ok)
  PROVE  TuiInv'
<1>1. PICK old : old = cmd[s]
  OBVIOUS
<1>2. PICK c : c = cmd'[s]
  OBVIOUS
<1>3. old \in Command /\ cmd \in [Slot -> Command] /\ (old.kind # "plan" => old.list \in Tracked)
  BY <1>1 DEF TuiInv, TypeOK
<1>4. here \in Tracked /\ here \in Seq(Mod) /\ rev \in 0..(Presses + 1) /\ kept \subseteq Among(here)
  BY DEF TuiInv, TypeOK, KeptEverywhere, Tracked
<1>5. Quiet
  <2>1. UNCHANGED <<world, model, pressed, history>>
    BY DEF Load, LoadFails, Read, ChangeFails, Answer, Elsewhere
  <2> QED BY <2>1 DEF Quiet, ScreenIsTyped, TuiInv, TypeOK, ShownIsTrue, world, model, history
<1>6. remote' = remote /\ kept' = kept
  BY DEF Load, LoadFails, Read, ChangeFails, Answer, Elsewhere, world, history
<1>7. CASE Load(s)
  <2>1. old.kind = "load" /\ old.stage = "run"
    BY <1>1, <1>7 DEF Load, Runs
  <2>2. c \in Command /\ c.kind = "load" /\ c.stage = "done" /\ c.list = here /\ c.rev = rev
        /\ cmd' = [cmd EXCEPT ![s] = c]
    BY <1>1, <1>2, <1>3, <1>4, <1>7, <2>1 DEF Load, Command
  <2>3. Carries(c)
    BY <1>3, <1>4, <2>1, <2>2 DEF Carries
  <2>4. Follows(cmd[s], c)
    BY <1>1, <2>2 DEF Follows, Brings, Writes
  <2> QED BY <1>5, <2>2, <2>3, <2>4, Turning
<1>8. CASE LoadFails(s)
  <2>1. old.kind = "load" /\ old.stage = "run"
    BY <1>1, <1>8 DEF LoadFails, Runs
  <2>2. c \in Command /\ c.kind = "load" /\ c.stage = "done" /\ c.ok = FALSE /\ c.rev = rev
        /\ c.list = old.list /\ cmd' = [cmd EXCEPT ![s] = c]
    BY <1>1, <1>2, <1>3, <1>4, <1>8, <2>1 DEF LoadFails, Command
  <2>3. Carries(c)
    BY <1>3, <1>4, <2>1, <2>2 DEF Carries
  <2>4. Follows(cmd[s], c)
    BY <1>1, <2>2 DEF Follows, Brings, Writes
  <2> QED BY <1>5, <2>2, <2>3, <2>4, Turning
<1>9. CASE Read(s)
  <2>1. old.stage = "run" /\ Writes(old) /\ (old.kind = "track" => old.mod # None)
    BY <1>1, <1>9 DEF Read
  <2>2. c \in Command /\ c.kind = old.kind /\ c.mod = old.mod /\ c.stage = "read" /\ c.list = here
        /\ cmd' = [cmd EXCEPT ![s] = c]
    BY <1>1, <1>2, <1>3, <1>4, <1>9 DEF Read, Command
  <2>3. Writes(c)
    BY <2>1, <2>2 DEF Writes
  <2>4. c.kind = "untrack" => c.mod \notin kept
    BY <1>1, <2>1, <2>2 DEF TuiInv, KeptEverywhere
  <2>5. Carries(c)
    BY <1>4, <1>6, <2>1, <2>2, <2>3, <2>4 DEF Carries
  <2>6. Follows(cmd[s], c)
    BY <1>1, <2>1 DEF Follows, Brings, Writes
  <2> QED BY <1>5, <2>2, <2>5, <2>6, Turning
<1>10. CASE ChangeFails(s)
  <2>1. old.stage \in {"run", "read"} /\ Writes(old)
    BY <1>1, <1>10 DEF ChangeFails
  <2>2. c \in Command /\ c.kind = old.kind /\ c.stage = "done"
        /\ c.list = old.list /\ cmd' = [cmd EXCEPT ![s] = c]
    BY <1>1, <1>2, <1>3, <1>10 DEF ChangeFails, Ends, Command
  <2>3. c.kind # "load"
    BY <2>1, <2>2 DEF Writes
  <2>4. Carries(c)
    BY <1>3, <2>2, <2>3 DEF Carries
  <2>5. Follows(cmd[s], c)
    BY <1>1, <2>1 DEF Follows, Brings, Writes
  <2> QED BY <1>5, <2>2, <2>4, <2>5, Turning
<1>11. ASSUME NEW ok \in BOOLEAN, Answer(s, ok) PROVE TuiInv'
  <2>1. old.stage = "run" /\ old.kind # "load"
    BY <1>1, <1>11 DEF Answer, Runs
  <2>2. c \in Command /\ c.kind = old.kind /\ c.stage = "done"
        /\ c.list = old.list /\ cmd' = [cmd EXCEPT ![s] = c]
    BY <1>1, <1>2, <1>3, <1>11 DEF Answer, Ends, Command
  <2>3. Carries(c)
    BY <1>3, <2>1, <2>2 DEF Carries
  <2>4. Follows(cmd[s], c)
    BY <1>1, <2>1, <2>2 DEF Follows, Brings
  <2> QED BY <1>5, <2>2, <2>3, <2>4, Turning
<1> QED BY <1>7, <1>8, <1>9, <1>10, <1>11

\* The message of a command is handled; its place is free, or a load takes it.
LEMMA MessageStep ==
  ASSUME TuiInv, NEW s \in Slot, Messages(s)
  PROVE  TuiInv'
<1>1. PICK old : old = cmd[s]
  OBVIOUS
<1>2. old \in Command /\ old.stage = "done" /\ (old.kind # "plan" => old.list \in Tracked)
  BY <1>1 DEF TuiInv, TypeOK, Messages, Loaded, NotLoaded, PlanBuilt, SyncEnds, Output, TrackChanged, Arrives
<1>3. PICK c : (c = Idle \/ c = Run("load")) /\ cmd' = [cmd EXCEPT ![s] = c]
               /\ (old.kind \in {"sync", "track", "untrack"} /\ old.ok => c = Run("load"))
  BY <1>1 DEF Messages, Loaded, NotLoaded, PlanBuilt, SyncEnds, Output, TrackChanged, Arrives, Free, Reload
<1>4. /\ c \in Command /\ c.stage = "run" /\ c.kind \in {"none", "load"} /\ (c = Run("load") => c.kind = "load")
      /\ c.list \in Tracked
  <2>1. Idle.kind = "none" /\ Idle.stage = "run"
    BY DEF Idle
  <2> QED BY <1>3, <2>1, IdleLemma, RunLemma DEF Kinds
<1>5. Carries(c)
  BY <1>4 DEF Carries
<1>6. ~ Writes(c)
  BY <1>4 DEF Writes
<1>7. old.rev \in 0..(Presses + 1) /\ old.list \in Seq(Mod) /\ old.ok \in BOOLEAN
  BY <1>2, CommandParts
<1>8. /\ shown \in Tracked /\ plan \in Seq(Mod) /\ {indexed, err, loading, viewed, asShown} \subseteq BOOLEAN
      /\ cursor \in Nat \ {0} /\ pressed \in 0..Presses
      /\ {rev, shownRev, bestRev, lostRev} \subseteq 0..(Presses + 1)
      /\ shownRev <= bestRev /\ bestRev <= rev /\ lostRev <= rev /\ (shownRev = rev => shown = here)
  BY DEF TuiInv, TypeOK, ShownIsTrue
<1>9. bestRev <= bestRev /\ lostRev <= lostRev
  BY <1>8
<1>10. CASE Loaded(s)
  <2>1. /\ UNCHANGED <<world, plan, pressed, viewed, asShown, rev, lostRev, kept>>
        /\ loading' = FALSE /\ shown' = old.list /\ indexed' = TRUE /\ cursor' \in 1..cursor /\ err' = FALSE
        /\ shownRev' = old.rev /\ bestRev' = Later(bestRev, old.rev)
        /\ old.kind = "load" /\ old.ok
    BY <1>1, <1>10 DEF Loaded, Arrives
  <2>2. old.rev <= rev /\ (old.rev = rev => old.list = here)
    BY <1>1, <1>2, <2>1 DEF TuiInv, LoadsAreTrue
  <2>3. bestRev' \in 0..(Presses + 1) /\ bestRev <= bestRev' /\ old.rev <= bestRev' /\ bestRev' <= rev
    BY <1>7, <1>8, <2>1, <2>2 DEF Later
  <2>4. cursor' \in Nat \ {0}
    BY <1>8, <2>1
  <2>5. ScreenIsTyped'
    <3>1. shown' \in Tracked /\ plan' \in Seq(Mod) /\ {shownRev', bestRev', lostRev'} \subseteq 0..(Presses + 1)
      BY <1>2, <1>7, <1>8, <2>1, <2>3
    <3>2. {indexed', err', loading', viewed', asShown'} \subseteq BOOLEAN /\ pressed' \in 0..Presses
      BY <1>8, <2>1
    <3> QED BY <2>4, <3>1, <3>2 DEF ScreenIsTyped
  <2>6. UNCHANGED <<remote, here, there, rev>> /\ kept' \subseteq kept /\ pressed' = pressed /\ lostRev' = lostRev
    BY <2>1 DEF world
  <2>7. shownRev' <= bestRev' /\ (shownRev' = rev => shown' = here)
    BY <2>1, <2>2, <2>3
  <2>8. Quiet
    BY <1>8, <1>9, <2>3, <2>5, <2>6, <2>7 DEF Quiet
  <2>9. old.rev = rev => bestRev' = rev
    BY <1>7, <1>8, <2>3
  <2>10. Follows(cmd[s], c)
    BY <1>1, <1>2, <1>6, <2>1, <2>9 DEF Follows, Brings, Writes
  <2> QED BY <1>3, <1>5, <2>8, <2>10, Turning
<1>11. CASE NotLoaded(s)
  <2>1. /\ UNCHANGED <<world, shown, indexed, plan, cursor, pressed, viewed, asShown>>
        /\ UNCHANGED <<rev, shownRev, bestRev, kept>>
        /\ loading' = FALSE /\ err' = TRUE /\ lostRev' = Later(lostRev, old.rev)
        /\ old.kind = "load"
    BY <1>1, <1>11 DEF NotLoaded, Arrives
  <2>2. old.rev <= rev
    BY <1>1, <1>2, <2>1 DEF TuiInv, LoadsAreTrue
  <2>3. lostRev' \in 0..(Presses + 1) /\ lostRev <= lostRev' /\ old.rev <= lostRev' /\ lostRev' <= rev
    BY <1>7, <1>8, <2>1, <2>2 DEF Later
  <2>4. ScreenIsTyped'
    <3>1. shown' \in Tracked /\ plan' \in Seq(Mod) /\ {shownRev', bestRev', lostRev'} \subseteq 0..(Presses + 1)
      BY <1>8, <2>1, <2>3
    <3>2. {indexed', err', loading', viewed', asShown'} \subseteq BOOLEAN /\ pressed' \in 0..Presses
          /\ cursor' \in Nat \ {0}
      BY <1>8, <2>1
    <3> QED BY <3>1, <3>2 DEF ScreenIsTyped
  <2>5. UNCHANGED <<remote, here, there, rev, shown, bestRev, shownRev>> /\ kept' \subseteq kept /\ pressed' = pressed
    BY <2>1 DEF world
  <2>6. Quiet
    BY <1>8, <1>9, <2>3, <2>4, <2>5 DEF Quiet
  <2>7. old.rev = rev => lostRev' = rev
    BY <1>7, <1>8, <2>3
  <2>8. Follows(cmd[s], c)
    BY <1>1, <1>2, <1>6, <2>1, <2>7 DEF Follows, Brings, Writes
  <2> QED BY <1>3, <1>5, <2>6, <2>8, Turning
<1>12. CASE PlanBuilt(s) \/ SyncEnds(s) \/ Output(s) \/ TrackChanged(s)
  <2>1. /\ UNCHANGED <<world, shown, indexed, loading, cursor, pressed, asShown>>
        /\ UNCHANGED <<rev, shownRev, bestRev, lostRev, kept>>
        /\ err' \in BOOLEAN /\ viewed' \in BOOLEAN
        /\ plan' \in Seq(Mod) /\ old.kind # "load"
    BY <1>1, <1>7, <1>8, <1>12 DEF PlanBuilt, SyncEnds, Output, TrackChanged, Arrives, history
  <2>2. Quiet
    BY <1>8, <2>1 DEF Quiet, ScreenIsTyped, world
  <2>3. Follows(cmd[s], c)
    <3>1. Brings(old) => Brings(c)
      BY <1>3, <1>4, <2>1 DEF Brings, Writes
    <3> QED BY <1>1, <1>6, <3>1 DEF Follows
  <2> QED BY <1>3, <1>5, <2>2, <2>3, Turning
<1> QED BY <1>10, <1>11, <1>12 DEF Messages

\* The manifest is saved.
LEMMA WriteStep ==
  ASSUME TuiInv, NEW s \in Slot, Write(s)
  PROVE  TuiInv'
<1>1. PICK old : old = cmd[s]
  OBVIOUS
<1>2. PICK c : c = cmd'[s]
  OBVIOUS
<1>3. /\ old \in Command /\ old.stage = "read" /\ cmd \in [Slot -> Command]
      /\ \A t \in Slot : cmd[t].kind # "plan" => cmd[t].list \in Tracked
  BY <1>1 DEF TuiInv, TypeOK, Write
<1>4. Writes(old) /\ (old.kind = "track" => old.mod # None)
  BY <1>1, <1>3 DEF TuiInv, ReadersWrite
<1>5. /\ c \in Command /\ c.kind = old.kind /\ c.list = old.list /\ c.stage = "done" /\ c.ok = TRUE
      /\ cmd' \in [Slot -> Command] /\ \A t \in Slot \ {s} : cmd'[t] = cmd[t]
  BY <1>1, <1>2, <1>3 DEF Write, Ends, Command
<1>6. /\ rev' = rev + 1 /\ here' = Changed(old)
      /\ UNCHANGED <<remote, there, model, pressed, viewed, asShown, shownRev, bestRev, lostRev, kept>>
  BY <1>1 DEF Write
<1>7. /\ rev \in Nat /\ pressed \in Nat /\ rev \in 0..(Presses + 1) /\ Presses \in Nat
      /\ pressed \in 0..Presses /\ {shownRev, bestRev, lostRev} \subseteq 0..(Presses + 1)
      /\ shownRev <= rev /\ bestRev <= rev /\ lostRev <= rev /\ shownRev <= bestRev
  BY TuiAssumption DEF TuiInv, TypeOK, ShownIsTrue
<1>8. \A d : Writes(d)' <=> Writes(d)
  BY <1>6 DEF Writes
<1>9. here' \in Tracked /\ kept \subseteq Among(here')
  <2>1. old.list \in Tracked /\ old.mod \in Mod \cup {None}
    BY <1>1, <1>3, <1>4, CommandParts DEF Writes
  <2>2. kept \subseteq Among(old.list)
    BY <1>1, <1>3 DEF TuiInv, KeptEverywhere
  <2>3. CASE old.kind = "track"
    BY <1>4, <1>6, <2>1, <2>2, <2>3, AppendLemma DEF Changed
  <2>4. CASE old.kind = "untrack"
    <3>1. old.mod \notin kept
      BY <1>1, <1>3, <2>4 DEF TuiInv, KeptEverywhere
    <3>2. here' = Without(old.list, old.mod)
      BY <1>6, <2>4 DEF Changed
    <3>3. PICK W : W = Without(old.list, old.mod)
      OBVIOUS
    <3>4. W \in Tracked /\ \A x \in Among(old.list) : x = old.mod \/ x \in Among(W)
      BY <2>1, <3>3, WithoutLemma
    <3> QED BY <2>2, <3>1, <3>2, <3>3, <3>4
  <2>5. CASE old.kind \notin {"track", "untrack"}
    BY <1>6, <2>1, <2>2, <2>5 DEF Changed
  <2> QED BY <2>3, <2>4, <2>5
<1>10. SavesHaveKeys' /\ rev' \in 0..(Presses + 1)
  <2>1. s \in Pending
    BY <1>1, <1>3, <1>4 DEF Pending
  <2>2. \A t \in Slot : t \in Pending' <=> Writes(cmd'[t]) /\ cmd'[t].stage \in {"run", "read"}
    BY <1>6 DEF Pending, Writes
  <2>3. Pending' = Pending \ {s}
    <3>1. s \notin Pending'
      BY <1>2, <1>5, <2>2
    <3>2. \A t \in Slot \ {s} : t \in Pending' <=> t \in Pending
      BY <1>5, <2>2 DEF Pending
    <3> QED BY <3>1, <3>2 DEF Pending
  <2>4. IsFiniteSet(Pending) /\ Cardinality(Pending) \in Nat
    BY PendingLemma
  <2>5. Cardinality(Pending') = Cardinality(Pending) - 1
    BY <2>1, <2>3, <2>4, FS_RemoveElement
  <2>6. IsFiniteSet(Pending') /\ Cardinality(Pending') \in Nat
    BY <2>3, <2>4, FS_RemoveElement, FS_CardinalityType
  <2>7. rev + Cardinality(Pending) <= pressed + 1
    BY DEF TuiInv, SavesHaveKeys
  <2>8. rev' + Cardinality(Pending') <= pressed + 1
    BY <1>6, <1>7, <2>4, <2>5, <2>7
  <2>9. rev' \in 0..(Presses + 1)
    BY <1>6, <1>7, <2>6, <2>8
  <2> QED BY <1>6, <2>8, <2>9 DEF SavesHaveKeys
<1>11. TypeOK'
  <2>1. \A t \in Slot : cmd'[t].kind # "plan" => cmd'[t].list \in Tracked
    BY <1>1, <1>2, <1>3, <1>5
  <2> QED BY <1>5, <1>6, <1>9, <1>10, <2>1 DEF TuiInv, TypeOK, model
<1>12. ReadersWrite'
  <2> SUFFICES ASSUME NEW t \in Slot, cmd'[t].stage = "read"
               PROVE  Writes(cmd'[t]) /\ (cmd'[t].kind = "track" => cmd'[t].mod # None)
    BY <1>6 DEF ReadersWrite, Writes
  <2> QED BY <1>2, <1>5 DEF TuiInv, ReadersWrite
<1>13. LoadsAreTrue'
  <2> SUFFICES ASSUME NEW t \in Slot, cmd'[t].kind = "load", cmd'[t].stage = "done"
               PROVE  cmd'[t].rev <= rev' /\ cmd'[t].rev # rev'
    BY DEF LoadsAreTrue
  <2>1. c.kind # "load"
    BY <1>4, <1>5 DEF Writes
  <2>2. t # s /\ cmd'[t] = cmd[t]
    BY <1>2, <1>5, <2>1
  <2>3. cmd[t].rev <= rev
    BY <2>2 DEF TuiInv, LoadsAreTrue
  <2>4. cmd[t].rev \in 0..(Presses + 1)
    BY <1>3, CommandParts
  <2> QED BY <1>6, <1>7, <2>2, <2>3, <2>4
<1>14. ShownIsTrue'
  BY <1>6, <1>7 DEF ShownIsTrue
<1>15. NewestComes'
  <2>1. Writes(c)
    BY <1>4, <1>5 DEF Writes
  <2>2. Brings(cmd[s])'
    BY <1>2, <1>5, <1>6, <2>1 DEF Brings, Writes
  <2> QED BY <2>2 DEF NewestComes
<1>16. KeptEverywhere'
  <2>1. \A t \in Slot : cmd'[t].stage = "read" => kept \subseteq Among(cmd'[t].list)
    BY <1>2, <1>5 DEF TuiInv, KeptEverywhere
  <2>2. \A t \in Slot : cmd'[t].kind = "untrack" /\ cmd'[t].stage \in {"run", "read"} => cmd'[t].mod \notin kept
    BY <1>2, <1>5 DEF TuiInv, KeptEverywhere
  <2> QED BY <1>6, <1>9, <2>1, <2>2 DEF KeptEverywhere
<1> QED BY <1>10, <1>11, <1>12, <1>13, <1>14, <1>15, <1>16 DEF TuiInv

-------------------------------------------------------------------------------
LEMMA InitLemma == Init => TuiInv
<1> SUFFICES ASSUME Init PROVE TuiInv
  OBVIOUS
<1>1. PICK first : first = Run("load")
  OBVIOUS
<1>2. first \in Command /\ first.kind = "load" /\ first.stage = "run" /\ first.list \in Tracked
  BY <1>1, RunLemma DEF Kinds
<1>3. cmd = [s \in Slot |-> IF s = 1 THEN first ELSE Idle]
  BY <1>1 DEF Init
<1>4. Idle \in Command /\ Idle.list \in Tracked /\ Idle.kind = "none" /\ Idle.stage = "run"
  BY IdleLemma DEF Idle
<1>5. cmd \in [Slot -> Command]
      /\ \A s \in Slot : cmd[s].stage = "run" /\ cmd[s].kind \in {"load", "none"}
                         /\ cmd[s].list \in Tracked
  BY <1>2, <1>3, <1>4
<1>6. here \in Tracked /\ there \in Tracked
  BY EmptyList, TuiAssumption DEF Init
<1>7. Presses \in Nat /\ rev = 1 /\ pressed = 0 /\ shownRev = 0 /\ bestRev = 0 /\ lostRev = 0
      /\ kept = Among(here)
  BY TuiAssumption DEF Init
<1>8. Among(here) \subseteq Mod
  BY <1>6 DEF Among, Tracked
<1>9. TypeOK
  <2>1. {rev, shownRev, bestRev, lostRev} \subseteq 0..(Presses + 1) /\ pressed \in 0..Presses
    BY <1>7
  <2>2. {here, there, shown} \subseteq Tracked /\ plan \in Seq(Mod)
    BY <1>6, EmptyList DEF Init, Tracked
  <2>3. remote \in BOOLEAN /\ {indexed, err, loading, viewed, asShown} \subseteq BOOLEAN
    <3>1. /\ remote \in BOOLEAN /\ err = FALSE /\ loading = TRUE
          /\ indexed = FALSE /\ viewed = FALSE /\ asShown = TRUE
      BY DEF Init
    <3> QED BY <3>1, Zenon
  <2>4. cursor \in Nat \ {0}
    <3>1. cursor = 1
      BY DEF Init
    <3> QED BY <3>1
  <2> QED BY <1>5, <1>7, <1>8, <2>1, <2>2, <2>3, <2>4 DEF TypeOK
<1>10. SavesHaveKeys
  <2>1. Pending = {}
    BY <1>5 DEF Pending, Writes
  <2> QED BY <1>7, <2>1, FS_EmptySet DEF SavesHaveKeys
<1>11. NewestComes
  BY <1>2, <1>3, SlotLemma DEF NewestComes, Brings
<1>12. ReadersWrite /\ LoadsAreTrue /\ KeptEverywhere
  BY <1>5, <1>7 DEF ReadersWrite, LoadsAreTrue, KeptEverywhere
<1>13. ShownIsTrue
  BY <1>7 DEF ShownIsTrue
<1> QED BY <1>9, <1>10, <1>11, <1>12, <1>13 DEF TuiInv

LEMMA NextLemma == TuiInv /\ [Next]_vars => TuiInv'
<1> SUFFICES ASSUME TuiInv, [Next]_vars PROVE TuiInv'
  OBVIOUS
<1>1. TypeOK /\ ShownIsTrue
  BY DEF TuiInv
<1>2. CASE UNCHANGED vars
  <2>1. Quiet /\ cmd' = cmd
    BY <1>1, <1>2 DEF vars, world, model, history, Quiet, ScreenIsTyped, TypeOK, ShownIsTrue
  <2> QED BY <2>1, StillStep
<1>3. ASSUME NEW i \in DOMAIN shown, Move(i) PROVE TuiInv'
  <2>1. i \in Nat \ {0}
    BY <1>1 DEF TypeOK, Tracked
  <2>2. Quiet /\ cmd' = cmd
    BY <1>1, <1>3, <2>1 DEF Move, world, history, Quiet, ScreenIsTyped, TypeOK, ShownIsTrue
  <2> QED BY <2>2, StillStep
<1>4. CASE PressSFails
  <2>1. Quiet /\ cmd' = cmd
    BY <1>1, <1>4 DEF PressSFails, world, history, Quiet, ScreenIsTyped, TypeOK, ShownIsTrue
  <2> QED BY <2>1, StillStep
<1>5. ASSUME NEW s \in Slot,
             \/ PressR(s) \/ PressP(s) \/ PressS(s) \/ PressD(s) \/ PressL(s)
             \/ \E m \in Mod \cup {None} : PressEnter(s, m)
      PROVE  TuiInv'
  BY <1>5, KeyStep
<1>6. ASSUME NEW s \in Slot, Commands(s) PROVE TuiInv'
  BY <1>6, CommandStep, WriteStep DEF Commands
<1>7. ASSUME NEW s \in Slot, Messages(s) PROVE TuiInv'
  BY <1>7, MessageStep
<1> QED BY <1>2, <1>3, <1>4, <1>5, <1>6, <1>7 DEF Next

LEMMA AlwaysTrue == Spec => []TuiInv
BY InitLemma, NextLemma, PTL DEF Spec

\* The types are right for any number of keys and of commands in flight; above
\* all, no list ever holds a package twice, whatever track commands overlap.
THEOREM ScreenTypeCorrect == Spec => []TypeOK
<1>1. TuiInv => TypeOK
  BY DEF TuiInv
<1> QED BY <1>1, AlwaysTrue, PTL

\* When nothing is in flight, the list on the screen is the manifest's, unless
\* the load of the newest manifest failed or an older one overtook it.
THEOREM ScreenCatchesUp == Spec => []StaleOnlyIfOvertaken
<1>1. TuiInv => StaleOnlyIfOvertaken
  <2> SUFFICES ASSUME TuiInv, AtRest, lostRev # rev, ~ shownRev < bestRev PROVE shown = here
    BY DEF StaleOnlyIfOvertaken
  <2>1. \A s \in Slot : ~ Brings(cmd[s])
    BY DEF AtRest, Idle, Brings, Writes
  <2>2. bestRev = rev
    BY <2>1 DEF TuiInv, NewestComes
  <2>3. shownRev = rev
    BY <2>2 DEF TuiInv, TypeOK, ShownIsTrue
  <2> QED BY <2>3 DEF TuiInv, ShownIsTrue
<1> QED BY <1>1, AlwaysTrue, PTL

\* A package that nobody selected for removal stays in the manifest, however
\* the commands that rewrite it overlap.
THEOREM OthersStay == Spec => []OnlySelectedGo
<1>1. TuiInv => OnlySelectedGo
  BY DEF TuiInv, KeptEverywhere, OnlySelectedGo
<1> QED BY <1>1, AlwaysTrue, PTL
===============================================================================
