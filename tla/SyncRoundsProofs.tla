--------------------------- MODULE SyncRoundsProofs ---------------------------
(***************************************************************************)
(* Proofs about SyncRounds, for any packages, requirements and files.  The *)
(* three invariants are inductive together: that a file in the way is      *)
(* recorded for nobody else rests on every recorded file being on disk.    *)
(***************************************************************************)
EXTENDS SyncRounds, SequenceTheorems, TLAPS

\* OneOwner of one list, position by position.
Apart(list) == \A i, j \in DOMAIN list : list[i].files \cap list[j].files # {} => i = j

LEMMA VersionParts ==
  ASSUME NEW v \in Version
  PROVE  v[1] \in Mod /\ v[2] \in 1..Releases /\ v[2] \in 0..Releases /\ v = <<v[1], v[2]>>
BY RoundsAssumption DEF Version

LEMMA RecordedIff ==
  ASSUME NEW list, NEW p
  PROVE  p \in Recorded(list) <=> \E i \in DOMAIN list : p \in list[i].files
BY DEF Recorded, Among

\* What recording a version does to a list of tracked packages.
LEMMA UpsertLemma ==
  ASSUME NEW list \in Seq(Entry), Unique(list), NEW v \in Version
  PROVE  /\ Upsert(list, v) \in Seq(Entry) /\ Unique(Upsert(list, v))
         /\ \A i \in DOMAIN Upsert(list, v) :
              \/ Upsert(list, v)[i].mod = v[1] /\ Upsert(list, v)[i].files = Ships[v]
              \/ i \in DOMAIN list /\ list[i].mod # v[1] /\ Upsert(list, v)[i] = list[i]
         /\ \E i \in DOMAIN Upsert(list, v) : Upsert(list, v)[i].files = Ships[v]
         /\ \A i \in DOMAIN list :
              list[i].mod # v[1] => i \in DOMAIN Upsert(list, v) /\ Upsert(list, v)[i] = list[i]
<1> DEFINE New(d) == [mod |-> v[1], desired |-> d, installed |-> v[2], files |-> Ships[v]]
           U == Upsert(list, v)
<1>0. v[1] \in Mod /\ v[2] \in 0..Releases /\ Ships[v] \in SUBSET Path
  BY VersionParts, RoundsAssumption
<1>1. \A d \in 0..Releases : New(d) \in Entry
  BY <1>0 DEF Entry
<1>2. Newest \in 0..Releases
  BY RoundsAssumption DEF Newest
<1>3. CASE EntriesOf(list, v[1]) = {}
  <2>1. \A i \in DOMAIN list : list[i].mod # v[1]
    BY <1>3 DEF EntriesOf, Among
  <2>2. U = Append(list, New(Newest))
    BY <1>3 DEF Upsert
  <2>3. U \in Seq(Entry) /\ Len(U) = Len(list) + 1 /\ U[Len(list) + 1] = New(Newest)
        /\ \A i \in 1..Len(list) : U[i] = list[i]
    <3> HIDE DEF New
    <3> QED BY <1>1, <1>2, <2>2
  <2>4. New(Newest).mod = v[1] /\ New(Newest).files = Ships[v]
    OBVIOUS
  <2> HIDE DEF U, New
  <2>5. DOMAIN U = 1..(Len(list) + 1) /\ DOMAIN list = 1..Len(list) /\ Len(list) \in Nat
    BY <2>3
  <2>6. Unique(U)
    BY <2>1, <2>3, <2>4, <2>5 DEF Unique
  <2> QED BY <2>1, <2>3, <2>4, <2>5, <2>6 DEF U
<1>4. CASE EntriesOf(list, v[1]) # {}
  <2>1. PICK k \in DOMAIN list : list[k].mod = v[1]
    BY <1>4 DEF EntriesOf, Among
  <2>2. U = [i \in DOMAIN list |-> IF list[i].mod = v[1] THEN New(list[i].desired) ELSE list[i]]
    BY <1>4 DEF Upsert
  <2>3. \A i \in DOMAIN list : list[i] \in Entry /\ list[i].desired \in 0..Releases
    <3>1. \A i \in DOMAIN list : list[i] \in Entry
      OBVIOUS
    <3>2. \A e \in Entry : e.desired \in 0..Releases
      BY DEF Entry
    <3> QED BY <3>1, <3>2
  <2>4. \A d : New(d).mod = v[1] /\ New(d).files = Ships[v]
    OBVIOUS
  <2>5. \A i \in DOMAIN list : New(list[i].desired) \in Entry
    BY <1>1, <2>3
  <2> HIDE DEF U, New
  <2>6. DOMAIN U = DOMAIN list /\ U \in Seq(Entry)
    <3>1. U \in [1..Len(list) -> Entry]
      BY <2>2, <2>3, <2>5
    <3> QED BY <3>1, <2>2
  <2>7. \A i \in DOMAIN list : U[i].mod = list[i].mod
    BY <2>2, <2>4
  <2>8. Unique(U)
    BY <2>6, <2>7 DEF Unique
  <2> QED BY <2>1, <2>2, <2>4, <2>6, <2>8 DEF U
<1> QED BY <1>3, <1>4

\* Tracking a package changes no record.
LEMMA TrackLemma ==
  ASSUME NEW list \in Seq(Entry), Unique(list), Apart(list), NEW m \in Mod, NEW d \in 0..Releases
  PROVE  /\ WithDesired(list, m, d) \in Seq(Entry)
         /\ Unique(WithDesired(list, m, d)) /\ Apart(WithDesired(list, m, d))
         /\ Recorded(WithDesired(list, m, d)) = Recorded(list)
<1> DEFINE W == WithDesired(list, m, d)
           New == [mod |-> m, desired |-> d, installed |-> NotYet, files |-> {}]
<1>1. CASE EntriesOf(list, m) = {}
  <2>1. \A i \in DOMAIN list : list[i].mod # m
    BY <1>1 DEF EntriesOf, Among
  <2>2. New \in Entry /\ New.mod = m /\ New.files = {}
    BY RoundsAssumption DEF Entry, NotYet
  <2>3. W = Append(list, New)
    BY <1>1 DEF WithDesired
  <2> HIDE DEF W, New
  <2>4. W \in Seq(Entry) /\ DOMAIN W = 1..(Len(list) + 1) /\ W[Len(list) + 1] = New
        /\ \A i \in 1..Len(list) : W[i] = list[i]
    BY <2>2, <2>3
  <2>5. DOMAIN list = 1..Len(list) /\ Len(list) \in Nat
    OBVIOUS
  <2>6. Unique(W)
    BY <2>1, <2>2, <2>4, <2>5 DEF Unique
  <2>7. Apart(W)
    BY <2>2, <2>4, <2>5 DEF Apart
  <2>8. \A p : p \in Recorded(W) <=> p \in Recorded(list)
    BY <2>2, <2>4, <2>5, RecordedIff
  <2> QED BY <2>4, <2>6, <2>7, <2>8 DEF W
<1>2. CASE EntriesOf(list, m) # {}
  <2>1. W = [i \in DOMAIN list |-> IF list[i].mod = m THEN [list[i] EXCEPT !.desired = d] ELSE list[i]]
    BY <1>2 DEF WithDesired
  <2>2. \A e \in Entry : [e EXCEPT !.desired = d] \in Entry /\ [e EXCEPT !.desired = d].mod = e.mod
                         /\ [e EXCEPT !.desired = d].files = e.files
    BY DEF Entry
  <2> HIDE DEF W
  <2>3. DOMAIN W = DOMAIN list /\ W \in [1..Len(list) -> Entry]
    BY <2>1, <2>2
  <2>4. W \in Seq(Entry)
    BY <2>3
  <2>5. \A i \in DOMAIN list : W[i].mod = list[i].mod /\ W[i].files = list[i].files
    BY <2>1, <2>2
  <2>6. Unique(W) /\ Apart(W)
    BY <2>3, <2>5 DEF Unique, Apart
  <2>7. \A p : p \in Recorded(W) <=> p \in Recorded(list)
    BY <2>3, <2>5, RecordedIff
  <2> QED BY <2>4, <2>6, <2>7 DEF W
<1> QED BY <1>1, <1>2

\* Removing one entry leaves the others and their records.
LEMMA RemoveLemma ==
  ASSUME NEW list \in Seq(Entry), Unique(list), Apart(list), NEW k \in DOMAIN list
  PROVE  LET R == SubSeq(list, 1, k - 1) \o SubSeq(list, k + 1, Len(list)) IN
         /\ R \in Seq(Entry) /\ Unique(R) /\ Apart(R)
         /\ Recorded(R) \subseteq Recorded(list)
         /\ Recorded(list) \subseteq Recorded(R) \cup list[k].files
<1> DEFINE R == SubSeq(list, 1, k - 1) \o SubSeq(list, k + 1, Len(list))
           Old(i) == IF i < k THEN i ELSE i + 1
<1>1. Len(list) \in Nat /\ DOMAIN list = 1..Len(list) /\ k \in 1..Len(list)
  OBVIOUS
<1>2. R \in Seq(Entry) /\ Len(R) = Len(list) - 1
  BY <1>1
<1>3. \A i \in 1..(Len(list) - 1) : R[i] = list[Old(i)]
  <2> SUFFICES ASSUME NEW i \in 1..(Len(list) - 1) PROVE R[i] = list[Old(i)]
    OBVIOUS
  <2> DEFINE L == SubSeq(list, 1, k - 1)
             T == SubSeq(list, k + 1, Len(list))
  <2>1. L \in Seq(Entry) /\ Len(L) = k - 1 /\ \A n \in 1..(k - 1) : L[n] = list[n]
    BY <1>1
  <2>2. T \in Seq(Entry) /\ Len(T) = Len(list) - k
        /\ \A n \in 1..(Len(list) - k) : T[n] = list[n + k]
    BY <1>1
  <2>3. R[i] = (L \o T)[i]
    OBVIOUS
  <2>4. Old(i) = IF i < k THEN i ELSE i + 1
    OBVIOUS
  <2> HIDE DEF L, T, R, Old
  <2>5. i \in Int /\ k \in Int /\ Len(list) \in Int
    BY <1>1
  <2>6. (L \o T)[i] = IF i <= Len(L) THEN L[i] ELSE T[i - Len(L)]
    <3>1. i \in 1..(Len(L) + Len(T))
      BY <1>1, <2>1, <2>2
    <3> QED BY <2>1, <2>2, <3>1, ConcatProperties
  <2>7. CASE i < k
    <3>1. i <= Len(L) /\ i \in 1..(k - 1)
      BY <2>1, <2>5, <2>7
    <3> QED BY <2>1, <2>3, <2>4, <2>6, <2>7, <3>1
  <2>8. CASE i >= k
    <3>1. ~ i <= Len(L) /\ ~ i < k
      BY <2>1, <2>5, <2>8
    <3>2. i - Len(L) \in 1..(Len(list) - k) /\ (i - Len(L)) + k = i + 1
      BY <1>1, <2>1, <2>5, <2>8
    <3>3. T[i - Len(L)] = list[i + 1]
      BY <2>2, <3>2
    <3> QED BY <2>3, <2>4, <2>6, <3>1, <3>3
  <2> QED BY <2>5, <2>7, <2>8
<1> HIDE DEF R
<1>4. DOMAIN R = 1..(Len(list) - 1)
  BY <1>1, <1>2
<1>5. \A i \in DOMAIN R : Old(i) \in DOMAIN list
  BY <1>1, <1>4
<1>6. \A i, j \in DOMAIN R : Old(i) = Old(j) => i = j
  BY <1>1, <1>4
<1>7. \A n \in DOMAIN list : n # k => \E i \in DOMAIN R : Old(i) = n
  <2> SUFFICES ASSUME NEW n \in DOMAIN list, n # k PROVE \E i \in DOMAIN R : Old(i) = n
    OBVIOUS
  <2>1. CASE n < k
    BY <1>1, <1>4, <2>1
  <2>2. CASE n > k
    <3>1. n - 1 \in DOMAIN R /\ Old(n - 1) = n
      BY <1>1, <1>4, <2>2
    <3> QED BY <3>1
  <2> QED BY <1>1, <2>1, <2>2
<1> HIDE DEF Old
<1>8. Unique(R) /\ Apart(R)
  BY <1>3, <1>4, <1>5, <1>6 DEF Unique, Apart
<1>9. \A p : p \in Recorded(R) => p \in Recorded(list)
  BY <1>3, <1>4, <1>5, RecordedIff
<1>10. \A p : p \in Recorded(list) => p \in Recorded(R) \/ p \in list[k].files
  BY <1>3, <1>4, <1>7, RecordedIff
<1> QED BY <1>2, <1>8, <1>9, <1>10 DEF R

LEMMA ApartIff ==
  ASSUME NEW list, Unique(list)
  PROVE  (\A e, f \in Among(list) : e.files \cap f.files # {} => e = f) <=> Apart(list)
BY DEF Unique, Among, Apart

LEMMA EmptyListLemma ==
  <<>> \in Seq(Entry) /\ <<>> \in Seq(Version) /\ Unique(<<>>) /\ Apart(<<>>) /\ Recorded(<<>>) = {}
<1>1. DOMAIN <<>> = {}
  OBVIOUS
<1>2. \A p : p \notin Recorded(<<>>)
  BY <1>1, RecordedIff
<1> QED BY <1>1, <1>2 DEF Unique, Apart

\* A list whose entries all have a version asks for versions.
LEMMA RootsLemma ==
  ASSUME TypeOK, \A e \in Among(tracked) : Found(e)
  PROVE  Roots(tracked) \in Seq(Version)
<1>1. tracked \in Seq(Entry) /\ published \in [Mod -> 0..Releases]
  BY DEF TypeOK
<1>2. ASSUME NEW i \in DOMAIN tracked PROVE <<tracked[i].mod, Wanted(tracked[i])>> \in Version
  <2> DEFINE e == tracked[i]
  <2>1. e \in Entry /\ e \in Among(tracked)
    BY <1>1 DEF Among
  <2>2. e.mod \in Mod /\ e.desired \in 0..Releases
    BY <2>1 DEF Entry
  <2>3. published[e.mod] \in 0..Releases /\ published[e.mod] > 0
    BY <1>1, <2>1, <2>2 DEF Found
  <2> HIDE DEF e
  <2>4. Wanted(e) \in 1..Releases
    BY <2>2, <2>3, RoundsAssumption DEF Wanted, Newest
  <2> QED BY <2>2, <2>4 DEF Version, e
<1>3. Roots(tracked) \in [1..Len(tracked) -> Version]
  BY <1>1, <1>2 DEF Roots
<1> QED BY <1>1, <1>3

-------------------------------------------------------------------------------
IInv == TypeOK /\ Accounted /\ Apart(tracked) /\ Apart(draft)

LEMMA InitIsRight == Init => IInv
<1> SUFFICES ASSUME Init PROVE IInv
  OBVIOUS
<1>1. published \in [Mod -> 0..Releases]
  BY RoundsAssumption DEF Init
<1>2. tracked = <<>> /\ draft = <<>> /\ rootsLeft = <<>>
  BY DEF Init
<1>3. TypeOK
  <2>1. Unique(tracked) /\ Unique(draft) /\ tracked \in Seq(Entry) /\ draft \in Seq(Entry)
        /\ rootsLeft \in Seq(Version)
    BY <1>2, EmptyListLemma
  <2> QED BY <1>1, <1>2, <2>1 DEF Init, TypeOK
<1>4. Accounted
  BY <1>2, EmptyListLemma DEF Init, Accounted
<1> QED BY <1>2, <1>3, <1>4, EmptyListLemma DEF IInv

\* Track and untrack.
LEMMA EditStep ==
  ASSUME IInv, NEW m \in Mod, Untrack(m) \/ \E d \in 0..Releases : Track(m, d)
  PROVE  IInv'
<1>1. tracked \in Seq(Entry) /\ Unique(tracked) /\ Apart(tracked)
  BY DEF IInv, TypeOK
<1>2. CASE Untrack(m)
  <2>1. PICK k \in DOMAIN tracked :
          /\ tracked' = SubSeq(tracked, 1, k - 1) \o SubSeq(tracked, k + 1, Len(tracked))
          /\ loose' = loose \cup tracked[k].files
    BY <1>2 DEF Untrack
  <2>2. /\ tracked' \in Seq(Entry) /\ Unique(tracked') /\ Apart(tracked')
        /\ Recorded(tracked') \subseteq Recorded(tracked)
        /\ Recorded(tracked) \subseteq Recorded(tracked') \cup tracked[k].files
    BY <1>1, <2>1, RemoveLemma
  <2>3. tracked[k].files \subseteq Path
    <3>1. tracked[k] \in Entry
      BY <1>1
    <3> QED BY <3>1 DEF Entry
  <2>4. TypeOK'
    BY <1>2, <2>1, <2>2, <2>3 DEF Untrack, IInv, TypeOK, syncVars, Unique
  <2>5. Accounted'
    <3>1. Recorded(draft)' = Recorded(draft) /\ Recorded(tracked)' = Recorded(tracked')
      BY <1>2 DEF Untrack, syncVars, Recorded, Among
    <3>2. phase' = "rest" /\ phase = "rest" /\ disk' = disk
      BY <1>2 DEF Untrack, syncVars
    <3> QED BY <2>1, <2>2, <3>1, <3>2 DEF IInv, Accounted
  <2>6. Apart(draft)'
    BY <1>2 DEF Untrack, IInv, syncVars, Apart
  <2>7. Apart(tracked)'
    BY <2>2 DEF Apart
  <2> QED BY <2>4, <2>5, <2>6, <2>7 DEF IInv
<1>3. CASE \E d \in 0..Releases : Track(m, d)
  <2>1. PICK d \in 0..Releases : Track(m, d)
    BY <1>3
  <2>2. /\ tracked' \in Seq(Entry) /\ Unique(tracked') /\ Apart(tracked')
        /\ Recorded(tracked') = Recorded(tracked)
    BY <1>1, <2>1, TrackLemma DEF Track
  <2>3. TypeOK'
    BY <2>1, <2>2 DEF Track, IInv, TypeOK, syncVars, Unique
  <2>4. Accounted'
    <3>1. Recorded(draft)' = Recorded(draft) /\ Recorded(tracked)' = Recorded(tracked')
      BY <2>1 DEF Track, syncVars, Recorded, Among
    <3>2. phase' = "rest" /\ phase = "rest" /\ disk' = disk /\ loose' = loose
      BY <2>1 DEF Track, syncVars
    <3> QED BY <2>2, <3>1, <3>2 DEF IInv, Accounted
  <2>5. Apart(draft)'
    BY <2>1 DEF Track, IInv, syncVars, Apart
  <2>6. Apart(tracked)'
    BY <2>2 DEF Apart
  <2> QED BY <2>3, <2>4, <2>5, <2>6 DEF IInv
<1> QED BY <1>2, <1>3

LEMMA StartStep == IInv /\ StartSync => IInv'
<1> SUFFICES ASSUME IInv, StartSync PROVE IInv'
  OBVIOUS
<1>1. Roots(tracked) \in Seq(Version)
  BY RootsLemma DEF IInv, StartSync
<1>2. depsLeft' \subseteq Version
  BY DEF StartSync, Index
<1>3. TypeOK'
  BY <1>1, <1>2 DEF StartSync, IInv, TypeOK, Unique
<1>4. Accounted'
  BY DEF StartSync, IInv, TypeOK, Accounted, Recorded, Among
<1> QED BY <1>3, <1>4 DEF StartSync, IInv, Apart

\* A version is installed over the files of its own package and of no other.
LEMMA InstallStep ==
  ASSUME IInv, NEW v \in Version, Install(v)
  PROVE  IInv'
<1> DEFINE U == Upsert(draft, v)
<1>1. draft \in Seq(Entry) /\ Unique(draft) /\ Apart(draft)
  BY DEF IInv, TypeOK
<1>2. /\ U \in Seq(Entry) /\ Unique(U)
      /\ \A i \in DOMAIN U :
           \/ U[i].mod = v[1] /\ U[i].files = Ships[v]
           \/ i \in DOMAIN draft /\ draft[i].mod # v[1] /\ U[i] = draft[i]
      /\ \E i \in DOMAIN U : U[i].files = Ships[v]
      /\ \A i \in DOMAIN draft : draft[i].mod # v[1] => i \in DOMAIN U /\ U[i] = draft[i]
  BY <1>1, UpsertLemma
<1>3. draft' = U /\ disk' = disk \cup Ships[v] /\ loose' = loose \cup (Own(v) \ Ships[v])
      /\ tracked' = tracked /\ phase = "sync" /\ phase' = phase
  <2>1. draft' = U /\ disk' = disk \cup Ships[v] /\ tracked' = tracked /\ phase' = phase
    BY DEF Install
  <2>2. loose' = loose \cup (Own(v) \ Ships[v])
    BY DEF Install
  <2>3. phase = "sync"
    BY DEF Install, IsNext
  <2> QED BY <2>1, <2>2, <2>3
<1>4. Ships[v] \subseteq Path
  BY RoundsAssumption
<1> HIDE DEF U
<1>5. ASSUME NEW p \in Ships[v], NEW j \in DOMAIN draft, p \in draft[j].files
      PROVE  draft[j].mod = v[1]
  <2>1. p \in disk
    BY <1>5, RecordedIff DEF IInv, Accounted
  <2>2. PICK e \in EntriesOf(draft, v[1]) : p \in e.files
    BY <1>5, <2>1 DEF Install, Blocked, Own
  <2>3. PICK i \in DOMAIN draft : draft[i] = e /\ draft[i].mod = v[1]
    BY <2>2 DEF EntriesOf, Among
  <2>4. i = j
    BY <1>1, <1>5, <2>2, <2>3 DEF Apart
  <2> QED BY <2>3, <2>4
<1>6. Apart(U)
  <2> SUFFICES ASSUME NEW i \in DOMAIN U, NEW j \in DOMAIN U, U[i].files \cap U[j].files # {}
               PROVE  i = j
    BY DEF Apart
  <2>1. CASE U[i].mod = v[1] /\ U[j].mod = v[1]
    BY <1>2, <2>1 DEF Unique
  <2>2. CASE U[i].mod = v[1] /\ U[j].mod # v[1]
    BY <1>2, <1>5, <2>2
  <2>3. CASE U[i].mod # v[1] /\ U[j].mod = v[1]
    BY <1>2, <1>5, <2>3
  <2>4. CASE U[i].mod # v[1] /\ U[j].mod # v[1]
    BY <1>1, <1>2, <2>4 DEF Apart
  <2> QED BY <2>1, <2>2, <2>3, <2>4
<1>7. \A p : p \in Recorded(U) => p \in Recorded(draft) \/ p \in Ships[v]
  BY <1>2, RecordedIff
<1>8. \A p : p \in Recorded(draft) => p \in Recorded(U) \/ p \in Own(v)
  <2> SUFFICES ASSUME NEW p, p \in Recorded(draft), p \notin Own(v) PROVE p \in Recorded(U)
    OBVIOUS
  <2>1. PICK j \in DOMAIN draft : p \in draft[j].files
    BY RecordedIff
  <2>2. draft[j].mod # v[1]
    BY <2>1 DEF Own, EntriesOf, Among
  <2> QED BY <1>2, <2>1, <2>2, RecordedIff
<1>9. \A p \in Ships[v] : p \in Recorded(U)
  BY <1>2, RecordedIff
<1>10. Own(v) \subseteq Path
  <2>1. \A e \in EntriesOf(draft, v[1]) : e \in Entry
    BY <1>1 DEF EntriesOf, Among
  <2>2. \A e \in Entry : e.files \subseteq Path
    BY DEF Entry
  <2> QED BY <2>1, <2>2 DEF Own
<1>11. rootsLeft' \in Seq(Version) /\ depsLeft' \subseteq Version
  <2>1. rootsLeft \in Seq(Version) /\ depsLeft \subseteq Version
    BY DEF IInv, TypeOK
  <2>2. CASE rootsLeft # <<>>
    BY <2>1, <2>2 DEF Install, NextDone
  <2>3. CASE rootsLeft = <<>>
    BY <2>1, <2>3 DEF Install, NextDone
  <2> QED BY <2>2, <2>3
<1>12. TypeOK'
  BY <1>2, <1>3, <1>4, <1>10, <1>11 DEF Install, IInv, TypeOK, Unique
<1>13. Accounted'
  <2>1. Recorded(tracked)' = Recorded(tracked) /\ Recorded(draft)' = Recorded(U)
    BY <1>3 DEF Recorded, Among
  <2>2. Recorded(tracked) \subseteq disk /\ Recorded(draft) \subseteq disk
        /\ disk \subseteq loose \cup Recorded(draft)
    BY <1>3 DEF IInv, Accounted
  <2>3. Recorded(U) \subseteq disk'
    BY <1>3, <1>7, <2>2
  <2>4. disk' \subseteq loose' \cup Recorded(U)
    BY <1>3, <1>8, <1>9, <2>2
  <2> QED BY <1>3, <2>1, <2>2, <2>3, <2>4 DEF Accounted, Recorded, Among
<1> QED BY <1>3, <1>6, <1>12, <1>13 DEF IInv, Apart

\* A sync that is given up leaves the manifest and accounts for its files.
LEMMA AbandonStep ==
  ASSUME IInv, phase = "sync", NEW files \in SUBSET Path, Abandon(files)
  PROVE  IInv'
<1>1. tracked' = tracked /\ draft' = <<>> /\ phase' = "rest"
      /\ disk' = disk \cup files /\ loose' = loose \cup ((files \cup Recorded(draft)) \ Recorded(tracked))
  BY DEF Abandon, Return
<1>2. Recorded(tracked) \subseteq disk /\ Recorded(draft) \subseteq disk
      /\ disk \subseteq loose \cup Recorded(draft)
  BY DEF IInv, Accounted
<1>3. Recorded(draft) \subseteq Path
  BY <1>2 DEF IInv, TypeOK
<1>4. Recorded(<<>>) = {}
  BY EmptyListLemma
<1>5. TypeOK'
  <2>1. disk' \subseteq Path /\ loose' \subseteq Path
    BY <1>1, <1>3 DEF IInv, TypeOK
  <2>2. rootsLeft' = <<>> /\ depsLeft' = {} /\ published' = published /\ steady' = FALSE
    BY DEF Abandon, Return
  <2>3. Unique(draft') /\ Unique(tracked') /\ draft' \in Seq(Entry) /\ tracked' \in Seq(Entry)
    BY <1>1, EmptyListLemma DEF IInv, TypeOK
  <2>4. rootsLeft' \in Seq(Version)
    BY <2>2, EmptyListLemma
  <2> QED BY <1>1, <2>1, <2>2, <2>3, <2>4 DEF IInv, TypeOK
<1>6. Accounted'
  <2>1. Recorded(tracked)' = Recorded(tracked) /\ Recorded(draft)' = {}
    BY <1>1, <1>4 DEF Recorded, Among
  <2>2. Recorded(tracked) \subseteq disk' /\ disk' \subseteq loose' \cup Recorded(tracked)
    BY <1>1, <1>2
  <2>3. phase' # "sync"
    BY <1>1
  <2> QED BY <1>1, <2>1, <2>2, <2>3 DEF Accounted
<1> QED BY <1>1, <1>5, <1>6, EmptyListLemma DEF IInv, Apart

LEMMA SaveStep == IInv /\ Save => IInv'
<1> SUFFICES ASSUME IInv, Save PROVE IInv'
  OBVIOUS
<1>1. TypeOK'
  <2>1. Unique(draft') /\ Unique(tracked') /\ draft' \in Seq(Entry) /\ tracked' \in Seq(Entry)
    BY EmptyListLemma DEF Save, Return, IInv, TypeOK
  <2>2. rootsLeft' \in Seq(Version)
    BY EmptyListLemma DEF Save, Return
  <2>3. published' = published /\ disk' = disk /\ loose' = loose /\ steady' = TRUE
        /\ depsLeft' = {} /\ draft' = <<>> /\ rootsLeft' = <<>> /\ phase' = "rest"
    BY DEF Save, Return
  <2>4. disk \subseteq Path /\ loose \subseteq Path /\ published \in [Mod -> 0..Releases]
    BY DEF IInv, TypeOK
  <2> QED BY <2>1, <2>2, <2>3, <2>4 DEF TypeOK
<1>2. Accounted'
  BY EmptyListLemma DEF Save, AllDone, Return, IInv, Accounted, Recorded, Among
<1> QED BY <1>1, <1>2, EmptyListLemma DEF Save, Return, IInv, Apart

LEMMA StepIsRight == IInv /\ [Next]_vars => IInv'
<1> SUFFICES ASSUME IInv, [Next]_vars PROVE IInv'
  OBVIOUS
<1>1. CASE UNCHANGED vars
  BY <1>1 DEF vars, syncVars, IInv, TypeOK, Accounted, Apart, Unique, Recorded, Among
<1>2. ASSUME NEW m \in Mod, Publish(m) PROVE IInv'
  <2>1. TypeOK'
    <3>1. published \in [Mod -> 0..Releases] /\ published[m] < Releases
          /\ published' = [published EXCEPT ![m] = @ + 1]
      BY <1>2 DEF Publish, IInv, TypeOK
    <3>2. published[m] + 1 \in 0..Releases
      BY <3>1, RoundsAssumption
    <3>3. published' \in [Mod -> 0..Releases]
      BY <3>1, <3>2
    <3> QED BY <1>2, <3>3 DEF Publish, IInv, TypeOK, syncVars, Unique
  <2> QED BY <1>2, <2>1 DEF Publish, IInv, Accounted, syncVars, Apart, Recorded, Among
<1>3. ASSUME NEW m \in Mod, Untrack(m) \/ \E d \in 0..Releases : Track(m, d) PROVE IInv'
  BY <1>3, EditStep
<1>4. CASE StartSync
  BY <1>4, StartStep
<1>5. CASE Save
  BY <1>5, SaveStep
<1>6. CASE SaveFails
  <2>1. Abandon({}) /\ phase = "sync"
    BY <1>6 DEF SaveFails, AllDone
  <2> QED BY <2>1, AbandonStep
<1>7. ASSUME NEW v \in Version, Install(v) PROVE IInv'
  BY <1>7, InstallStep
<1>8. ASSUME NEW v \in Version, Fail(v) PROVE IInv'
  <2>1. PICK files \in SUBSET (Ships[v] \ Blocked(v)) : Abandon(files)
    BY <1>8 DEF Fail
  <2>2. files \in SUBSET Path /\ phase = "sync"
    BY <1>8, RoundsAssumption DEF Fail, IsNext
  <2> QED BY <2>1, <2>2, AbandonStep
<1> QED BY <1>1, <1>2, <1>3, <1>4, <1>5, <1>6, <1>7, <1>8 DEF Next

LEMMA AlwaysRight == Spec => []IInv
BY InitIsRight, StepIsRight, PTL DEF Spec

\* The types are right in any number of rounds, and no package is ever
\* tracked twice.
THEOREM TypeCorrect == Spec => []TypeOK
<1>1. IInv => TypeOK
  BY DEF IInv
<1> QED BY <1>1, AlwaysRight, PTL

\* What the manifest records is on disk, and a file on disk that it does not
\* record was left by an untracked package, a replaced version or a failed
\* sync.
THEOREM FilesAccounted == Spec => []Accounted
<1>1. IInv => Accounted
  BY DEF IInv
<1> QED BY <1>1, AlwaysRight, PTL

\* Without overlapping syncs no file is ever recorded for two packages.
THEOREM OneOwnerOnly == Spec => []OneOwner
<1>1. IInv => OneOwner
  BY ApartIff DEF IInv, TypeOK, OneOwner
<1> QED BY <1>1, AlwaysRight, PTL
-------------------------------------------------------------------------------
(* What a good sync leaves behind, and what a plan under way promises.     *)

\* The versions that the roots ask for, directly or through others.
Named(roots) == Among(roots) \cup Reached(roots)

\* IsPlan of a set of roots.
PlanFor(V, deps) ==
  /\ Needs(V \cup deps) \cap Broken = {}
  /\ \A r \in Needs(V \cup deps) : \E d \in deps : d[1] = r[1]
  /\ \A d, e \in deps : d[1] = e[1] => d = e
  /\ \A S \in SUBSET deps : deps \cap Needs(V \cup S) \subseteq S => S = deps

\* An entry records a version that is asked for, with its files.
Settled(e) ==
  /\ e.installed # NotYet
  /\ <<e.mod, e.installed>> \in Named(Roots(tracked))
  /\ e.files = Ships[<<e.mod, e.installed>>]

\* The last sync had the roots V and the dependencies D: what is tracked are
\* those roots, and packages of D at "latest".
AddsUpFor(list, V, D) ==
  /\ PlanFor(V, D) /\ V \subseteq Among(Roots(list)) /\ D \subseteq Reached(Roots(list))
  /\ \A e \in Among(list) :
       \/ Found(e) /\ <<e.mod, Wanted(e)>> \in V
       \/ e.desired = Newest /\ \E d \in D : d[1] = e.mod
  /\ \A d \in D : EntriesOf(list, d[1]) # {}

AddsUp(list) == \E V \in SUBSET Version, D \in SUBSET Index : AddsUpFor(list, V, D)

\* A sync under way carries out a plan D of the tracked packages; whatever has
\* not been dealt with yet is still to come.
Carries(D) ==
  /\ PlanFor(Among(Roots(tracked)), D) /\ depsLeft \subseteq D
  /\ Among(rootsLeft) \subseteq Among(Roots(tracked))
  /\ \A e \in Among(draft) :
       \/ \E f \in Among(tracked) : f.mod = e.mod /\ f.desired = e.desired
       \/ e.desired = Newest /\ \E d \in D : d[1] = e.mod
  /\ \A f \in Among(tracked) : \E e \in Among(draft) : e.mod = f.mod /\ e.desired = f.desired
  /\ \A d \in D \ depsLeft : EntriesOf(draft, d[1]) # {}
  /\ \A e \in Among(draft) : Settled(e) \/ (~ steady /\ \E v \in Among(rootsLeft) : v[1] = e.mod)

UnderWay ==
  /\ \A f \in Among(tracked) : Found(f)
  /\ \E D \in SUBSET Index : Carries(D)

RoundInv ==
  /\ steady => AddsUp(tracked) /\ \A e \in Among(tracked) : Settled(e)
  /\ phase = "sync" => UnderWay

\* What a version needs depends on the index and on nothing else.
LEMMA SameIndex ==
  ASSUME published' = published
  PROVE  /\ \A e : Found(e)' = Found(e) /\ Wanted(e)' = Wanted(e)
         /\ Index' = Index
         /\ \A V : Needs(V)' = Needs(V)
         /\ \A list : Roots(list)' = Roots(list)
         /\ \A roots : Reached(roots)' = Reached(roots)
         /\ \A V, deps : PlanFor(V, deps)' <=> PlanFor(V, deps)
<1>1. Index' = Index
  BY DEF Index
<1>2. \A e : Found(e)' = Found(e) /\ Wanted(e)' = Wanted(e)
  BY <1>1 DEF Found, Wanted, LatestFails
<1>3. \A V : Needs(V)' = Needs(V)
  BY <1>1 DEF Needs
<1>4. \A list : Roots(list)' = Roots(list)
  BY <1>2 DEF Roots
<1>5. \A roots : Reached(roots)' = Reached(roots)
  BY <1>3 DEF Reached
<1>6. \A V, deps : PlanFor(V, deps)' <=> PlanFor(V, deps)
  BY <1>3 DEF PlanFor
<1> QED BY <1>1, <1>2, <1>3, <1>4, <1>5, <1>6

LEMMA NeedsGrow ==
  ASSUME NEW V, NEW W, V \subseteq W
  PROVE  Needs(V) \subseteq Needs(W)
BY DEF Needs

LEMMA NeedsAreVersions == \A V : Needs(V) \subseteq Version
BY RoundsAssumption DEF Needs, Index

\* More roots reach more.
LEMMA ReachGrows ==
  ASSUME NEW R1, NEW R2, Among(R1) \subseteq Among(R2)
  PROVE  Reached(R1) \subseteq Reached(R2)
<1> SUFFICES ASSUME NEW v \in Reached(R1), NEW S \in SUBSET Version, Needs(Among(R2) \cup S) \subseteq S
             PROVE  v \in S
  BY DEF Reached
<1>1. Needs(Among(R1) \cup S) \subseteq Needs(Among(R2) \cup S)
  BY NeedsGrow
<1> QED BY <1>1 DEF Reached

\* What the named versions need is reached.
LEMMA ReachIsClosed ==
  ASSUME NEW R
  PROVE  Needs(Named(R)) \subseteq Reached(R)
<1> SUFFICES ASSUME NEW v \in Needs(Named(R)), NEW S \in SUBSET Version, Needs(Among(R) \cup S) \subseteq S
             PROVE  v \in S
  BY NeedsAreVersions DEF Reached
<1>1. Reached(R) \subseteq S
  BY DEF Reached
<1>2. Needs(Named(R)) \subseteq Needs(Among(R) \cup S)
  BY <1>1, NeedsGrow DEF Named
<1> QED BY <1>2

\* A plan has nothing that the roots do not reach.
LEMMA PlanIsReached ==
  ASSUME NEW R, NEW D \in SUBSET Version, PlanFor(Among(R), D)
  PROVE  D \subseteq Reached(R)
<1> SUFFICES ASSUME NEW S \in SUBSET Version, Needs(Among(R) \cup S) \subseteq S
             PROVE  D \subseteq S
  BY DEF Reached
<1> DEFINE T == D \cap S
<1>1. T \in SUBSET D
  OBVIOUS
<1>2. Needs(Among(R) \cup T) \subseteq Needs(Among(R) \cup S)
  BY NeedsGrow
<1>3. D \cap Needs(Among(R) \cup T) \subseteq T
  BY <1>2
<1>4. T = D
  BY <1>1, <1>3 DEF PlanFor
<1> QED BY <1>4

\* What recording v changes in the entries of a list, which becomes U.
Recording(list, v, U) ==
  /\ \A e \in Among(U) :
       \/ e \in Among(list) /\ e.mod # v[1]
       \/ /\ e.mod = v[1] /\ e.installed = v[2] /\ e.files = Ships[v]
          /\ \/ EntriesOf(list, v[1]) = {} /\ e.desired = Newest
             \/ \E f \in Among(list) : f.mod = v[1] /\ f.desired = e.desired
  /\ \A f \in Among(list) : \E e \in Among(U) : e.mod = f.mod /\ e.desired = f.desired
  /\ EntriesOf(U, v[1]) # {}

LEMMA UpsertEntries ==
  ASSUME NEW list \in Seq(Entry), NEW v \in Version
  PROVE  Recording(list, v, Upsert(list, v))
<1> DEFINE U == Upsert(list, v)
<1> DEFINE New(d) == [mod |-> v[1], desired |-> d, installed |-> v[2], files |-> Ships[v]]
<1>1. \A d : New(d).mod = v[1] /\ New(d).installed = v[2] /\ New(d).files = Ships[v] /\ New(d).desired = d
  OBVIOUS
<1>2. DOMAIN list = 1..Len(list) /\ Len(list) \in Nat
  OBVIOUS
<1> SUFFICES Recording(list, v, U)
  OBVIOUS
<1>3. CASE EntriesOf(list, v[1]) = {}
  <2>1. U = Append(list, New(Newest))
    BY <1>3 DEF Upsert
  <2>2. \A f \in Among(list) : f.mod # v[1]
    BY <1>3 DEF EntriesOf
  <2> HIDE DEF New, U
  <2>3. DOMAIN U = 1..(Len(list) + 1) /\ U[Len(list) + 1] = New(Newest)
        /\ \A i \in 1..Len(list) : U[i] = list[i]
    BY <1>2, <2>1
  <2>4. \A i \in DOMAIN U : U[i] = New(Newest) \/ (i \in DOMAIN list /\ U[i] = list[i])
    BY <1>2, <2>3
  <2>5. Among(list) \subseteq Among(U) /\ New(Newest) \in Among(U)
    BY <1>2, <2>3 DEF Among
  <2>6. \A e \in Among(U) : e = New(Newest) \/ e \in Among(list)
    BY <2>4 DEF Among
  <2>7. \A f \in Among(list) : \E e \in Among(U) : e.mod = f.mod /\ e.desired = f.desired
    BY <2>5
  <2>8. EntriesOf(U, v[1]) # {}
    BY <1>1, <2>5 DEF EntriesOf
  <2>9. \A e \in Among(U) :
          \/ e \in Among(list) /\ e.mod # v[1]
          \/ e.mod = v[1] /\ e.installed = v[2] /\ e.files = Ships[v] /\ e.desired = Newest
    BY <1>1, <2>2, <2>6
  <2> QED BY <1>3, <2>7, <2>8, <2>9 DEF Recording
<1>4. CASE EntriesOf(list, v[1]) # {}
  <2>1. U = [i \in DOMAIN list |-> IF list[i].mod = v[1] THEN New(list[i].desired) ELSE list[i]]
    BY <1>4 DEF Upsert
  <2> HIDE DEF New, U
  <2>2. DOMAIN U = DOMAIN list
    BY <2>1
  <2>3. \A i \in DOMAIN list : U[i] = IF list[i].mod = v[1] THEN New(list[i].desired) ELSE list[i]
    BY <2>1
  <2>4. \A f \in Among(list) : \E e \in Among(U) : e.mod = f.mod /\ e.desired = f.desired
    <3> SUFFICES ASSUME NEW i \in DOMAIN list
                 PROVE  U[i].mod = list[i].mod /\ U[i].desired = list[i].desired
      BY <2>2 DEF Among
    <3> QED BY <1>1, <2>3
  <2>5. EntriesOf(U, v[1]) # {}
    BY <1>4, <2>4 DEF EntriesOf
  <2>6. \A e \in Among(U) : \E f \in Among(list) :
          IF f.mod = v[1] THEN e = New(f.desired) ELSE e = f
    BY <2>2, <2>3 DEF Among
  <2>7. \A e \in Among(U) :
          \/ e \in Among(list) /\ e.mod # v[1]
          \/ /\ e.mod = v[1] /\ e.installed = v[2] /\ e.files = Ships[v]
             /\ \E f \in Among(list) : f.mod = v[1] /\ f.desired = e.desired
    <3> SUFFICES ASSUME NEW e \in Among(U)
                 PROVE  \/ e \in Among(list) /\ e.mod # v[1]
                        \/ /\ e.mod = v[1] /\ e.installed = v[2] /\ e.files = Ships[v]
                           /\ \E f \in Among(list) : f.mod = v[1] /\ f.desired = e.desired
      OBVIOUS
    <3>1. PICK f \in Among(list) : IF f.mod = v[1] THEN e = New(f.desired) ELSE e = f
      BY <2>6
    <3>2. CASE f.mod = v[1]
      BY <1>1, <3>1, <3>2
    <3>3. CASE f.mod # v[1]
      BY <3>1, <3>3
    <3> QED BY <3>2, <3>3
  <2> QED BY <2>4, <2>5, <2>7 DEF Recording
<1> HIDE DEF U
<1> QED BY <1>3, <1>4 DEF U

\* The same index and the same tracked packages ask for the same versions.
LEMMA SameRequests ==
  ASSUME published' = published, tracked' = tracked
  PROVE  /\ Roots(tracked)' = Roots(tracked)
         /\ Named(Roots(tracked))' = Named(Roots(tracked))
         /\ \A e : Settled(e)' <=> Settled(e)
         /\ AddsUp(tracked)' <=> AddsUp(tracked)
<1>1. Roots(tracked)' = Roots(tracked)
  BY SameIndex
<1>2. Reached(Roots(tracked))' = Reached(Roots(tracked))
  BY <1>1, SameIndex
<1>3. Among(Roots(tracked))' = Among(Roots(tracked)) /\ Among(tracked)' = Among(tracked)
  BY <1>1 DEF Among
<1>4. Named(Roots(tracked))' = Named(Roots(tracked))
  BY <1>2, <1>3 DEF Named
<1>5. \A e : Settled(e)' <=> Settled(e)
  BY <1>4 DEF Settled
<1>6. \A m : EntriesOf(tracked, m)' = EntriesOf(tracked, m)
  BY <1>3 DEF EntriesOf
<1>7. ASSUME NEW V, NEW D PROVE AddsUpFor(tracked, V, D)' <=> AddsUpFor(tracked, V, D)
  <2>1. PlanFor(V, D)' <=> PlanFor(V, D)
    BY SameIndex
  <2>2. \A e : (Found(e)' <=> Found(e)) /\ Wanted(e)' = Wanted(e)
    BY SameIndex
  <2> QED BY <1>2, <1>3, <1>6, <2>1, <2>2 DEF AddsUpFor
<1>8. Index' = Index
  BY SameIndex
<1>9. AddsUp(tracked)' <=> AddsUp(tracked)
  BY <1>7, <1>8 DEF AddsUp
<1> QED BY <1>1, <1>4, <1>5, <1>9

\* Resolving makes a plan of which everything is still to come.
LEMMA StartRound == IInv /\ RoundInv /\ StartSync => RoundInv'
<1> SUFFICES ASSUME IInv, RoundInv, StartSync PROVE RoundInv'
  OBVIOUS
<1>1. PICK D \in SUBSET Index : IsPlan(Roots(tracked), D) /\ depsLeft' = D
  BY DEF StartSync
<1>2. published' = published /\ tracked' = tracked /\ steady' = steady
      /\ rootsLeft' = Roots(tracked) /\ draft' = tracked
  BY DEF StartSync
<1>3. \A f \in Among(tracked) : Found(f)
  BY DEF StartSync
<1>4. PlanFor(Among(Roots(tracked)), D)
  BY <1>1 DEF IsPlan, PlanFor
<1>5. \A e \in Among(tracked) : \E v \in Among(Roots(tracked)) : v[1] = e.mod
  <2>1. \A i \in DOMAIN tracked : i \in DOMAIN Roots(tracked) /\ Roots(tracked)[i][1] = tracked[i].mod
    BY DEF Roots
  <2> QED BY <2>1 DEF Among
<1>6. /\ Roots(tracked)' = Roots(tracked) /\ \A e : Settled(e)' <=> Settled(e)
      /\ AddsUp(tracked)' <=> AddsUp(tracked)
  BY <1>2, SameRequests
<1>7. Among(tracked)' = Among(tracked) /\ Among(draft)' = Among(tracked)
      /\ Among(rootsLeft)' = Among(Roots(tracked)) /\ Among(Roots(tracked))' = Among(Roots(tracked))
  BY <1>2, <1>6 DEF Among
<1>8. steady' => AddsUp(tracked)' /\ \A e \in Among(tracked)' : Settled(e)'
  BY <1>2, <1>6, <1>7 DEF RoundInv
<1>9. \A f \in Among(tracked)' : Found(f)'
  BY <1>2, <1>3, <1>7, SameIndex
<1>10. Carries(D)'
  <2>1. PlanFor(Among(Roots(tracked)), D)'
    BY <1>2, <1>4, <1>7, SameIndex
  <2>2. \A e \in Among(tracked) : Settled(e) \/ (~ steady /\ \E v \in Among(Roots(tracked)) : v[1] = e.mod)
    BY <1>5 DEF RoundInv
  <2>3. \A e \in Among(draft)' : Settled(e)' \/ (~ steady' /\ \E v \in Among(rootsLeft)' : v[1] = e.mod)
    BY <1>2, <1>6, <1>7, <2>2
  <2> QED BY <1>1, <1>7, <2>1, <2>3 DEF Carries
<1>11. D \in SUBSET Index'
  BY <1>2, SameIndex
<1> QED BY <1>8, <1>9, <1>10, <1>11 DEF RoundInv, UnderWay

\* One package is installed as the plan has it.
LEMMA InstallRound == \A v \in Version : IInv /\ RoundInv /\ Install(v) => RoundInv'
<1> SUFFICES ASSUME NEW v \in Version, IInv, RoundInv, Install(v) PROVE RoundInv'
  OBVIOUS
<1>1. /\ published' = published /\ tracked' = tracked /\ steady' = steady
      /\ phase = "sync" /\ phase' = "sync" /\ draft' = Upsert(draft, v)
  BY DEF Install, IsNext
<1>2. PICK D \in SUBSET Index : Carries(D)
  BY <1>1 DEF RoundInv, UnderWay
<1>3. draft \in Seq(Entry) /\ rootsLeft \in Seq(Version)
  BY DEF IInv, TypeOK
<1>4. /\ Roots(tracked)' = Roots(tracked) /\ \A e : Settled(e)' <=> Settled(e)
      /\ AddsUp(tracked)' <=> AddsUp(tracked)
  BY <1>1, SameRequests
<1>5. Among(tracked)' = Among(tracked) /\ Among(Roots(tracked))' = Among(Roots(tracked))
  BY <1>1, <1>4 DEF Among
\* Either v was the next root, or the roots are done.
<1>6. \/ /\ v \in Among(rootsLeft) /\ depsLeft' = depsLeft
         /\ Among(rootsLeft') \subseteq Among(rootsLeft)
         /\ Among(rootsLeft) \subseteq Among(rootsLeft') \cup {v}
      \/ /\ v \in depsLeft /\ depsLeft' = depsLeft \ {v}
         /\ rootsLeft' = rootsLeft /\ Among(rootsLeft) = {}
  <2>1. CASE rootsLeft # <<>>
    <3>1. v = Head(rootsLeft) /\ rootsLeft' = Tail(rootsLeft) /\ depsLeft' = depsLeft
      BY <2>1 DEF Install, IsNext, NextDone
    <3>2. v = rootsLeft[1] /\ 1 \in DOMAIN rootsLeft
      BY <1>3, <2>1, <3>1
    <3>3. DOMAIN rootsLeft = 1..Len(rootsLeft) /\ Len(rootsLeft) \in Nat /\ Len(rootsLeft) > 0
      BY <1>3, <2>1
    <3>4. DOMAIN rootsLeft' = 1..(Len(rootsLeft) - 1)
          /\ \A i \in 1..(Len(rootsLeft) - 1) : rootsLeft'[i] = rootsLeft[i + 1]
      BY <1>3, <2>1, <3>1
    <3>5. \A i \in DOMAIN rootsLeft : i = 1 \/ (i - 1 \in DOMAIN rootsLeft' /\ rootsLeft'[i - 1] = rootsLeft[i])
      BY <3>3, <3>4
    <3>6. \A i \in DOMAIN rootsLeft' : i + 1 \in DOMAIN rootsLeft
      BY <3>3, <3>4
    <3>7. v \in Among(rootsLeft)
      BY <3>2 DEF Among
    <3>8. Among(rootsLeft') \subseteq Among(rootsLeft)
      BY <3>4, <3>6 DEF Among
    <3>9. Among(rootsLeft) \subseteq Among(rootsLeft') \cup {v}
      BY <3>2, <3>5 DEF Among
    <3> QED BY <3>1, <3>7, <3>8, <3>9
  <2>2. CASE rootsLeft = <<>>
    <3>1. Among(rootsLeft) = {}
      BY <2>2 DEF Among
    <3> QED BY <2>2, <3>1 DEF Install, IsNext, NextDone
  <2> QED BY <2>1, <2>2
<1>7. Recording(draft, v, draft')
  BY <1>1, <1>3, UpsertEntries
<1>8. v \in Among(Roots(tracked)) \cup D
  BY <1>2, <1>6 DEF Carries
<1>9. \A e \in Among(draft') : e.mod = v[1] /\ e.installed = v[2] /\ e.files = Ships[v] => Settled(e)
  <2>1. D \subseteq Reached(Roots(tracked))
    BY <1>2, PlanIsReached DEF Carries, Index
  <2>2. v[2] # NotYet /\ v = <<v[1], v[2]>>
    BY VersionParts, RoundsAssumption DEF NotYet
  <2> QED BY <1>8, <2>1, <2>2 DEF Settled, Named
<1>10. ASSUME NEW e \in Among(draft')
       PROVE  \/ \E f \in Among(tracked) : f.mod = e.mod /\ f.desired = e.desired
              \/ e.desired = Newest /\ \E d \in D : d[1] = e.mod
  <2>1. CASE \E f \in Among(draft) : f.mod = e.mod /\ f.desired = e.desired
    BY <1>2, <2>1 DEF Carries
  <2>2. CASE e.mod = v[1] /\ EntriesOf(draft, v[1]) = {} /\ e.desired = Newest
    <3>1. v \notin Among(Roots(tracked))
      <4> SUFFICES ASSUME v \in Among(Roots(tracked)) PROVE FALSE
        OBVIOUS
      <4>1. PICK f \in Among(tracked) : f.mod = v[1]
        BY DEF Among, Roots
      <4>2. EntriesOf(draft, v[1]) # {}
        BY <1>2, <4>1 DEF Carries, EntriesOf
      <4> QED BY <2>2, <4>2
    <3> QED BY <1>8, <2>2, <3>1
  <2> QED BY <1>7, <2>1, <2>2 DEF Recording
<1>11. \A f \in Among(tracked) : \E e \in Among(draft') : e.mod = f.mod /\ e.desired = f.desired
  BY <1>2, <1>7 DEF Carries, Recording
<1>12. \A d \in D \ depsLeft' : EntriesOf(draft', d[1]) # {}
  <2> SUFFICES ASSUME NEW d \in D, d \notin depsLeft' PROVE EntriesOf(draft', d[1]) # {}
    OBVIOUS
  <2>1. d = v \/ d \notin depsLeft
    BY <1>6
  <2>2. d \notin depsLeft => EntriesOf(draft, d[1]) # {}
    BY <1>2 DEF Carries
  <2>3. EntriesOf(draft, d[1]) # {} => EntriesOf(draft', d[1]) # {}
    BY <1>7 DEF EntriesOf, Recording
  <2> QED BY <1>7, <2>1, <2>2, <2>3 DEF Recording
<1>13. ASSUME NEW e \in Among(draft')
       PROVE  Settled(e) \/ (~ steady /\ \E u \in Among(rootsLeft') : u[1] = e.mod)
  <2>1. CASE e.mod = v[1]
    BY <1>7, <1>9, <2>1 DEF Recording
  <2>2. CASE e \in Among(draft) /\ e.mod # v[1]
    <3>1. Settled(e) \/ (~ steady /\ \E u \in Among(rootsLeft) : u[1] = e.mod)
      BY <1>2, <2>2 DEF Carries
    <3>2. ASSUME NEW u \in Among(rootsLeft), u[1] = e.mod PROVE u \in Among(rootsLeft')
      BY <1>6, <2>2, <3>2
    <3> QED BY <3>1, <3>2
  <2> QED BY <1>7, <2>1, <2>2 DEF Recording
<1>14. Carries(D)'
  <2>1. PlanFor(Among(Roots(tracked)), D)'
    BY <1>1, <1>2, <1>5, SameIndex DEF Carries
  <2>2. depsLeft' \subseteq D /\ Among(rootsLeft') \subseteq Among(Roots(tracked))
    BY <1>2, <1>6 DEF Carries
  <2>3. Among(draft)' = Among(draft') /\ Among(rootsLeft)' = Among(rootsLeft')
        /\ \A m : EntriesOf(draft, m)' = EntriesOf(draft', m)
    BY DEF Among, EntriesOf
  <2>4. \A e \in Among(draft') : Settled(e)' \/ (~ steady' /\ \E u \in Among(rootsLeft') : u[1] = e.mod)
    BY <1>1, <1>4, <1>13
  <2> QED BY <1>5, <1>10, <1>11, <1>12, <2>1, <2>2, <2>3, <2>4 DEF Carries
<1>15. steady' => AddsUp(tracked)' /\ \A e \in Among(tracked)' : Settled(e)'
  BY <1>1, <1>4, <1>5 DEF RoundInv
<1>16. UnderWay'
  <2>1. \A f \in Among(tracked)' : Found(f)'
    BY <1>1, <1>5, SameIndex DEF RoundInv, UnderWay
  <2>2. D \in SUBSET Index'
    BY <1>1, SameIndex
  <2> QED BY <1>14, <2>1, <2>2 DEF UnderWay
<1> QED BY <1>15, <1>16 DEF RoundInv

\* A sync that goes well adds up to what it tracks from now on.
LEMMA SaveRound == IInv /\ RoundInv /\ Save => RoundInv'
<1> SUFFICES ASSUME IInv, RoundInv, Save PROVE RoundInv'
  OBVIOUS
<1>1. published' = published /\ tracked' = draft /\ phase' = "rest"
      /\ phase = "sync" /\ rootsLeft = <<>> /\ depsLeft = {}
  BY DEF Save, AllDone, Return
<1>2. PICK D \in SUBSET Index : Carries(D)
  BY <1>1 DEF RoundInv, UnderWay
<1>12. PICK V : V = Among(Roots(tracked))
  OBVIOUS
<1>3. Roots(tracked)' = Roots(draft)
  <2>1. \A list : Roots(list)' = Roots(list)
    BY <1>1, SameIndex
  <2>2. PICK list : list = draft
    OBVIOUS
  <2>3. tracked' = list
    BY <1>1, <2>2
  <2>4. Roots(tracked)' = Roots(list)'
    BY <2>3, Zenon
  <2> QED BY <2>1, <2>2, <2>4
<1>4. Among(tracked)' = Among(draft) /\ \A m : EntriesOf(tracked, m)' = EntriesOf(draft, m)
  BY <1>1 DEF Among, EntriesOf
<1>5. \A f \in Among(tracked) : Found(f) /\ <<f.mod, Wanted(f)>> \in V
  <2>1. \A f \in Among(tracked) : Found(f)
    BY <1>1 DEF RoundInv, UnderWay
  <2>2. \A i \in DOMAIN tracked :
          i \in DOMAIN Roots(tracked) /\ Roots(tracked)[i] = <<tracked[i].mod, Wanted(tracked[i])>>
    BY DEF Roots
  <2> QED BY <1>12, <2>1, <2>2 DEF Among
<1>6. \A e, f : e.mod = f.mod /\ e.desired = f.desired => (Found(e) <=> Found(f)) /\ Wanted(e) = Wanted(f)
  BY DEF Found, Wanted, LatestFails
<1>7. V \subseteq Among(Roots(draft))
  <2> SUFFICES ASSUME NEW i \in DOMAIN tracked
               PROVE  <<tracked[i].mod, Wanted(tracked[i])>> \in Among(Roots(draft))
    BY <1>12 DEF Among, Roots
  <2>1. tracked[i] \in Among(tracked)
    BY DEF Among
  <2>2. PICK e \in Among(draft) : e.mod = tracked[i].mod /\ e.desired = tracked[i].desired
    BY <1>2, <2>1 DEF Carries
  <2>3. PICK j \in DOMAIN draft : draft[j] = e
    BY <2>2 DEF Among
  <2>4. j \in DOMAIN Roots(draft) /\ Roots(draft)[j] = <<draft[j].mod, Wanted(draft[j])>>
    BY <2>3 DEF Roots
  <2> QED BY <1>6, <2>2, <2>3, <2>4 DEF Among
<1>8. Named(Roots(tracked)) \subseteq Named(Roots(draft))
  BY <1>7, <1>12, ReachGrows DEF Named
<1>9. ASSUME NEW e \in Among(draft) PROVE Settled(e)'
  <2>1. Among(rootsLeft) = {}
    BY <1>1 DEF Among
  <2>2. Settled(e)
    BY <1>2, <2>1 DEF Carries
  <2>3. Named(Roots(tracked))' = Named(Roots(draft))
    <3>1. Among(Roots(tracked))' = Among(Roots(draft))
      BY <1>3 DEF Among
    <3>2. Reached(Roots(tracked))' = Reached(Roots(draft))
      BY <1>1, <1>3, SameIndex
    <3> QED BY <3>1, <3>2 DEF Named
  <2> QED BY <1>8, <2>2, <2>3 DEF Settled
<1>10. AddsUp(tracked)'
  <2>1. V \subseteq Version
    <3>1. Roots(tracked) \in Seq(Version)
      BY <1>5, RootsLemma DEF IInv
    <3> QED BY <1>12, <3>1 DEF Among
  <2>2. PlanFor(V, D)' /\ D \subseteq Reached(Roots(tracked))'
    <3>1. D \subseteq Reached(Roots(tracked))
      BY <1>2, PlanIsReached DEF Carries, Index
    <3>2. Reached(Roots(tracked))' = Reached(Roots(draft))
      BY <1>1, <1>3, SameIndex
    <3>3. Reached(Roots(tracked)) \subseteq Reached(Roots(draft))
      BY <1>7, <1>12, ReachGrows
    <3> QED BY <1>1, <1>2, <1>12, <3>1, <3>2, <3>3, SameIndex DEF Carries
  <2>3. V \subseteq Among(Roots(tracked))'
    BY <1>3, <1>7 DEF Among
  <2>4. ASSUME NEW e \in Among(draft)
        PROVE  \/ Found(e)' /\ <<e.mod, Wanted(e)'>> \in V
               \/ e.desired = Newest /\ \E d \in D : d[1] = e.mod
    <3>1. CASE \E f \in Among(tracked) : f.mod = e.mod /\ f.desired = e.desired
      <4>1. Found(e) /\ <<e.mod, Wanted(e)>> \in V
        BY <1>5, <1>6, <3>1
      <4> QED BY <1>1, <4>1, SameIndex
    <3> QED BY <1>2, <3>1 DEF Carries
  <2>5. \A d \in D : EntriesOf(draft, d[1]) # {}
    BY <1>1, <1>2 DEF Carries
  <2>6. AddsUpFor(tracked, V, D)'
    BY <1>4, <2>2, <2>3, <2>4, <2>5 DEF AddsUpFor
  <2>7. D \in SUBSET Index'
    BY <1>1, SameIndex
  <2> QED BY <2>1, <2>6, <2>7 DEF AddsUp, Version
<1> QED BY <1>1, <1>4, <1>9, <1>10 DEF RoundInv

LEMMA RoundStep == IInv /\ RoundInv /\ [Next]_vars => RoundInv'
<1> SUFFICES ASSUME IInv, RoundInv, [Next]_vars PROVE RoundInv'
  OBVIOUS
<1>1. CASE UNCHANGED vars
  <2>1. published' = published /\ tracked' = tracked /\ steady' = steady /\ phase' = phase
        /\ draft' = draft /\ rootsLeft' = rootsLeft /\ depsLeft' = depsLeft
    BY <1>1 DEF vars, syncVars
  <2>2. /\ Roots(tracked)' = Roots(tracked) /\ \A e : Settled(e)' <=> Settled(e)
        /\ AddsUp(tracked)' <=> AddsUp(tracked)
    BY <2>1, SameRequests
  <2>3. /\ Among(tracked)' = Among(tracked) /\ Among(Roots(tracked))' = Among(Roots(tracked))
        /\ Among(draft)' = Among(draft) /\ Among(rootsLeft)' = Among(rootsLeft)
        /\ \A m : EntriesOf(draft, m)' = EntriesOf(draft, m)
    BY <2>1, <2>2 DEF Among, EntriesOf
  <2>4. \A V, D : PlanFor(V, D)' <=> PlanFor(V, D)
    BY <2>1, SameIndex
  <2>5. ASSUME NEW D PROVE Carries(D) => Carries(D)'
    <3>1. PlanFor(Among(Roots(tracked)), D) => PlanFor(Among(Roots(tracked)), D)'
      BY <2>3, <2>4
    <3> QED BY <2>1, <2>2, <2>3, <3>1 DEF Carries
  <2>6. UnderWay => UnderWay'
    BY <2>1, <2>3, <2>5, SameIndex DEF UnderWay
  <2> QED BY <2>1, <2>2, <2>3, <2>6 DEF RoundInv
<1>2. ASSUME phase' = "rest", steady' = FALSE PROVE RoundInv'
  BY <1>2 DEF RoundInv
<1>3. ASSUME NEW m \in Mod, Publish(m) \/ Untrack(m) \/ \E d \in 0..Releases : Track(m, d) PROVE RoundInv'
  <2>1. phase' = "rest" /\ steady' = FALSE
    BY <1>3 DEF Publish, Untrack, Track, syncVars
  <2> QED BY <1>2, <2>1
<1>4. CASE StartSync
  BY <1>4, StartRound
<1>5. CASE Save
  BY <1>5, SaveRound
<1>6. ASSUME NEW files, Abandon(files) PROVE RoundInv'
  BY <1>2, <1>6 DEF Abandon, Return
<1>7. CASE SaveFails
  BY <1>6, <1>7 DEF SaveFails
<1>8. ASSUME NEW v \in Version, Install(v) PROVE RoundInv'
  BY <1>8, InstallRound
<1>9. ASSUME NEW v \in Version, Fail(v) PROVE RoundInv'
  BY <1>6, <1>9 DEF Fail
<1> QED BY <1>1, <1>3, <1>4, <1>5, <1>7, <1>8, <1>9 DEF Next

LEMMA RoundsAddUp == Spec => [](IInv /\ RoundInv)
<1>1. Init => RoundInv
  BY DEF Init, RoundInv
<1> QED BY <1>1, InitIsRight, StepIsRight, RoundStep, PTL DEF Spec

\* Two versions of one package that are both asked for make it contested.
LEMMA ContestedIff ==
  ASSUME NEW R, NEW u \in Named(R), NEW w \in Named(R), u[1] = w[1], u # w
  PROVE  u[1] \in Contested(R)
BY DEF Contested, Named

\* After a sync that went well, and until something changes, an update is
\* listed only for a package that is needed at two versions.
THEOREM OnlyContestedUpdates == Spec => []UpdatesExplained
<1>1. IInv /\ RoundInv => UpdatesExplained
  <2> SUFFICES ASSUME IInv, RoundInv, steady,
                      NEW e \in Among(tracked), Comparable(e), Wanted(e) > e.installed
               PROVE  e.mod \in Contested(Roots(tracked))
    BY DEF UpdatesExplained, Updates
  <2>1. <<e.mod, e.installed>> \in Named(Roots(tracked))
    BY DEF RoundInv, Settled
  <2>2. <<e.mod, Wanted(e)>> \in Named(Roots(tracked))
    <3>1. PICK i \in DOMAIN tracked : tracked[i] = e
      BY DEF Among
    <3>2. i \in DOMAIN Roots(tracked) /\ Roots(tracked)[i] = <<e.mod, Wanted(e)>>
      BY <3>1 DEF Roots
    <3> QED BY <3>2 DEF Named, Among
  <2>3. Wanted(e) # e.installed
    <3>1. e \in Entry
      BY DEF IInv, TypeOK, Among
    <3>2. e.installed \in 0..Releases
      BY <3>1 DEF Entry
    <3> QED BY <3>2, RoundsAssumption
  <2> QED BY <2>1, <2>2, <2>3, ContestedIff
<1> QED BY <1>1, RoundsAddUp, PTL

\* A sync repeated as the last one left things resolves again, unless a
\* dependency that is tracked since is required at another version than its
\* latest.
THEOREM ResolvesUnlessNewest == Spec => []ResolvesAgain
<1>1. IInv /\ RoundInv => ResolvesAgain
  <2> SUFFICES ASSUME IInv, RoundInv, steady,
                      \A e \in Among(tracked), v \in Reached(Roots(tracked)) :
                        e.desired = Newest /\ v[1] = e.mod => Found(e) /\ v[2] = Wanted(e)
               PROVE  ~ Unresolvable
    BY DEF ResolvesAgain
  <2>1. PICK V \in SUBSET Version, D \in SUBSET Index : AddsUpFor(tracked, V, D)
    BY DEF RoundInv, AddsUp
  <2>2. ASSUME NEW e \in Among(tracked) PROVE Found(e) /\ <<e.mod, Wanted(e)>> \in V \cup D
    <3>1. CASE Found(e) /\ <<e.mod, Wanted(e)>> \in V
      BY <3>1
    <3>2. CASE e.desired = Newest /\ \E d \in D : d[1] = e.mod
      <4>1. PICK d \in D : d[1] = e.mod
        BY <3>2
      <4>2. d \in Reached(Roots(tracked))
        BY <2>1 DEF AddsUpFor
      <4>3. Found(e) /\ d[2] = Wanted(e)
        BY <3>2, <4>1, <4>2
      <4>4. d = <<d[1], d[2]>>
        BY VersionParts DEF Index
      <4> QED BY <4>1, <4>3, <4>4
    <3> QED BY <2>1, <3>1, <3>2 DEF AddsUpFor
  <2>3. Among(Roots(tracked)) \subseteq V \cup D /\ V \subseteq Among(Roots(tracked))
    <3>1. \A i \in DOMAIN tracked : tracked[i] \in Among(tracked)
      BY DEF Among
    <3>2. \A i \in DOMAIN Roots(tracked) :
            i \in DOMAIN tracked /\ Roots(tracked)[i] = <<tracked[i].mod, Wanted(tracked[i])>>
      BY DEF Roots
    <3>3. \A i \in DOMAIN Roots(tracked) : Roots(tracked)[i] \in V \cup D
      BY <2>2, <3>1, <3>2
    <3> QED BY <2>1, <3>3 DEF AddsUpFor, Among
  <2>4. IsPlan(Roots(tracked), D)
    <3>1. Among(Roots(tracked)) \cup D = V \cup D
      BY <2>3
    <3>2. ASSUME NEW S \in SUBSET D, D \cap Needs(Among(Roots(tracked)) \cup S) \subseteq S
          PROVE  S = D
      <4>1. Needs(V \cup S) \subseteq Needs(Among(Roots(tracked)) \cup S)
        BY <2>3, NeedsGrow
      <4> QED BY <2>1, <3>2, <4>1 DEF AddsUpFor, PlanFor
    <3> QED BY <2>1, <3>1, <3>2 DEF AddsUpFor, PlanFor, IsPlan
  <2> QED BY <2>2, <2>4 DEF Unresolvable
<1> QED BY <1>1, RoundsAddUp, PTL

\* A sync repeated as the last one left things is refused only over a package
\* that is needed at two versions, or over a new one that comes with such a
\* package.
THEOREM RefusedWithReason == Spec => []RefusedOverContested
<1>1. IInv /\ RoundInv => RefusedOverContested
  <2> SUFFICES ASSUME IInv, RoundInv, steady, NEW v \in Version, IsNext(v), Blocked(v) # {},
                      v[1] \notin Contested(Roots(tracked))
               PROVE  EntriesOf(tracked, v[1]) = {} /\ Contested(Roots(tracked)) # {}
    BY DEF RefusedOverContested
  <2> DEFINE N == Named(Roots(tracked))
  <2>1. PICK P \in SUBSET Index : Carries(P)
    BY DEF RoundInv, UnderWay, IsNext
  <2>2. P \subseteq Reached(Roots(tracked))
    BY <2>1, PlanIsReached DEF Carries, Index
  <2>3. v \in Among(Roots(tracked)) \cup P /\ v \in N
    <3>1. v \in Among(rootsLeft) \cup depsLeft
      <4>1. CASE rootsLeft # <<>>
        <5>1. rootsLeft \in Seq(Version)
          BY DEF IInv, TypeOK
        <5>2. v = rootsLeft[1] /\ 1 \in DOMAIN rootsLeft
          BY <4>1, <5>1 DEF IsNext
        <5> QED BY <5>2 DEF Among
      <4>2. CASE rootsLeft = <<>>
        BY <4>2 DEF IsNext
      <4> QED BY <4>1, <4>2
    <3> QED BY <2>1, <2>2, <3>1 DEF Carries, Named
  <2>4. \A u \in N : u[1] = v[1] => u = v
    BY <2>3, ContestedIff
  <2>5. EntriesOf(tracked, v[1]) = {}
    <3> SUFFICES ASSUME NEW f \in Among(tracked), f.mod = v[1] PROVE FALSE
      BY DEF EntriesOf
    <3>1. PICK e \in Among(draft) : e.mod = v[1]
      BY <2>1 DEF Carries
    <3>2. Settled(e)
      BY <2>1 DEF Carries
    <3>3. <<e.mod, e.installed>> \in N
      BY <3>2 DEF Settled
    <3>4. <<e.mod, e.installed>>[1] = v[1]
      BY <3>1
    <3>5. <<e.mod, e.installed>> = v
      BY <2>4, <3>3, <3>4
    <3>6. e.files = Ships[v]
      BY <3>2, <3>5 DEF Settled
    <3>7. Ships[v] \subseteq Own(v)
      BY <3>1, <3>6 DEF Own, EntriesOf
    <3> QED BY <3>7 DEF Blocked
  <2>6. Contested(Roots(tracked)) # {}
    <3> SUFFICES ASSUME Contested(Roots(tracked)) = {} PROVE FALSE
      OBVIOUS
    <3>1. \A u, w \in N : u[1] = w[1] => u = w
      BY ContestedIff
    <3>2. PICK V \in SUBSET Version, D \in SUBSET Index : AddsUpFor(tracked, V, D)
      BY DEF RoundInv, AddsUp
    <3>3. D \subseteq N /\ V \subseteq Among(Roots(tracked)) /\ D \subseteq Version
      BY <3>2 DEF AddsUpFor, Named, Index
    <3>4. Among(Roots(tracked)) \subseteq V \cup D
      <4> SUFFICES ASSUME NEW i \in DOMAIN tracked, <<tracked[i].mod, Wanted(tracked[i])>> \notin V
                   PROVE  <<tracked[i].mod, Wanted(tracked[i])>> \in D
        BY DEF Among, Roots
      <4>1. tracked[i] \in Among(tracked)
        BY DEF Among
      <4>2. PICK d \in D : d[1] = tracked[i].mod
        BY <3>2, <4>1 DEF AddsUpFor
      <4>3. <<tracked[i].mod, Wanted(tracked[i])>> \in N
        BY DEF Named, Among, Roots
      <4>4. d = <<tracked[i].mod, Wanted(tracked[i])>>
        BY <3>1, <3>3, <4>2, <4>3
      <4> QED BY <4>4
    <3>5. Needs(V \cup D) \subseteq D
      <4> SUFFICES ASSUME NEW r \in Needs(V \cup D) PROVE r \in D
        OBVIOUS
      <4>1. PICK d \in D : d[1] = r[1]
        BY <3>2 DEF AddsUpFor, PlanFor
      <4>2. V \cup D \subseteq N
        BY <3>3 DEF Named
      <4>3. r \in Needs(N)
        BY <4>2, NeedsGrow
      <4>4. r \in N
        BY <4>3, ReachIsClosed DEF Named
      <4> QED BY <3>1, <3>3, <4>1, <4>4
    <3>6. Needs(Among(Roots(tracked)) \cup D) \subseteq D
      <4>1. Among(Roots(tracked)) \cup D = V \cup D
        BY <3>3, <3>4
      <4> QED BY <3>5, <4>1
    <3>7. Reached(Roots(tracked)) \subseteq D
      BY <3>3, <3>6 DEF Reached
    <3>8. v \in D
      <4>1. \A i \in DOMAIN Roots(tracked) :
              i \in DOMAIN tracked /\ Roots(tracked)[i][1] = tracked[i].mod
        BY DEF Roots
      <4>2. v \notin Among(Roots(tracked))
        BY <2>5, <4>1 DEF EntriesOf, Among
      <4> QED BY <2>2, <2>3, <3>7, <4>2
    <3> QED BY <2>5, <3>2, <3>8 DEF AddsUpFor
  <2> QED BY <2>5, <2>6
<1> QED BY <1>1, RoundsAddUp, PTL
===============================================================================
