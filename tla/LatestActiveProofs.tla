-------------------------- MODULE LatestActiveProofs --------------------------
(***************************************************************************)
(* LatestActive returns the newest active version of every package.        *)
(***************************************************************************)
EXTENDS LatestActive, TLAPS

\* Numbers that parse are strictly and totally ordered: the order of
\* CompareVersions is irreflexive, asymmetric and transitive, and two numbers
\* neither of which is newer are the same.
THEOREM NewerIsStrictOrder ==
  ASSUME NEW m \in Number, NEW n \in Number, NEW o \in Number,
         Parses(m), Parses(n), Parses(o)
  PROVE  /\ ~ Newer(m, m)
         /\ Newer(m, n) => ~ Newer(n, m)
         /\ Newer(m, n) /\ Newer(n, o) => Newer(m, o)
         /\ ~ Newer(m, n) /\ ~ Newer(n, m) => m = n
PROOF
  <1>1. /\ ~ Newer(m, m)
        /\ Newer(m, n) => ~ Newer(n, m)
        /\ Newer(m, n) /\ Newer(n, o) => Newer(m, o)
    BY DEF Parses, Newer
  <1>2. ASSUME ~ Newer(m, n), ~ Newer(n, m) PROVE m = n
    <2>1. m[1] = n[1] /\ m[2] = n[2] /\ m[3] = n[3]
      BY <1>2 DEF Parses, Newer
    <2>2. m \in Seq(Nat \cup {Malformed}) /\ n \in Seq(Nat \cup {Malformed})
      BY DEF Number
    <2>3. Len(m) = 3 /\ Len(n) = 3
      BY DEF Parses
    <2>4. \A i \in 1..3 : m[i] = n[i]
      BY <2>1
    <2> QED BY <2>2, <2>3, <2>4
  <1> QED BY <1>1, <1>2

\* Every version of a package has a number.
LEMMA ListedNumbers ==
  ASSUME NEW vs \in Listing, NEW j \in DOMAIN vs
  PROVE  vs[j].number \in Number
PROOF
  <1>1. vs[j] \in Release
    BY DEF Listing
  <1> QED BY <1>1 DEF Release

\* What beats the best so far beats everything the best was not beaten by.
LEMMA NewBest ==
  ASSUME NEW m \in Number, NEW n \in Number, NEW o \in Number,
         Parses(m), Parses(n), Parses(o), ~ Newer(n, m), Newer(o, m)
  PROVE  Newer(o, n) /\ ~ Newer(n, o)
PROOF BY DEF Parses, Newer

Seen == {j \in Active(versions) : j < next}

\* After each pass, latest is the answer for the versions seen so far.
ScanInv ==
  /\ versions \in Listing
  /\ next \in 1..(Len(versions) + 1)
  /\ latest \in {0} \cup DOMAIN versions
  /\ result \in {"scanning", "found", "none", "error"}
  /\ latest = 0 => Seen = {}
  /\ latest # 0 =>
       /\ latest \in Seen
       /\ \A j \in Seen \ {latest} :
            /\ Parses(versions[j].number) /\ Parses(versions[latest].number)
            /\ ~ Newer(versions[j].number, versions[latest].number)
            /\ j < latest => Newer(versions[latest].number, versions[j].number)
  /\ result = "found" => next > Len(versions) /\ latest # 0
  /\ result = "none"  => next > Len(versions) /\ latest = 0
  /\ result = "error" => LatestFails(versions)

LEMMA ScanInvInit == Init => ScanInv
PROOF
  <1> SUFFICES ASSUME Init PROVE ScanInv
    OBVIOUS
  <1>1. versions \in Listing
    BY ListingsAssumption DEF Init
  <1>2. Len(versions) \in Nat /\ DOMAIN versions = 1..Len(versions)
    BY <1>1 DEF Listing
  <1>3. Seen = {}
    BY <1>2 DEF Init, Seen, Active
  <1> QED BY <1>1, <1>2, <1>3 DEF Init, ScanInv

LEMMA ScanInvInductive ==
  ASSUME ScanInv, [Next]_vars
  PROVE  ScanInv'
PROOF
  <1> USE DEF ScanInv
  <1>1. CASE Inactive
    BY <1>1 DEF Inactive, Scanning, Here, Advance, Seen, Active, Listing
  <1>2. CASE First
    BY <1>2 DEF First, Scanning, Here, Advance, Seen, Active, Listing
  <1>3. CASE CannotCompare
    <2>1. next \in Active(versions) /\ latest \in Active(versions) /\ next # latest
      BY <1>3 DEF CannotCompare, Scanning, Here, Seen, Active, Listing
    <2>2. LatestFails(versions)
      BY <1>3, <2>1 DEF CannotCompare, Here, Best, LatestFails
    <2> QED
      BY <1>3, <2>2 DEF CannotCompare, Seen
  <1>4. CASE Compare
    <2> DEFINE N(j) == versions[j].number
    <2>1. next \in DOMAIN versions /\ next \in Active(versions) /\ latest \in Seen
      BY <1>4 DEF Compare, Scanning, Here, Active, Listing
    <2>2. \A j \in DOMAIN versions : N(j) \in Number
      BY ListedNumbers
    <2>3. Parses(N(next)) /\ Parses(N(latest))
      BY <1>4 DEF Compare, Here, Best
    <2>4. Seen' = Seen \cup {next}
      BY <1>4, <2>1 DEF Compare, Advance, Seen, Active, Listing
    <2>5. \A j \in Seen : j \in DOMAIN versions /\ j < next /\ Parses(N(j))
      BY <2>3 DEF Seen, Active
    <2>6. UNCHANGED <<versions, result>> /\ next' = next + 1
      BY <1>4 DEF Compare, Advance
    <2>7. CASE Newer(N(next), N(latest))
      <3>1. latest' = next
        BY <1>4, <2>7 DEF Compare, Here, Best
      <3>2. \A j \in Seen : Newer(N(next), N(j)) /\ ~ Newer(N(j), N(next))
        <4> SUFFICES ASSUME NEW j \in Seen PROVE Newer(N(next), N(j)) /\ ~ Newer(N(j), N(next))
          OBVIOUS
        <4>1. ~ Newer(N(j), N(latest))
          BY <2>1, <2>2, <2>3, <2>5, <2>7, NewerIsStrictOrder
        <4> HIDE DEF N
        <4> QED BY <2>1, <2>2, <2>3, <2>5, <2>7, <4>1, NewBest
      <3> QED
        BY <1>4, <2>1, <2>3, <2>4, <2>5, <2>6, <3>1, <3>2 DEF Compare, Scanning, Listing
    <2>8. CASE ~ Newer(N(next), N(latest))
      <3>1. latest' = latest
        BY <1>4, <2>8 DEF Compare, Here, Best
      <3> QED
        BY <1>4, <2>1, <2>3, <2>4, <2>5, <2>6, <2>8, <3>1 DEF Compare, Scanning, Listing
    <2> QED BY <2>7, <2>8
  <1>5. CASE Return
    BY <1>5 DEF Return, Seen, Listing
  <1>6. CASE UNCHANGED vars
    BY <1>6 DEF vars, Seen
  <1> QED BY <1>1, <1>2, <1>3, <1>4, <1>5, <1>6 DEF Next

\* LatestActive answers with the newest active version, with an error exactly
\* when it had to compare a number that does not parse, or with nothing when no
\* version is active, for every package.
THEOREM LatestActiveIsRight == Spec => []AnswerIsRight
PROOF
  <1>1. ScanInv => AnswerIsRight
    <2> SUFFICES ASSUME ScanInv PROVE AnswerIsRight
      OBVIOUS
    <2>1. next > Len(versions) => Seen = Active(versions)
      BY DEF ScanInv, Seen, Active, Listing
    <2>2. ASSUME result = "found" PROVE IsLatest(versions, latest) /\ ~ LatestFails(versions)
      BY <2>1, <2>2 DEF ScanInv, IsLatest, LatestFails
    <2>3. ASSUME result = "none" PROVE Active(versions) = {}
      BY <2>1, <2>3 DEF ScanInv
    <2> QED BY <2>2, <2>3 DEF AnswerIsRight, ScanInv
  <1> QED BY <1>1, ScanInvInit, ScanInvInductive, PTL DEF Spec
===============================================================================
