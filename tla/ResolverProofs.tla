---------------------------- MODULE ResolverProofs ----------------------------
(***************************************************************************)
(* What Resolve returns, for every index, every list of roots and every    *)
(* graph of dependencies, cyclic ones included.                            *)
(***************************************************************************)
EXTENDS Resolver, SequenceTheorems, WellFoundedInduction, TLAPS

\* Every set of numbers has a least one: induction over versions in this form.
LEMMA LeastNumber ==
  ASSUME NEW T \in SUBSET Nat, T # {}
  PROVE  \E n \in T : \A m \in T : n <= m
PROOF
  <1>1. IsWellFoundedOn(OpToRel(<, Nat), Nat)
    BY NatLessThanWellFounded, Zenon
  <1>2. PICK n \in T : \A m \in T : <<m, n>> \notin OpToRel(<, Nat)
    BY <1>1, WFMin, Zenon
  <1>3. \A m \in T : ~ (m < n)
    BY <1>2 DEF OpToRel
  <1> QED BY <1>3

\* A version that is newer than the best so far beats what the best has beaten.
LEMMA NewBest ==
  ASSUME NEW m \in Number, NEW n \in Number, NEW o \in Number,
         Parses(m), Parses(n), Parses(o), ~ Newer(n, m), Newer(o, m)
  PROVE  Newer(o, n) /\ ~ Newer(n, o) /\ ~ Newer(m, o)
PROOF BY DEF Parses, Newer

\* LatestActive prefers version i to version l.
Beats(vs, i, l) ==
  ~ Newer(vs[l].number, vs[i].number) /\ (l < i => Newer(vs[i].number, vs[l].number))

\* Version i is what LatestActive prefers among those listed up to m.
Best(vs, i, m) ==
  i \in Active(vs) /\ i <= m /\ \A l \in Active(vs) \ {i} : l <= m => Beats(vs, i, l)

\* The next version is preferred, or what was preferred so far is.
LEMMA NextBest ==
  ASSUME NEW vs, Active(vs) \subseteq Nat \ {0},
         \A l \in Active(vs) : vs[l].number \in Number,
         ~ LatestFails(vs), NEW m \in Active(vs), NEW i, Best(vs, i, m - 1)
  PROVE  Best(vs, i, m) \/ Best(vs, m, m)
PROOF
  <1>1. i \in Active(vs) /\ i < m /\ i # m
    BY DEF Best
  <1>2. \A l \in Active(vs) : Parses(vs[l].number)
    BY <1>1 DEF LatestFails
  <1>3. \A l \in Active(vs) \ {i} : l < m => Beats(vs, i, l)
    BY DEF Best
  <1>4. CASE ~ Newer(vs[m].number, vs[i].number)
    <2>1. Beats(vs, i, m)
      BY <1>1, <1>4 DEF Beats
    <2>2. \A l \in Active(vs) : l <= m => l < m \/ l = m
      OBVIOUS
    <2> QED BY <1>1, <1>3, <2>1, <2>2 DEF Best
  <1>5. CASE Newer(vs[m].number, vs[i].number)
    <2>1. ASSUME NEW l \in Active(vs) \ {m}, l <= m
          PROVE  Beats(vs, m, l)
      <3>1. vs[l].number \in Number /\ vs[i].number \in Number /\ vs[m].number \in Number
            /\ Parses(vs[l].number) /\ Parses(vs[i].number) /\ Parses(vs[m].number)
        BY <1>1, <1>2
      <3>2. l = i \/ ~ Newer(vs[l].number, vs[i].number)
        BY <1>3, <2>1 DEF Beats
      <3>3. CASE l = i
        <4>1. ~ Newer(vs[i].number, vs[m].number)
          BY <1>5, <3>1 DEF Newer, Parses
        <4> QED BY <1>5, <3>3, <4>1 DEF Beats
      <3>4. CASE ~ Newer(vs[l].number, vs[i].number)
        BY <1>5, <3>1, <3>4, NewBest DEF Beats
      <3> QED BY <3>2, <3>3, <3>4
    <2> QED BY <2>1 DEF Best
  <1> QED BY <1>4, <1>5

\* Whenever LatestActive does not fail, there is a version that it returns.
LEMMA LatestExists ==
  ASSUME NEW vs, NEW n \in Nat, DOMAIN vs = 1..n, \A i \in 1..n : vs[i].number \in Number,
         Active(vs) # {}, ~ LatestFails(vs)
  PROVE  Latest(vs) \in Active(vs) /\ IsLatest(vs, Latest(vs))
PROOF
  <1> DEFINE T == {m \in Nat : (\E j \in Active(vs) : j <= m) /\ ~ \E i \in Active(vs) : Best(vs, i, m)}
  <1>1. Active(vs) \subseteq 1..n /\ Active(vs) \subseteq Nat \ {0}
    BY DEF Active
  <1>2. ASSUME T # {} PROVE FALSE
    <2>1. PICK m \in T : \A l \in T : m <= l
      BY <1>2, LeastNumber
    <2>2. PICK j \in Active(vs) : j <= m
      BY <2>1
    <2>3. m \in Nat /\ m >= 1 /\ m - 1 \in Nat /\ m - 1 \notin T
      <3>1. m \in Nat /\ j \in Nat /\ j >= 1
        BY <1>1, <2>1
      <3>2. m >= 1 /\ m - 1 \in Nat /\ ~ (m <= m - 1)
        BY <2>2, <3>1
      <3> QED BY <2>1, <3>1, <3>2
    <2>4. \A l \in Active(vs) : l <= m => l <= m - 1 \/ l = m
      BY <1>1, <2>3
    <2>5. CASE \A l \in Active(vs) : l > m - 1
      <3>1. \A l \in Active(vs) : l <= m => l = m
        BY <1>1, <2>3, <2>5
      <3>2. j = m /\ Best(vs, j, m)
        BY <2>2, <2>3, <3>1 DEF Best
      <3> QED BY <2>1, <3>2
    <2>6. CASE \E l \in Active(vs) : l <= m - 1
      <3>1. PICK i \in Active(vs) : Best(vs, i, m - 1)
        BY <2>3, <2>6
      <3>2. CASE m \notin Active(vs)
        <4>1. Best(vs, i, m)
          BY <1>1, <2>3, <2>4, <3>1, <3>2 DEF Best
        <4> QED BY <2>1, <4>1
      <3>3. CASE m \in Active(vs)
        <4>1. \A l \in Active(vs) : vs[l].number \in Number
          BY <1>1
        <4>2. Best(vs, i, m) \/ Best(vs, m, m)
          BY <1>1, <3>1, <3>3, <4>1, NextBest
        <4> QED BY <2>1, <3>1, <3>3, <4>2
      <3> QED BY <3>2, <3>3
    <2> QED BY <1>1, <2>3, <2>5, <2>6
  <1>3. PICK i \in Active(vs) : Best(vs, i, n)
    <2>1. n \notin T
      BY <1>2
    <2> QED BY <1>1, <2>1
  <1>4. i \in DOMAIN vs /\ IsLatest(vs, i)
    BY <1>1, <1>3 DEF IsLatest, Best, Beats
  <1> QED BY <1>4 DEF Latest, IsLatest

\* FindVersion finds a number whenever some active version has it.
THEOREM FoundWhenActive ==
  ASSUME NEW vs \in Seq(Offer), NEW n
  PROVE  (\E i \in Active(vs) : vs[i].number = n) <=> \E i \in DOMAIN vs : IsListed(vs, n, i)
PROOF
  <1> DEFINE T == {i \in Active(vs) : vs[i].number = n}
  <1>1. T \in SUBSET Nat /\ T \subseteq DOMAIN vs
    BY LenProperties DEF Active
  <1>2. ASSUME T # {} PROVE \E i \in DOMAIN vs : IsListed(vs, n, i)
    <2>1. PICK i \in T : \A j \in T : i <= j
      BY <1>1, <1>2, LeastNumber
    <2>2. IsListed(vs, n, i)
      BY <2>1 DEF IsListed
    <2> QED BY <1>1, <2>1, <2>2
  <1> QED BY <1>2 DEF IsListed

-------------------------------------------------------------------------------
(* Every listed item is in the index, is the selection of its package, and  *)
(* is either still being resolved or has all its references taken care of.  *)

InIndex(c) == c.key \in DOMAIN index /\ c.pos \in DOMAIN index[c.key]

Warns(c, ref) == [by |-> [key |-> c.key, pos |-> c.pos], ref |-> ref] \in warned

\* The reference ref of c is taken care of.
Handled(c, ref) ==
  \/ ref.key = Ambient /\ Warns(c, ref)
  \/ /\ ref.key # Ambient
     /\ \E d \in ItemsOf(planDeps) :
          d.key = ref.key /\ (Older(NumberOf(d), ref.number) => Warns(c, ref))

\* A call has taken care of the references it has passed.
FrameInv(f) ==
  /\ f.item \in Planned /\ f.at \in 1..(Len(DepsOf(f.item)) + 1)
  /\ \A j \in 1..(f.at - 1) : Handled(f.item, DepsOf(f.item)[j])

SeenInv ==
  /\ \A k \in Package : seen[k] # None => seen[k] \in ItemsOf(planDeps) /\ seen[k].key = k
  /\ \A i \in DOMAIN planDeps : seen[planDeps[i].key] = planDeps[i]

Settled(c) == \A ref \in Refs(c) : Handled(c, ref)
AtWork(c)  == \E i \in DOMAIN stack : stack[i].item = c

\* c declares the dependency d, which is listed as its own.
Because(c, d) ==
  IsChoice(c, d.of) /\ \E ref \in Refs(c) : ref.key = d.key /\ ref.number = NumberOf(d)

Reason(i) == \E c \in ItemsOf(planRoots) \cup {planDeps[j] : j \in 1..(i - 1)} : Because(c, planDeps[i])

ResolverInv ==
  /\ TypeOK /\ OncePerPackage /\ Justified
  /\ result # "error" => SeenInv
  /\ result = "error" => planRoots = <<>> /\ planDeps = <<>>
  /\ result # "resolving" => stack = <<>>
  /\ \A c \in Planned : InIndex(c)
  /\ \A i \in DOMAIN stack : FrameInv(stack[i])
  /\ \A c \in Planned : AtWork(c) \/ Settled(c)

\* Justified, one dependency at a time.
LEMMA JustifiedByReasons == Justified <=> \A i \in DOMAIN planDeps : Reason(i)
PROOF BY DEF Justified, Reason, Because

\* A listed item has a number and declares references.
LEMMA IndexTypes ==
  ASSUME index \in Indexes, NEW c, InIndex(c)
  PROVE  /\ c.key \in Package /\ c.pos \in Nat \ {0}
         /\ NumberOf(c) \in Number /\ DepsOf(c) \in Seq(Reference)
PROOF
  <1>1. index[c.key] \in Seq(Offer) /\ c.key \in Package
    BY IndexAssumption DEF InIndex
  <1>2. c.pos \in Nat \ {0} /\ index[c.key][c.pos] \in Offer
    BY <1>1, LenProperties, ElementOfSeq DEF InIndex
  <1>3. \A o \in Offer : o.number \in Number /\ o.deps \in Seq(Reference)
    BY DEF Offer
  <1> QED BY <1>1, <1>2, <1>3 DEF NumberOf, DepsOf

\* FindVersion for a root returns a position of its package.
LEMMA RootIsListed ==
  ASSUME index \in Indexes, NEW r \in Root, RootFound(r)
  PROVE  r.key \in DOMAIN index /\ RootPos(r) \in DOMAIN index[r.key]
PROOF
  <1>1. r.key \in DOMAIN index /\ index[r.key] \in Seq(Offer)
    BY IndexAssumption DEF RootFound
  <1> DEFINE vs == index[r.key]
  <1>2. Len(vs) \in Nat /\ DOMAIN vs = 1..Len(vs) /\ \A i \in 1..Len(vs) : vs[i].number \in Number
    <2>1. Len(vs) \in Nat /\ DOMAIN vs = 1..Len(vs) /\ \A i \in 1..Len(vs) : vs[i] \in Offer
      BY <1>1, LenProperties, ElementOfSeq
    <2>2. \A o \in Offer : o.number \in Number
      BY DEF Offer
    <2> QED BY <2>1, <2>2
  <1>3. CASE r.desired = Newest
    <2>1. Active(vs) # {} /\ ~ LatestFails(vs)
      BY <1>3 DEF RootFound
    <2>2. Latest(vs) \in Active(vs)
      BY <1>2, <2>1, LatestExists
    <2> QED BY <1>1, <1>3, <2>2 DEF RootPos, Active
  <1>4. CASE r.desired # Newest
    <2>1. \E i \in DOMAIN vs : IsListed(vs, r.desired, i)
      BY <1>4 DEF RootFound
    <2>2. Listed(vs, r.desired) \in DOMAIN vs
      BY <2>1 DEF Listed
    <2> QED BY <1>1, <1>4, <2>2 DEF RootPos
  <1> QED BY <1>3, <1>4

\* FindVersion for a dependency returns a position that holds its number.
LEMMA RefIsListed ==
  ASSUME NEW ref, RefFound(ref)
  PROVE  /\ ref.key \in DOMAIN index
         /\ Listed(index[ref.key], ref.number) \in DOMAIN index[ref.key]
         /\ index[ref.key][Listed(index[ref.key], ref.number)].number = ref.number
PROOF
  <1>1. PICK i \in DOMAIN index[ref.key] : IsListed(index[ref.key], ref.number, i)
    BY DEF RefFound
  <1>2. /\ Listed(index[ref.key], ref.number) \in DOMAIN index[ref.key]
        /\ IsListed(index[ref.key], ref.number, Listed(index[ref.key], ref.number))
    BY <1>1 DEF Listed
  <1> QED BY <1>2 DEF RefFound, IsListed

\* A list with one item more.
LEMMA OneItemMore ==
  ASSUME NEW S, NEW q \in Seq(S), NEW x \in S
  PROVE  /\ Append(q, x) \in Seq(S) /\ Len(Append(q, x)) = Len(q) + 1
         /\ DOMAIN Append(q, x) = 1..(Len(q) + 1) /\ DOMAIN q = 1..Len(q) /\ Len(q) \in Nat
         /\ \A i \in 1..Len(q) : Append(q, x)[i] = q[i]
         /\ Append(q, x)[Len(q) + 1] = x
         /\ ItemsOf(Append(q, x)) = ItemsOf(q) \cup {x}
PROOF
  <1>1. /\ Append(q, x) \in Seq(S) /\ Len(Append(q, x)) = Len(q) + 1
        /\ DOMAIN Append(q, x) = 1..(Len(q) + 1) /\ DOMAIN q = 1..Len(q) /\ Len(q) \in Nat
        /\ \A i \in 1..Len(q) : Append(q, x)[i] = q[i]
        /\ Append(q, x)[Len(q) + 1] = x
    OBVIOUS
  <1> QED BY <1>1 DEF ItemsOf

\* What is taken care of stays so while the lists grow.
LEMMA HandledLasts ==
  ASSUME index' = index, ItemsOf(planDeps) \subseteq ItemsOf(planDeps'), warned \subseteq warned',
         NEW c, NEW ref, Handled(c, ref)
  PROVE  Handled(c, ref)'
PROOF BY DEF Handled, Warns, NumberOf

\* So do the calls that are not at work.
LEMMA FrameLasts ==
  ASSUME index' = index, ItemsOf(planRoots) \subseteq ItemsOf(planRoots'),
         ItemsOf(planDeps) \subseteq ItemsOf(planDeps'), warned \subseteq warned',
         NEW f, FrameInv(f)
  PROVE  FrameInv(f)'
PROOF
  <1>1. DepsOf(f.item)' = DepsOf(f.item)
    BY DEF DepsOf
  <1>2. Planned \subseteq Planned'
    BY DEF Planned
  <1> QED BY <1>1, <1>2, HandledLasts DEF FrameInv

\* What is settled stays settled.
LEMMA SettledLasts ==
  ASSUME index' = index, ItemsOf(planDeps) \subseteq ItemsOf(planDeps'), warned \subseteq warned',
         NEW c, Settled(c)
  PROVE  Settled(c)'
PROOF
  <1>1. Refs(c)' = Refs(c)
    BY DEF Refs, DepsOf
  <1> QED BY <1>1, HandledLasts DEF Settled

\* The innermost call.
LEMMA TopFrame ==
  ASSUME ResolverInv, InCall
  PROVE  /\ stack \in Seq(Frame) /\ Depth \in Nat \ {0} /\ DOMAIN stack = 1..Depth
         /\ stack[Depth] \in Frame /\ stack[Depth].at \in Nat /\ Parent \in Item
         /\ \A i \in 1..Depth : FrameInv(stack[i])
         /\ Parent \in Planned /\ InIndex(Parent) /\ index \in Indexes
         /\ DepsOf(Parent) \in Seq(Reference) /\ Len(DepsOf(Parent)) \in Nat
PROOF
  <1>1. stack \in Seq(Frame) /\ stack # <<>> /\ index \in Indexes
    BY DEF ResolverInv, TypeOK, InCall
  <1>2. Depth \in Nat \ {0} /\ DOMAIN stack = 1..Depth
    BY <1>1, EmptySeq, LenProperties DEF Depth
  <1>3. stack[Depth] \in Frame
    BY <1>1, <1>2, ElementOfSeq DEF Depth
  <1>4. stack[Depth].at \in Nat /\ Parent \in Item
    BY <1>3 DEF Frame, Parent
  <1>5. \A i \in 1..Depth : FrameInv(stack[i])
    BY <1>2 DEF ResolverInv
  <1>6. Parent \in Planned
    BY <1>2, <1>5 DEF FrameInv, Parent
  <1>7. InIndex(Parent)
    BY <1>6 DEF ResolverInv
  <1>8. DepsOf(Parent) \in Seq(Reference)
    BY <1>1, <1>7, IndexTypes
  <1>9. Len(DepsOf(Parent)) \in Nat
    BY <1>8, LenProperties
  <1> QED BY <1>1, <1>2, <1>3, <1>4, <1>5, <1>6, <1>7, <1>8, <1>9

\* The reference it is at.
LEMMA TopReference ==
  ASSUME ResolverInv, AtRef
  PROVE  /\ stack[Depth].at \in 1..Len(DepsOf(Parent))
         /\ Ref \in Reference /\ Ref \in Refs(Parent)
         /\ [key |-> Parent.key, pos |-> Parent.pos] \in Chosen
         /\ Warning \in [by : Chosen, ref : Reference]
PROOF
  <1>1. InCall /\ stack[Depth].at <= Len(DepsOf(Parent))
    BY DEF AtRef
  <1>2. stack[Depth].at \in 1..Len(DepsOf(Parent))
    <2>1. FrameInv(stack[Depth]) /\ Len(DepsOf(Parent)) \in Nat
      BY <1>1, TopFrame
    <2>2. stack[Depth].at \in 1..(Len(DepsOf(Parent)) + 1)
      BY <2>1 DEF FrameInv, Parent
    <2> QED BY <1>1, <2>1, <2>2
  <1>3. DepsOf(Parent) \in Seq(Reference) /\ Parent \in Item
    BY <1>1, TopFrame
  <1>4. Ref \in Reference
    BY <1>2, <1>3, ElementOfSeq DEF Ref
  <1>5. Ref \in Refs(Parent)
    BY <1>2, <1>3, LenProperties DEF Ref, Refs, ItemsOf
  <1>6. [key |-> Parent.key, pos |-> Parent.pos] \in Chosen
    BY <1>3 DEF Item, Chosen
  <1> QED BY <1>2, <1>4, <1>5, <1>6 DEF Warning

\* A call that has taken care of a reference goes on to the next one.
LEMMA AdvancedFrames ==
  ASSUME ResolverInv, AtRef, index' = index,
         ItemsOf(planRoots) \subseteq ItemsOf(planRoots'),
         ItemsOf(planDeps) \subseteq ItemsOf(planDeps'), warned \subseteq warned',
         NEW c, c = Parent, NEW ref, ref = Ref, Handled(c, ref)',
         NEW a, a = Advanced
  PROVE  /\ a \in Seq(Frame) /\ Len(a) = Depth /\ DOMAIN a = 1..Depth
         /\ \A i \in 1..Depth : FrameInv(a[i])' /\ a[i].item = stack[i].item
PROOF
  <1>1. PICK d, p, q : d = Depth /\ p = stack[d].at /\ q = DepsOf(c)
    OBVIOUS
  <1>2. /\ stack \in Seq(Frame) /\ d \in Nat \ {0} /\ d = Len(stack) /\ stack[d] \in Frame
        /\ q \in Seq(Reference) /\ Len(q) \in Nat /\ c \in Planned
        /\ \A i \in 1..d : FrameInv(stack[i])
    BY <1>1, TopFrame DEF AtRef, Depth
  <1>3. p \in 1..Len(q) /\ ref = q[p] /\ c = stack[d].item
    BY <1>1, TopReference DEF Ref, Parent
  <1>4. PICK top : top = [stack[d] EXCEPT !.at = @ + 1]
    OBVIOUS
  <1>5. top \in Frame /\ top.item = c /\ top.at = p + 1
    BY <1>1, <1>2, <1>3, <1>4 DEF Frame
  <1>6. a = [stack EXCEPT ![d] = top]
    BY <1>1, <1>4 DEF Advanced
  <1>7. /\ a \in Seq(Frame) /\ Len(a) = d /\ DOMAIN a = 1..d
        /\ \A i \in 1..d : a[i] = IF i = d THEN top ELSE stack[i]
    <2>1. d \in 1..Len(stack)
      BY <1>2
    <2>2. /\ a \in Seq(Frame) /\ Len(a) = Len(stack)
          /\ \A i \in 1..Len(stack) : a[i] = IF i = d THEN top ELSE stack[i]
      BY <1>2, <1>5, <1>6, <2>1, ExceptSeq
    <2> QED BY <1>2, <2>2, LenProperties
  <1>8. ASSUME NEW f, FrameInv(f) PROVE FrameInv(f)'
    BY <1>8, FrameLasts
  <1>9. FrameInv(top)'
    <2>1. Planned \subseteq Planned' /\ DepsOf(c)' = q
      BY <1>1 DEF Planned, DepsOf
    <2>2. FrameInv(stack[d])
      BY <1>2
    <2>3. \A j \in 1..(p - 1) : Handled(c, q[j])
      BY <1>1, <1>3, <2>2 DEF FrameInv
    <2>4. ASSUME NEW j \in 1..p PROVE Handled(c, q[j])'
      <3>1. CASE j = p
        BY <1>3, <3>1
      <3>2. CASE j # p
        <4>1. j \in 1..(p - 1)
          BY <1>3, <3>2
        <4>2. PICK r : r = q[j]
          OBVIOUS
        <4>3. Handled(c, r)
          BY <2>3, <4>1, <4>2
        <4> QED BY <4>2, <4>3, HandledLasts
      <3> QED BY <3>1, <3>2
    <2>5. top.at \in 1..(Len(q) + 1) /\ 1..(top.at - 1) = 1..p
      BY <1>2, <1>3, <1>5
    <2> QED BY <1>2, <1>5, <2>1, <2>4, <2>5 DEF FrameInv
  <1>10. ASSUME NEW i \in 1..d
         PROVE  FrameInv(a[i])' /\ a[i].item = stack[i].item
    <2>1. PICK f : f = a[i]
      OBVIOUS
    <2>2. FrameInv(f)'
      <3>1. CASE i = d
        BY <1>7, <1>9, <2>1, <3>1
      <3>2. CASE i # d
        <4>1. f = stack[i] /\ FrameInv(f)
          BY <1>2, <1>7, <2>1, <3>2
        <4> QED BY <1>8, <4>1
      <3> QED BY <3>1, <3>2
    <2> QED BY <1>3, <1>5, <1>7, <2>1, <2>2
  <1> QED BY <1>1, <1>2, <1>7, <1>10

-------------------------------------------------------------------------------
(* The steps.                                                              *)

\* The invariant holds before the first root.
LEMMA ResolverInit == Init => ResolverInv
PROOF
  <1> SUFFICES ASSUME Init PROVE ResolverInv
    OBVIOUS
  <1>1. /\ index \in Indexes /\ roots \in RootLists /\ nextRoot = 1 /\ planRoots = <<>>
        /\ planDeps = <<>> /\ warned = {} /\ stack = <<>> /\ result = "resolving"
        /\ seen = [k \in Package |-> None]
    BY DEF Init
  <1>2. TypeOK
    BY <1>1 DEF TypeOK
  <1>3. DOMAIN planDeps = {} /\ DOMAIN stack = {} /\ Planned = {}
    BY <1>1 DEF Planned, ItemsOf
  <1>4. OncePerPackage
    BY <1>1, <1>3, EmptySeq DEF OncePerPackage, Depth
  <1>5. Justified /\ SeenInv
    BY <1>1, <1>3 DEF Justified, SeenInv
  <1> QED BY <1>1, <1>2, <1>3, <1>4, <1>5 DEF ResolverInv

\* An error leaves nothing behind.
LEMMA FailKeeps == ResolverInv /\ Fail => ResolverInv'
PROOF
  <1> SUFFICES ASSUME ResolverInv, Fail PROVE ResolverInv'
    OBVIOUS
  <1>1. /\ result' = "error" /\ planRoots' = <<>> /\ planDeps' = <<>> /\ warned' = {} /\ stack' = <<>>
        /\ UNCHANGED <<index, roots, nextRoot, seen>>
    BY DEF Fail, arguments
  <1>2. TypeOK'
    BY <1>1 DEF TypeOK, ResolverInv
  <1>3. DOMAIN planDeps' = {} /\ DOMAIN stack' = {} /\ Planned' = {}
    BY <1>1 DEF Planned, ItemsOf
  <1>4. OncePerPackage'
    BY <1>1, <1>3, EmptySeq DEF OncePerPackage, Depth
  <1>5. Justified'
    BY <1>3 DEF Justified
  <1> QED BY <1>1, <1>2, <1>3, <1>4, <1>5 DEF ResolverInv

\* A reason to list a dependency stays one while the lists grow.
LEMMA ReasonLasts ==
  ASSUME index' = index, ItemsOf(planRoots) \subseteq ItemsOf(planRoots'),
         NEW i, \A j \in 1..(i - 1) : planDeps'[j] = planDeps[j], planDeps'[i] = planDeps[i], Reason(i)
  PROVE  Reason(i)'
PROOF
  <1>1. PICK c \in ItemsOf(planRoots) \cup {planDeps[j] : j \in 1..(i - 1)} : Because(c, planDeps[i])
    BY DEF Reason
  <1>2. c \in ItemsOf(planRoots') \cup {planDeps'[j] : j \in 1..(i - 1)}
    <2>1. CASE c \in ItemsOf(planRoots)
      BY <2>1
    <2>2. CASE c \in {planDeps[j] : j \in 1..(i - 1)}
      BY <2>2
    <2> QED BY <1>1, <2>1, <2>2
  <1>3. PICK x : x = planDeps[i]
    OBVIOUS
  <1>4. Because(c, x) => Because(c, x)'
    BY DEF Because, Refs, DepsOf, NumberOf
  <1> QED BY <1>1, <1>2, <1>3, <1>4 DEF Reason

\* What a step that lists nothing leaves as it was.
LEMMA ListsKeep ==
  ASSUME ResolverInv, UNCHANGED <<index, planRoots, planDeps, seen>>
  PROVE  /\ Justified' /\ (result # "error" => SeenInv')
         /\ \A c \in Planned' : InIndex(c)'
         /\ Planned' = Planned
         /\ \A i, j \in DOMAIN planDeps' : planDeps'[i].key = planDeps'[j].key => i = j
PROOF
  <1>1. Planned' = Planned
    BY DEF Planned, ItemsOf
  <1>2. Justified'
    <2>1. ASSUME NEW i \in DOMAIN planDeps PROVE Reason(i)'
      BY JustifiedByReasons, ReasonLasts DEF ResolverInv
    <2> QED BY <2>1 DEF Justified, Reason, Because
  <1>3. result # "error" => SeenInv'
    BY DEF ResolverInv, SeenInv, ItemsOf
  <1>4. \A c \in Planned' : InIndex(c)'
    BY <1>1 DEF ResolverInv, InIndex
  <1> QED BY <1>1, <1>2, <1>3, <1>4 DEF ResolverInv, OncePerPackage

\* The loop over the roots ends.
LEMMA FinishKeeps == ResolverInv /\ Finish => ResolverInv'
PROOF
  <1> SUFFICES ASSUME ResolverInv, Finish PROVE ResolverInv'
    OBVIOUS
  <1>1. /\ result = "resolving" /\ stack = <<>> /\ result' = "plan"
        /\ UNCHANGED <<index, roots, nextRoot, planRoots, planDeps, warned, seen, stack>>
    BY DEF Finish, BetweenRoots, arguments
  <1>2. TypeOK'
    BY <1>1 DEF TypeOK, ResolverInv
  <1>3. DOMAIN stack' = {}
    BY <1>1
  <1>4. OncePerPackage'
    BY <1>1, ListsKeep DEF OncePerPackage, Depth, ResolverInv
  <1>5. \A c \in Planned' : Settled(c)'
    <2>1. \A c \in Planned : Settled(c)
      BY <1>1 DEF ResolverInv, AtWork
    <2> QED BY <1>1, <2>1, ListsKeep, SettledLasts
  <1>6. Justified' /\ SeenInv' /\ \A c \in Planned' : InIndex(c)'
    BY <1>1, ListsKeep
  <1>7. stack' = <<>> /\ result' # "error" /\ \A i \in DOMAIN stack' : FrameInv(stack[i])'
    BY <1>1, <1>3
  <1> QED BY <1>2, <1>4, <1>5, <1>6, <1>7 DEF ResolverInv

\* The innermost call takes care of a reference that lists nothing new.
LEMMA StepOn ==
  ASSUME ResolverInv, AtRef, stack' = Advanced, warned' \in {warned, warned \cup {Warning}},
         UNCHANGED <<index, roots, nextRoot, planRoots, planDeps, seen, result>>,
         NEW c, c = Parent, NEW ref, ref = Ref, Handled(c, ref)'
  PROVE  ResolverInv'
PROOF
  <1>1. PICK a, d : a = Advanced /\ d = Depth
    OBVIOUS
  <1>2. warned \subseteq warned' /\ warned' \subseteq [by : Chosen, ref : Reference]
    BY TopReference DEF ResolverInv, TypeOK
  <1>3. /\ a \in Seq(Frame) /\ Len(a) = d /\ DOMAIN a = 1..d
        /\ \A i \in 1..d : FrameInv(a[i])' /\ a[i].item = stack[i].item
    BY <1>1, <1>2, AdvancedFrames
  <1>4. stack' = a /\ DOMAIN stack = 1..d
    BY <1>1, TopFrame DEF AtRef
  <1>5. TypeOK'
    BY <1>2, <1>3, <1>4 DEF TypeOK, ResolverInv
  <1>6. OncePerPackage'
    <2>1. Depth' = Depth
      BY <1>1, <1>3, <1>4 DEF Depth
    <2> QED BY <2>1, ListsKeep DEF OncePerPackage, ResolverInv
  <1>7. \A i \in DOMAIN stack' : FrameInv(stack[i])'
    BY <1>3, <1>4
  <1>8. \A p \in Planned' : AtWork(p)' \/ Settled(p)'
    <2> SUFFICES ASSUME NEW p \in Planned PROVE AtWork(p)' \/ Settled(p)'
      BY ListsKeep
    <2>1. AtWork(p) => AtWork(p)'
      BY <1>3, <1>4 DEF AtWork
    <2> QED BY <1>2, <2>1, SettledLasts DEF ResolverInv
  <1>9. result = "resolving"
    BY DEF AtRef, InCall
  <1> QED BY <1>5, <1>6, <1>7, <1>8, <1>9, ListsKeep DEF ResolverInv

\* The BepInEx pack gets its warning.
LEMMA SatisfiedKeeps == ResolverInv /\ Satisfied => ResolverInv'
PROOF
  <1> SUFFICES ASSUME ResolverInv, Satisfied PROVE ResolverInv'
    OBVIOUS
  <1>1. /\ AtRef /\ Ref.key = Ambient /\ warned' = warned \cup {Warning} /\ stack' = Advanced
        /\ UNCHANGED <<index, roots, nextRoot, planRoots, planDeps, seen, result>>
    BY DEF Satisfied, arguments
  <1>2. PICK c, ref : c = Parent /\ ref = Ref
    OBVIOUS
  <1>3. Handled(c, ref)'
    BY <1>1, <1>2 DEF Handled, Warns, Warning
  <1> QED BY <1>1, <1>2, <1>3, StepOn

\* A package that is selected already gets a warning when its version is older.
LEMMA RepeatedKeeps == ResolverInv /\ Repeated => ResolverInv'
PROOF
  <1> SUFFICES ASSUME ResolverInv, Repeated PROVE ResolverInv'
    OBVIOUS
  <1>1. /\ AtRef /\ Ref.key # Ambient /\ seen[Ref.key] # None /\ stack' = Advanced
        /\ warned' = IF Older(NumberOf(seen[Ref.key]), Ref.number) THEN warned \cup {Warning} ELSE warned
        /\ UNCHANGED <<index, roots, nextRoot, planRoots, planDeps, seen, result>>
    BY DEF Repeated, arguments
  <1>2. PICK c, ref, d : c = Parent /\ ref = Ref /\ d = seen[ref.key]
    OBVIOUS
  <1>3. d \in ItemsOf(planDeps) /\ d.key = ref.key
    <2>1. ref.key \in Package
      BY <1>1, <1>2, TopReference DEF Reference
    <2>2. SeenInv
      BY <1>1 DEF ResolverInv, AtRef, InCall
    <2> QED BY <1>1, <1>2, <2>1, <2>2 DEF SeenInv
  <1>4. d \in ItemsOf(planDeps') /\ NumberOf(d)' = NumberOf(d)
    BY <1>1, <1>3 DEF ItemsOf, NumberOf
  <1>5. Older(NumberOf(d), ref.number) => Warns(c, ref)'
    BY <1>1, <1>2 DEF Warns, Warning
  <1>6. Handled(c, ref)'
    BY <1>1, <1>2, <1>3, <1>4, <1>5 DEF Handled
  <1> QED BY <1>1, <1>2, <1>6, StepOn

\* A call that has passed all its references has them taken care of.
LEMMA ReturnKeeps == ResolverInv /\ Return => ResolverInv'
PROOF
  <1> SUFFICES ASSUME ResolverInv, Return PROVE ResolverInv'
    OBVIOUS
  <1>1. /\ InCall /\ ~ AtRef /\ result = "resolving" /\ stack' = SubSeq(stack, 1, Depth - 1)
        /\ UNCHANGED <<index, roots, nextRoot, planRoots, planDeps, warned, seen, result>>
    BY DEF Return, InCall, arguments
  <1>2. PICK c, d, q, a : c = Parent /\ d = Depth /\ q = DepsOf(c) /\ a = SubSeq(stack, 1, d - 1)
    OBVIOUS
  <1>3. /\ stack \in Seq(Frame) /\ d \in Nat \ {0} /\ DOMAIN stack = 1..d /\ stack[d] \in Frame
        /\ \A i \in 1..d : FrameInv(stack[i]) /\ stack[i] \in Frame
        /\ c \in Planned /\ q \in Seq(Reference) /\ Len(q) \in Nat /\ c = stack[d].item
    BY <1>1, <1>2, TopFrame, ElementOfSeq DEF Parent
  <1>4. /\ a \in Seq(Frame) /\ Len(a) = d - 1 /\ DOMAIN a = 1..(d - 1)
        /\ \A i \in 1..(d - 1) : a[i] = stack[i]
    <2>1. /\ a \in Seq(Frame) /\ Len(a) = IF 1 <= d - 1 THEN d - 1 - 1 + 1 ELSE 0
          /\ \A i \in 1..(d - 1 - 1 + 1) : a[i] = stack[1 + i - 1]
      <3>1. 1 \in Int /\ d - 1 \in Int /\ \A i \in 1..(d - 1) : stack[i] \in Frame
        BY <1>3
      <3> QED BY <1>2, <3>1, SubSeqProperties
    <2>2. Len(a) = d - 1
      BY <1>3, <2>1
    <2>3. \A i \in 1..(d - 1) : a[i] = stack[i]
      BY <1>3, <2>1
    <2> QED BY <2>1, <2>2, <2>3, LenProperties
  <1>5. stack' = a
    BY <1>1, <1>2
  <1>6. Settled(c)
    <2>1. FrameInv(stack[d])
      BY <1>3
    <2>2. stack[d].at = Len(q) + 1
      <3>1. ~ (stack[d].at <= Len(q))
        BY <1>1, <1>2 DEF AtRef
      <3> QED BY <1>2, <1>3, <2>1, <3>1 DEF FrameInv
    <2>3. \A j \in 1..Len(q) : Handled(c, q[j])
      <3>1. \A j \in 1..(stack[d].at - 1) : Handled(c, q[j])
        BY <1>2, <1>3, <2>1 DEF FrameInv
      <3>2. 1..(stack[d].at - 1) = 1..Len(q)
        BY <1>3, <2>2
      <3> QED BY <3>1, <3>2
    <2> QED BY <1>2, <1>3, <2>3, LenProperties DEF Settled, Refs, ItemsOf
  <1>7. TypeOK'
    BY <1>1, <1>4, <1>5 DEF TypeOK, ResolverInv
  <1>8. OncePerPackage'
    <2>1. Depth' <= Depth
      BY <1>2, <1>3, <1>4, <1>5 DEF Depth
    <2>2. Depth <= 1 + Len(planDeps) /\ Len(planDeps') = Len(planDeps) /\ Len(planDeps) \in Nat
      BY <1>1, LenProperties DEF ResolverInv, OncePerPackage, TypeOK
    <2>3. Depth' \in Nat /\ Depth \in Nat
      BY <1>2, <1>3, <1>4, <1>5 DEF Depth
    <2> QED BY <1>1, <2>1, <2>2, <2>3, ListsKeep DEF OncePerPackage
  <1>9. \A i \in DOMAIN stack' : FrameInv(stack[i])'
    <2> SUFFICES ASSUME NEW i \in 1..(d - 1) PROVE FrameInv(stack[i])'
      BY <1>4, <1>5
    <2>1. PICK f : f = stack[i]
      OBVIOUS
    <2>2. FrameInv(f) /\ stack'[i] = f
      BY <1>3, <1>4, <1>5, <2>1
    <2>3. FrameInv(f)'
      BY <1>1, <2>2, FrameLasts
    <2> QED BY <2>2, <2>3
  <1>10. \A p \in Planned' : AtWork(p)' \/ Settled(p)'
    <2> SUFFICES ASSUME NEW p \in Planned PROVE AtWork(p)' \/ Settled(p)'
      BY <1>1, ListsKeep
    <2>1. ASSUME Settled(p) PROVE Settled(p)'
      BY <1>1, <2>1, SettledLasts
    <2>2. ASSUME NEW i \in 1..d, stack[i].item = p PROVE AtWork(p)' \/ Settled(p)
      <3>1. CASE i = d
        BY <1>3, <1>6, <2>2, <3>1
      <3>2. CASE i # d
        <4>1. i \in 1..(d - 1)
          BY <1>3, <3>2
        <4> QED BY <1>4, <1>5, <2>2, <4>1 DEF AtWork
      <3> QED BY <3>1, <3>2
    <2> QED BY <1>3, <2>1, <2>2 DEF ResolverInv, AtWork
  <1> QED BY <1>1, <1>7, <1>8, <1>9, <1>10, ListsKeep DEF ResolverInv

\* A root is listed and its call begins.
LEMMA TakeRootKeeps == ResolverInv /\ TakeRoot => ResolverInv'
PROOF
  <1> SUFFICES ASSUME ResolverInv, TakeRoot PROVE ResolverInv'
    OBVIOUS
  <1>1. PICK r, x : r = roots[nextRoot] /\ x = [key |-> r.key, pos |-> RootPos(r), of |-> None]
    OBVIOUS
  <1>2. /\ result = "resolving" /\ stack = <<>> /\ nextRoot <= Len(roots) /\ RootFound(r)
        /\ planRoots' = Append(planRoots, x) /\ stack' = <<Call(x)>> /\ nextRoot' = nextRoot + 1
        /\ UNCHANGED <<index, roots, planDeps, warned, seen, result>>
    BY <1>1 DEF TakeRoot, BetweenRoots, arguments
  <1>3. /\ TypeOK /\ index \in Indexes /\ roots \in Seq(Root) /\ planRoots \in Seq(Item) /\ planDeps \in Seq(Item)
        /\ nextRoot \in Nat \ {0}
    BY IndexAssumption DEF ResolverInv, TypeOK
  <1>4. r \in Root
    BY <1>1, <1>2, <1>3, ElementOfSeq
  <1>5. x.key = r.key /\ x.pos = RootPos(r) /\ InIndex(x)
    BY <1>1, <1>2, <1>3, <1>4, RootIsListed DEF InIndex
  <1>6. x \in Item
    BY <1>1, <1>3, <1>5, IndexTypes DEF Item
  <1>7. /\ planRoots' \in Seq(Item) /\ ItemsOf(planRoots') = ItemsOf(planRoots) \cup {x}
    BY <1>2, <1>3, <1>6, OneItemMore
  <1>8. Planned' = Planned \cup {x}
    BY <1>2, <1>7 DEF Planned, ItemsOf
  <1>9. PICK f : f = Call(x)
    OBVIOUS
  <1>10. f \in Frame /\ f.item = x /\ f.at = 1
    BY <1>6, <1>9 DEF Call, Frame
  <1>11. stack' = <<f>> /\ stack' \in Seq(Frame) /\ Len(stack') = 1 /\ DOMAIN stack' = {1} /\ stack'[1] = f
    BY <1>2, <1>9, <1>10
  <1>12. TypeOK'
    BY <1>2, <1>3, <1>7, <1>11 DEF TypeOK
  <1>13. OncePerPackage'
    <2>1. Len(planDeps) \in Nat
      BY <1>3, LenProperties
    <2> QED BY <1>2, <1>11, <2>1 DEF OncePerPackage, ResolverInv, Depth
  <1>14. Justified'
    <2>1. ASSUME NEW i \in DOMAIN planDeps PROVE Reason(i)'
      BY <1>2, <1>7, JustifiedByReasons, ReasonLasts DEF ResolverInv
    <2> QED BY <1>2, <2>1 DEF Justified, Reason, Because
  <1>15. SeenInv'
    BY <1>2 DEF ResolverInv, SeenInv, ItemsOf
  <1>16. \A c \in Planned' : InIndex(c)'
    BY <1>2, <1>5, <1>8 DEF ResolverInv, InIndex
  <1>17. FrameInv(f)'
    <2>1. Len(DepsOf(x)) \in Nat /\ DepsOf(x)' = DepsOf(x)
      BY <1>2, <1>3, <1>5, IndexTypes, LenProperties DEF DepsOf
    <2>2. 1 \in 1..(Len(DepsOf(x)) + 1) /\ 1..(1 - 1) = {}
      BY <2>1
    <2> QED BY <1>8, <1>10, <2>1, <2>2 DEF FrameInv
  <1>18. \A c \in Planned' : AtWork(c)' \/ Settled(c)'
    <2> SUFFICES ASSUME NEW c \in Planned' PROVE AtWork(c)' \/ Settled(c)'
      OBVIOUS
    <2>1. CASE c = x
      BY <1>10, <1>11, <2>1 DEF AtWork
    <2>2. CASE c \in Planned
      <3>1. Settled(c)
        BY <1>2, <2>2 DEF ResolverInv, AtWork
      <3> QED BY <1>2, <3>1, SettledLasts
    <2> QED BY <1>8, <2>1, <2>2
  <1> QED BY <1>2, <1>11, <1>12, <1>13, <1>14, <1>15, <1>16, <1>17, <1>18 DEF ResolverInv

\* No number that parses is older than itself.
LEMMA NotOlder ==
  ASSUME NEW n, Parses(n)
  PROVE  ~ Older(n, n)
PROOF
  <1>1. n[1] \in Nat /\ n[2] \in Nat /\ n[3] \in Nat
    BY DEF Parses
  <1> QED BY <1>1 DEF Older, Newer

\* A dependency is selected and its call begins.
LEMMA TakeDependencyKeeps == ResolverInv /\ TakeDependency => ResolverInv'
PROOF
  <1> SUFFICES ASSUME ResolverInv, TakeDependency PROVE ResolverInv'
    OBVIOUS
  <1>1. PICK c, ref, x, a, d, n :
          /\ c = Parent /\ ref = Ref /\ x = Selected /\ a = Advanced /\ d = Depth /\ n = Len(planDeps)
    OBVIOUS
  <1>2. /\ AtRef /\ result = "resolving" /\ Parses(ref.number) /\ ref.key # Ambient /\ seen[ref.key] = None
        /\ RefFound(ref) /\ seen' = [seen EXCEPT ![ref.key] = x]
        /\ planDeps' = Append(planDeps, x) /\ stack' = Append(a, Call(x))
        /\ UNCHANGED <<index, roots, nextRoot, planRoots, warned, result>>
    BY <1>1 DEF TakeDependency, AtRef, InCall, arguments
  <1>3. /\ TypeOK /\ index \in Indexes /\ planDeps \in Seq(Item) /\ seen \in [Package -> Item \cup {None}]
        /\ SeenInv /\ n \in Nat
    BY <1>1, <1>2, LenProperties DEF ResolverInv, TypeOK
  <1>4. /\ c \in Planned /\ c \in Item /\ ref \in Reference /\ ref \in Refs(c) /\ ref.key \in Package
        /\ [key |-> c.key, pos |-> c.pos] \in Chosen /\ d \in Nat \ {0} /\ DOMAIN stack = 1..d
    BY <1>1, <1>2, TopReference, TopFrame DEF AtRef, Reference
  <1>5. /\ x.key = ref.key /\ x.pos = Listed(index[ref.key], ref.number)
        /\ x.of = [key |-> c.key, pos |-> c.pos]
    BY <1>1 DEF Selected
  <1>6. InIndex(x) /\ NumberOf(x) = ref.number
    BY <1>2, <1>5, RefIsListed DEF InIndex, NumberOf
  <1>7. x \in Item
    <2>1. x.pos \in Nat \ {0} /\ x.key \in Package
      BY <1>3, <1>6, IndexTypes
    <2> QED BY <1>1, <1>4, <1>5, <2>1 DEF Item, Selected
  <1>8. /\ planDeps' \in Seq(Item) /\ Len(planDeps') = n + 1 /\ DOMAIN planDeps' = 1..(n + 1)
        /\ DOMAIN planDeps = 1..n /\ \A i \in 1..n : planDeps'[i] = planDeps[i]
        /\ planDeps'[n + 1] = x /\ ItemsOf(planDeps') = ItemsOf(planDeps) \cup {x}
    BY <1>1, <1>2, <1>3, <1>7, OneItemMore
  <1>9. Planned' = Planned \cup {x}
    BY <1>2, <1>8 DEF Planned
  <1>10. Handled(c, ref)'
    <2>1. x \in ItemsOf(planDeps') /\ NumberOf(x)' = ref.number
      BY <1>2, <1>6, <1>8 DEF NumberOf
    <2>2. ~ Older(ref.number, ref.number)
      BY <1>2, NotOlder
    <2> QED BY <1>2, <1>5, <2>1, <2>2 DEF Handled
  <1>11. /\ a \in Seq(Frame) /\ Len(a) = d /\ DOMAIN a = 1..d
         /\ \A i \in 1..d : FrameInv(a[i])' /\ a[i].item = stack[i].item
    BY <1>1, <1>2, <1>8, <1>10, AdvancedFrames
  <1>12. PICK f : f = Call(x)
    OBVIOUS
  <1>13. f \in Frame /\ f.item = x /\ f.at = 1
    BY <1>7, <1>12 DEF Call, Frame
  <1>14. /\ stack' \in Seq(Frame) /\ Len(stack') = d + 1 /\ DOMAIN stack' = 1..(d + 1)
         /\ \A i \in 1..d : stack'[i] = a[i]
         /\ stack'[d + 1] = f
    BY <1>2, <1>11, <1>12, <1>13, OneItemMore
  <1>15. TypeOK'
    BY <1>2, <1>3, <1>4, <1>7, <1>8, <1>14 DEF TypeOK
  <1>16. \A i \in 1..n : planDeps[i].key # ref.key
    <2>1. \A i \in 1..n : planDeps[i] \in Item /\ seen[planDeps[i].key] = planDeps[i]
      BY <1>1, <1>3, <1>8, ElementOfSeq DEF SeenInv
    <2> QED BY <1>2, <2>1, IndexAssumption
  <1>17. OncePerPackage'
    <2>1. \A i, j \in 1..n : planDeps[i].key = planDeps[j].key => i = j
      BY <1>8 DEF ResolverInv, OncePerPackage
    <2>2. ASSUME NEW i \in 1..(n + 1), NEW j \in 1..(n + 1), planDeps'[i].key = planDeps'[j].key
          PROVE  i = j
      <3>1. CASE i \in 1..n /\ j \in 1..n
        BY <1>8, <2>1, <2>2, <3>1
      <3>2. CASE i = n + 1 /\ j # n + 1
        <4>1. j \in 1..n
          BY <1>3, <3>2
        <4> QED BY <1>5, <1>8, <1>16, <2>2, <3>2, <4>1
      <3>3. CASE i # n + 1 /\ j = n + 1
        <4>1. i \in 1..n
          BY <1>3, <3>3
        <4> QED BY <1>5, <1>8, <1>16, <2>2, <3>3, <4>1
      <3> QED BY <1>3, <3>1, <3>2, <3>3
    <2>3. d + 1 <= 1 + (n + 1)
      BY <1>1, <1>3, <1>4 DEF ResolverInv, OncePerPackage
    <2> QED BY <1>8, <1>14, <2>2, <2>3 DEF OncePerPackage, Depth
  <1>18. Justified'
    <2>1. ASSUME NEW i \in 1..n PROVE Reason(i)'
      <3>1. i \in DOMAIN planDeps /\ \A j \in 1..(i - 1) : planDeps'[j] = planDeps[j]
        BY <1>3, <1>8
      <3> QED BY <1>2, <1>8, <3>1, JustifiedByReasons, ReasonLasts DEF ResolverInv
    <2>2. Reason(n + 1)'
      <3>1. c \in ItemsOf(planRoots') \cup {planDeps'[j] : j \in 1..((n + 1) - 1)}
        <4>1. ItemsOf(planDeps) \subseteq {planDeps'[j] : j \in 1..n}
          BY <1>8 DEF ItemsOf
        <4>2. (n + 1) - 1 = n
          BY <1>3
        <4> QED BY <1>2, <1>4, <4>1, <4>2 DEF Planned
      <3>2. Because(c, x)'
        <4>1. Refs(c)' = Refs(c) /\ NumberOf(x)' = NumberOf(x)
          BY <1>2 DEF Refs, DepsOf, NumberOf
        <4>2. IsChoice(c, x.of)
          BY <1>5 DEF IsChoice
        <4> QED BY <1>4, <1>5, <1>6, <4>1, <4>2 DEF Because, IsChoice
      <3>3. \A y : y = x => Because(c, y)'
        BY <3>2
      <3> QED BY <1>8, <3>1, <3>3 DEF Reason
    <2>3. \A i \in 1..(n + 1) : i \in 1..n \/ i = n + 1
      BY <1>3
    <2> QED BY <1>8, <2>1, <2>2, <2>3 DEF Justified, Reason, Because
  <1>19. SeenInv'
    <2>1. \A k \in Package : seen'[k] = IF k = ref.key THEN x ELSE seen[k]
      BY <1>2, <1>3, <1>4
    <2>2. \A k \in Package : seen'[k] # None => seen'[k] \in ItemsOf(planDeps') /\ seen'[k].key = k
      BY <1>3, <1>5, <1>8, <2>1 DEF SeenInv
    <2>3. ASSUME NEW i \in 1..(n + 1) PROVE seen'[planDeps'[i].key] = planDeps'[i]
      <3>1. CASE i = n + 1
        BY <1>4, <1>5, <1>8, <2>1, <3>1
      <3>2. CASE i # n + 1
        <4>1. i \in 1..n
          BY <1>3, <3>2
        <4>2. planDeps[i] \in Item
          BY <1>1, <1>3, <4>1, ElementOfSeq
        <4>3. planDeps[i].key \in Package
          BY <4>2 DEF Item
        <4> QED BY <1>3, <1>8, <1>16, <2>1, <4>1, <4>3 DEF SeenInv
      <3> QED BY <3>1, <3>2
    <2> QED BY <1>8, <2>2, <2>3 DEF SeenInv
  <1>20. \A p \in Planned' : InIndex(p)'
    BY <1>2, <1>6, <1>9 DEF ResolverInv, InIndex
  <1>21. FrameInv(f)'
    <2>1. Len(DepsOf(x)) \in Nat /\ DepsOf(x)' = DepsOf(x)
      BY <1>2, <1>3, <1>6, IndexTypes, LenProperties DEF DepsOf
    <2>2. 1 \in 1..(Len(DepsOf(x)) + 1) /\ 1..(1 - 1) = {}
      BY <2>1
    <2> QED BY <1>9, <1>13, <2>1, <2>2 DEF FrameInv
  <1>22. \A i \in DOMAIN stack' : FrameInv(stack[i])'
    <2> SUFFICES ASSUME NEW i \in 1..(d + 1) PROVE FrameInv(stack[i])'
      BY <1>14
    <2>1. CASE i = d + 1
      BY <1>14, <1>21, <2>1
    <2>2. CASE i # d + 1
      <3>1. i \in 1..d
        BY <1>4, <2>2
      <3> QED BY <1>11, <1>14, <3>1
    <2> QED BY <2>1, <2>2
  <1>23. \A p \in Planned' : AtWork(p)' \/ Settled(p)'
    <2> SUFFICES ASSUME NEW p \in Planned' PROVE AtWork(p)' \/ Settled(p)'
      OBVIOUS
    <2>1. CASE p = x
      <3>1. d + 1 \in DOMAIN stack' /\ stack'[d + 1].item = p
        BY <1>4, <1>13, <1>14, <2>1
      <3> QED BY <3>1 DEF AtWork
    <2>2. CASE p \in Planned
      <3>1. CASE AtWork(p)
        <4>1. PICK i \in 1..d : stack[i].item = p
          BY <1>4, <3>1 DEF AtWork
        <4>2. i \in DOMAIN stack' /\ stack'[i].item = p
          BY <1>4, <1>11, <1>14, <4>1
        <4> QED BY <4>2 DEF AtWork
      <3>2. CASE Settled(p)
        BY <1>2, <1>8, <3>2, SettledLasts
      <3> QED BY <2>2, <3>1, <3>2 DEF ResolverInv
    <2> QED BY <1>9, <2>1, <2>2
  <1> QED BY <1>2, <1>15, <1>17, <1>18, <1>19, <1>20, <1>22, <1>23 DEF ResolverInv

\* Every step keeps the invariant.
LEMMA ResolverInductive == ResolverInv /\ [Next]_vars => ResolverInv'
PROOF
  <1> SUFFICES ASSUME ResolverInv, [Next]_vars PROVE ResolverInv'
    OBVIOUS
  <1>1. CASE TakeRoot
    BY <1>1, TakeRootKeeps
  <1>2. CASE RootMissing \/ BadReference \/ DependencyMissing
    BY <1>2, FailKeeps DEF RootMissing, BadReference, DependencyMissing
  <1>3. CASE Finish
    BY <1>3, FinishKeeps
  <1>4. CASE Satisfied
    BY <1>4, SatisfiedKeeps
  <1>5. CASE Repeated
    BY <1>5, RepeatedKeeps
  <1>6. CASE TakeDependency
    BY <1>6, TakeDependencyKeeps
  <1>7. CASE Return
    BY <1>7, ReturnKeeps
  <1>8. CASE UNCHANGED vars
    <2>1. /\ UNCHANGED <<index, roots, nextRoot, planRoots, planDeps, warned, seen, stack, result>>
      BY <1>8 DEF vars, arguments
    <2>2. TypeOK' /\ Depth' = Depth
      BY <2>1 DEF ResolverInv, TypeOK, Depth
    <2>3. OncePerPackage'
      BY <2>1, <2>2, ListsKeep DEF ResolverInv, OncePerPackage
    <2>4. \A i \in DOMAIN stack' : FrameInv(stack[i])'
      <3> SUFFICES ASSUME NEW i \in DOMAIN stack PROVE FrameInv(stack[i])'
        BY <2>1
      <3>1. PICK f : f = stack[i]
        OBVIOUS
      <3>2. FrameInv(f)'
        BY <2>1, <3>1, FrameLasts DEF ResolverInv
      <3> QED BY <2>1, <3>1, <3>2
    <2>5. \A c \in Planned' : AtWork(c)' \/ Settled(c)'
      <3> SUFFICES ASSUME NEW c \in Planned PROVE AtWork(c)' \/ Settled(c)'
        BY <2>1, ListsKeep
      <3>1. AtWork(c) => AtWork(c)'
        BY <2>1 DEF AtWork
      <3> QED BY <2>1, <3>1, SettledLasts DEF ResolverInv
    <2> QED BY <2>1, <2>2, <2>3, <2>4, <2>5, ListsKeep DEF ResolverInv
  <1> QED BY <1>1, <1>2, <1>3, <1>4, <1>5, <1>6, <1>7, <1>8 DEF Next

LEMMA ResolverAlways == Spec => []ResolverInv
PROOF BY ResolverInit, ResolverInductive, PTL DEF Spec

-------------------------------------------------------------------------------
(* What the runs check.                                                    *)

\* Every variable keeps its type: the positions that Resolve lists are listed in
\* the index, whatever it says of the versions.
THEOREM ResolverTypeCorrect == Spec => []TypeOK
PROOF
  <1>1. ResolverInv => TypeOK
    BY DEF ResolverInv
  <1> QED BY <1>1, ResolverAlways, PTL

\* No cycle and no diamond lists a package twice, and none makes the recursion
\* deeper than the dependencies that are listed.
THEOREM ListedOnce == Spec => []OncePerPackage
PROOF
  <1>1. ResolverInv => OncePerPackage
    BY DEF ResolverInv
  <1> QED BY <1>1, ResolverAlways, PTL

\* Nothing is listed that no listed version declares.
THEOREM NothingUnasked == Spec => []Justified
PROOF
  <1>1. ResolverInv => Justified
    BY DEF ResolverInv
  <1> QED BY <1>1, ResolverAlways, PTL

\* With the plan returned, every listed item is settled.
LEMMA PlanSettled ==
  ASSUME ResolverInv, result = "plan", NEW c \in Planned
  PROVE  Settled(c)
PROOF
  <1>1. stack = <<>>
    BY DEF ResolverInv
  <1>2. ~ AtWork(c)
    BY <1>1 DEF AtWork
  <1> QED BY <1>2 DEF ResolverInv

\* A plan has all that its versions declare, whatever the order of the calls.
THEOREM PlansAreClosed == Spec => []Closed
PROOF
  <1>1. ResolverInv => Closed
    BY PlanSettled DEF Closed, Settled, Handled
  <1> QED BY <1>1, ResolverAlways, PTL

\* A plan that has an older version than a listed one declares says so.
THEOREM OlderNeverSilent == Spec => []OlderIsWarned
PROOF
  <1>1. ResolverInv => OlderIsWarned
    <2> SUFFICES ASSUME ResolverInv, result = "plan", NEW c \in Planned, NEW ref \in Refs(c),
                        \/ ref.key = Ambient
                        \/ \E d \in ItemsOf(planDeps) : d.key = ref.key /\ Older(NumberOf(d), ref.number)
                 PROVE  Warns(c, ref)
      BY DEF OlderIsWarned, Warns
    <2>1. Handled(c, ref)
      BY PlanSettled DEF Settled
    <2>2. CASE ref.key = Ambient
      BY <2>1, <2>2 DEF Handled
    <2>3. CASE ref.key # Ambient
      <3>1. PICK d \in ItemsOf(planDeps) : d.key = ref.key /\ Older(NumberOf(d), ref.number)
        BY <2>3
      <3>2. PICK e \in ItemsOf(planDeps) : e.key = ref.key /\ (Older(NumberOf(e), ref.number) => Warns(c, ref))
        BY <2>1, <2>3 DEF Handled
      <3>3. d = e
        BY <3>1, <3>2 DEF ResolverInv, OncePerPackage, ItemsOf
      <3> QED BY <3>1, <3>2, <3>3
    <2> QED BY <2>2, <2>3
  <1> QED BY <1>1, ResolverAlways, PTL
===============================================================================
