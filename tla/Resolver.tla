------------------------------- MODULE Resolver -------------------------------
(***************************************************************************)
(* resolve.Resolve (internal/resolve/resolver.go): from the tracked roots  *)
(* and the Thunderstore index, the versions to install.  The recursion of  *)
(* resolveDependencies is an explicit stack, one frame per call.           *)
(***************************************************************************)
EXTENDS Versions

CONSTANTS
  Package,    \* Namespace-Name keys
  Ambient,    \* denikson-BepInExPack_Valheim, which the server image brings
  Indexes,    \* the indexes it may be given: the versions of each package
  RootLists,  \* the lists of tracked packages it is asked to resolve
  Newest,     \* a desired version that is "latest" or empty
  None

Reference == [key : Package, number : Number]
Offer     == [number : Number, active : BOOLEAN, deps : Seq(Reference)]
Root      == [key : Package, desired : Number \cup {Newest}]
Chosen    == [key : Package, pos : Nat \ {0}]
Item      == [key : Package, pos : Nat \ {0}, of : Chosen \cup {None}]
Frame     == [item : Item, at : Nat]

ASSUME IndexAssumption ==
  /\ \A x \in Indexes : DOMAIN x \subseteq Package /\ \A k \in DOMAIN x : x[k] \in Seq(Offer)
  /\ RootLists \subseteq Seq(Root)
  /\ Newest \notin Number /\ None \notin Chosen /\ None \notin Item

VARIABLES
  index,     \* the arguments: the Thunderstore index
  roots,     \* and the tracked packages
  nextRoot,  \* the position the loop over roots is at
  planRoots, \* plan.Roots
  planDeps,  \* plan.Dependencies
  warned,    \* plan.Warnings: who declared what
  seen,      \* the dependency selected for each package
  stack,     \* the calls of resolveDependencies, the innermost last
  result     \* "resolving", then "plan" or "error"

arguments == <<index, roots>>
vars == <<arguments, nextRoot, planRoots, planDeps, warned, seen, stack, result>>

-------------------------------------------------------------------------------
NumberOf(c) == index[c.key][c.pos].number
DepsOf(c)   == index[c.key][c.pos].deps
Call(i)     == [item |-> i, at |-> 1]

\* FindVersion for a root, a number or "latest".
RootFound(r) ==
  /\ r.key \in DOMAIN index
  /\ IF r.desired = Newest
     THEN Active(index[r.key]) # {} /\ ~ LatestFails(index[r.key])
     ELSE \E i \in DOMAIN index[r.key] : IsListed(index[r.key], r.desired, i)

RootPos_ZeroBased(r) ==
  IF r.desired = Newest THEN Latest(index[r.key]) - 1 ELSE Listed(index[r.key], r.desired) - 1

RootPos(r) ==
  IF r.desired = Newest THEN Latest(index[r.key]) ELSE Listed(index[r.key], r.desired)

\* The same for a dependency, which always names a number.
RefFound(ref) ==
  /\ ref.key \in DOMAIN index
  /\ \E i \in DOMAIN index[ref.key] : IsListed(index[ref.key], ref.number, i)

Init ==
  /\ index \in Indexes /\ roots \in RootLists
  /\ nextRoot = 1
  /\ planRoots = <<>> /\ planDeps = <<>> /\ warned = {}
  /\ seen = [k \in Package |-> None]
  /\ stack = <<>>
  /\ result = "resolving"

\* Any error returns an empty plan.
Fail ==
  /\ result' = "error"
  /\ planRoots' = <<>> /\ planDeps' = <<>> /\ warned' = {}
  /\ stack' = <<>>
  /\ UNCHANGED <<arguments, nextRoot, seen>>

-------------------------------------------------------------------------------
(* Resolve: the loop over the roots.                                       *)

BetweenRoots == result = "resolving" /\ stack = <<>>

TakeRoot ==
  /\ BetweenRoots /\ nextRoot <= Len(roots)
  /\ LET r == roots[nextRoot]
         i == [key |-> r.key, pos |-> RootPos(r), of |-> None] IN
       /\ RootFound(r)
       /\ planRoots' = Append(planRoots, i)
       /\ stack' = <<Call(i)>>
  /\ nextRoot' = nextRoot + 1
  /\ UNCHANGED <<arguments, planDeps, warned, seen, result>>

\* Not in the index, no such active version, or versions that do not compare.
RootMissing ==
  /\ BetweenRoots /\ nextRoot <= Len(roots)
  /\ ~ RootFound(roots[nextRoot])
  /\ Fail

Finish ==
  /\ BetweenRoots /\ nextRoot > Len(roots)
  /\ result' = "plan"
  /\ UNCHANGED <<arguments, nextRoot, planRoots, planDeps, warned, seen, stack>>

-------------------------------------------------------------------------------
(* resolveDependencies: one pass of its loop.                              *)

InCall  == result = "resolving" /\ stack # <<>>
Depth   == Len(stack)
Parent  == stack[Depth].item
AtRef   == InCall /\ stack[Depth].at <= Len(DepsOf(Parent))
Ref     == DepsOf(Parent)[stack[Depth].at]
Warning == [by |-> [key |-> Parent.key, pos |-> Parent.pos], ref |-> Ref]
Advanced == [stack EXCEPT ![Depth].at = @ + 1]

\* ParseDependency fails: too few parts, or a version that does not parse.
BadReference ==
  /\ AtRef /\ ~ Parses(Ref.number)
  /\ Fail

Satisfied_Returns ==
  /\ AtRef /\ Parses(Ref.number)
  /\ Ref.key = Ambient
  /\ warned' = warned \cup {Warning}
  /\ stack' = SubSeq(stack, 1, Depth - 1)
  /\ UNCHANGED <<arguments, nextRoot, planRoots, planDeps, seen, result>>

\* The BepInEx pack: a warning, and on to the next dependency.
Satisfied ==
  /\ AtRef /\ Parses(Ref.number)
  /\ Ref.key = Ambient
  /\ warned' = warned \cup {Warning}
  /\ stack' = Advanced
  /\ UNCHANGED <<arguments, nextRoot, planRoots, planDeps, seen, result>>

Repeated_Flipped ==
  /\ AtRef /\ Parses(Ref.number)
  /\ Ref.key # Ambient /\ seen[Ref.key] # None
  /\ warned' = IF Newer(NumberOf(seen[Ref.key]), Ref.number)
               THEN warned \cup {Warning} ELSE warned
  /\ stack' = Advanced
  /\ UNCHANGED <<arguments, nextRoot, planRoots, planDeps, seen, result>>

Repeated_Stays ==
  /\ AtRef /\ Parses(Ref.number)
  /\ Ref.key # Ambient /\ seen[Ref.key] # None
  /\ warned' = IF Older(NumberOf(seen[Ref.key]), Ref.number)
               THEN warned \cup {Warning} ELSE warned
  /\ UNCHANGED <<arguments, nextRoot, planRoots, planDeps, seen, stack, result>>

\* Selected before: the first choice stays, with a warning when it is older.
\* The error path of CompareVersions is never taken: a selected dependency
\* has the very number of a reference that parsed.
Repeated ==
  /\ AtRef /\ Parses(Ref.number)
  /\ Ref.key # Ambient /\ seen[Ref.key] # None
  /\ warned' = IF Older(NumberOf(seen[Ref.key]), Ref.number)
               THEN warned \cup {Warning} ELSE warned
  /\ stack' = Advanced
  /\ UNCHANGED <<arguments, nextRoot, planRoots, planDeps, seen, result>>

DependencyMissing ==
  /\ AtRef /\ Parses(Ref.number)
  /\ Ref.key # Ambient /\ seen[Ref.key] = None
  /\ ~ RefFound(Ref)
  /\ Fail

Selected_Latest ==
  [key |-> Ref.key, pos |-> Latest(index[Ref.key]),
   of |-> [key |-> Parent.key, pos |-> Parent.pos]]

\* The version a dependency names, required by the caller.
Selected ==
  [key |-> Ref.key, pos |-> Listed(index[Ref.key], Ref.number),
   of |-> [key |-> Parent.key, pos |-> Parent.pos]]

TakeDependency_MarksParent ==
  /\ AtRef /\ Parses(Ref.number)
  /\ Ref.key # Ambient /\ seen[Ref.key] = None
  /\ RefFound(Ref)
  /\ planDeps' = Append(planDeps, Selected)
  /\ stack' = Append(Advanced, Call(Selected))
  /\ seen' = [seen EXCEPT ![Parent.key] = Parent]
  /\ UNCHANGED <<arguments, nextRoot, planRoots, warned, result>>

TakeDependency ==
  /\ AtRef /\ Parses(Ref.number)
  /\ Ref.key # Ambient /\ seen[Ref.key] = None
  /\ RefFound(Ref)
  /\ seen' = [seen EXCEPT ![Ref.key] = Selected]
  /\ planDeps' = Append(planDeps, Selected)
  /\ stack' = Append(Advanced, Call(Selected))
  /\ UNCHANGED <<arguments, nextRoot, planRoots, warned, result>>

Return ==
  /\ InCall /\ ~ AtRef
  /\ stack' = SubSeq(stack, 1, Depth - 1)
  /\ UNCHANGED <<arguments, nextRoot, planRoots, planDeps, warned, seen, result>>

Next ==
  \/ TakeRoot \/ RootMissing \/ Finish
  \/ BadReference \/ Satisfied \/ Repeated \/ DependencyMissing \/ TakeDependency \/ Return

Spec == Init /\ [][Next]_vars

\* Resolve is sequential code that never waits: it goes on while it can.
FairSpec == Spec /\ WF_vars(Next)

-------------------------------------------------------------------------------
(* Properties.                                                             *)

ItemsOf(q)   == {q[i] : i \in DOMAIN q}
Planned      == ItemsOf(planRoots) \cup ItemsOf(planDeps)
Refs(c)      == ItemsOf(DepsOf(c))
IsChoice(c, i) == c.key = i.key /\ c.pos = i.pos

\* Every variable has its type.
TypeOK ==
  /\ index \in Indexes /\ roots \in RootLists
  /\ nextRoot \in Nat \ {0}
  /\ planRoots \in Seq(Item) /\ planDeps \in Seq(Item)
  /\ warned \subseteq [by : Chosen, ref : Reference]
  /\ seen \in [Package -> Item \cup {None}]
  /\ stack \in Seq(Frame)
  /\ result \in {"resolving", "plan", "error"}

\* No package is listed twice among the dependencies, whatever the cycles and
\* diamonds of the graph, so the call stack is no deeper than the graph is wide.
OncePerPackage ==
  /\ \A i, j \in DOMAIN planDeps : planDeps[i].key = planDeps[j].key => i = j
  /\ Depth <= 1 + Len(planDeps)

\* A finished plan is closed: what a listed version declares is listed as a
\* dependency, or is the BepInEx pack.
Closed ==
  result = "plan" =>
    \A c \in Planned : \A ref \in Refs(c) :
      ref.key = Ambient \/ \E d \in ItemsOf(planDeps) : d.key = ref.key

\* Nothing is listed without a reason: each dependency has a parent that is
\* listed before it and declares exactly its version.
Justified ==
  \A i \in DOMAIN planDeps :
    \E c \in ItemsOf(planRoots) \cup {planDeps[j] : j \in 1..(i - 1)} :
      /\ IsChoice(c, planDeps[i].of)
      /\ \E ref \in Refs(c) :
           ref.key = planDeps[i].key /\ ref.number = NumberOf(planDeps[i])

\* When a finished plan has an older version of a dependency than some listed
\* version declares, a warning says so; so it does for the BepInEx pack.
OlderIsWarned ==
  result = "plan" =>
    \A c \in Planned : \A ref \in Refs(c) :
      (\/ ref.key = Ambient
       \/ \E d \in ItemsOf(planDeps) : d.key = ref.key /\ Older(NumberOf(d), ref.number))
      => [by |-> [key |-> c.key, pos |-> c.pos], ref |-> ref] \in warned

\* Resolve ends on every graph, cyclic ones included.
Ends == <>(result # "resolving")
===============================================================================
