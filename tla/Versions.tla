------------------------------- MODULE Versions -------------------------------
(***************************************************************************)
(* Version numbers and their order (internal/thunderstore/semver.go), and  *)
(* the version of a package that a request selects (client.go).            *)
(*                                                                         *)
(* A version number is the sequence of its parts; Malformed stands for a   *)
(* part that strconv.Atoi rejects or that is negative; two spellings of    *)
(* one number (01.0.0 and 1.0.0) are not told apart.  A package is the     *)
(* sequence of its versions, in the order the index lists them.            *)
(***************************************************************************)
EXTENDS Naturals, Sequences

CONSTANT Malformed

ASSUME MalformedAssumption == Malformed \notin Nat

Number == Seq(Nat \cup {Malformed})
Release == [number : Number, active : BOOLEAN]
Listing == Seq(Release)

\* parseVersion accepts three parts that are numbers.
Parses(n) == Len(n) = 3 /\ \A i \in 1..3 : n[i] \in Nat

\* CompareVersions(m, n) > 0, for numbers that parse.
Newer(m, n) ==
  \/ m[1] > n[1]
  \/ m[1] = n[1] /\ m[2] > n[2]
  \/ m[1] = n[1] /\ m[2] = n[2] /\ m[3] > n[3]

\* CompareVersions(m, n) < 0.
Older(m, n) == Newer(n, m)

Active(vs) == {i \in DOMAIN vs : vs[i].active}

\* LatestActive compares only when it has two versions to compare: a package
\* whose one active version is malformed is served, any other one is an error.
LatestFails(vs) ==
  \E i, j \in Active(vs) : i # j /\ ~ Parses(vs[i].number)

\* The position LatestActive returns: of the newest versions, the one listed first.
IsLatest(vs, i) ==
  /\ i \in Active(vs)
  /\ \A j \in Active(vs) \ {i} :
       /\ ~ Newer(vs[j].number, vs[i].number)
       /\ j < i => Newer(vs[i].number, vs[j].number)
Latest(vs) == CHOOSE i \in DOMAIN vs : IsLatest(vs, i)

\* The position FindVersion returns for a number: the first active listing.
IsListed(vs, n, i) ==
  /\ i \in Active(vs) /\ vs[i].number = n
  /\ \A j \in Active(vs) : vs[j].number = n => i <= j
Listed(vs, n) == CHOOSE i \in DOMAIN vs : IsListed(vs, n, i)
===============================================================================
