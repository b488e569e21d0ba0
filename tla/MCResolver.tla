------------------------------ MODULE MCResolver ------------------------------
(***************************************************************************)
(* Every graph of three packages of two versions whose versions declare    *)
(* one of the lists below: chains, diamonds, cycles, packages that need    *)
(* themselves, and two versions of one package.  A fourth package is there *)
(* for the errors.                                                         *)
(***************************************************************************)
EXTENDS Resolver, TLC

CONSTANTS A, B, C, D, Bep

V1  == <<1, 9, 0>>
V2  == <<1, 10, 0>>
Bad == <<1, 0>>

To(k, n) == [key |-> k, number |-> n]
On(n, ds) == [number |-> n, active |-> TRUE, deps |-> ds]
Off(n, ds) == [number |-> n, active |-> FALSE, deps |-> ds]

MCPackage == {A, B, C, D, Bep}

Lists == {<<>>, <<To(B, V1), To(C, V2)>>, <<To(Bep, V1), To(C, V1)>>, <<To(A, V2), To(B, V2)>>}

Graphs ==
  {A :> <<On(V1, a1), On(V2, a2)>> @@ B :> <<On(V2, b2), On(V1, b1)>> @@ C :> <<On(V1, c1), On(V2, <<To(B, V1)>>)>> :
     a1, a2, b1, b2, c1 \in Lists}

\* A package whose only active version does not parse, an inactive version, and
\* a package that needs one that is missing, one inactive and one malformed.
Broken ==
  {A :> <<On(V1, a), Off(V2, <<>>)>> @@ B :> <<On(Bad, <<>>)>> @@ C :> <<On(Bad, <<>>), On(V1, <<>>)>> :
     a \in {<<To(D, V1)>>, <<To(A, V2)>>, <<To(C, V1), To(B, Bad)>>, <<To(Bep, V2), To(C, V1)>>}}

MCIndexes == Graphs \cup Broken

Want(k, d) == [key |-> k, desired |-> d]
MCRootLists ==
  {<<>>, <<Want(A, Newest)>>, <<Want(C, Newest)>>, <<Want(A, V1), Want(B, Newest)>>, <<Want(B, V1), Want(A, V2)>>,
   <<Want(B, Newest), Want(D, V1)>>}
===============================================================================
