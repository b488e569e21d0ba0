----------------------------- MODULE MCSyncRounds -----------------------------
(***************************************************************************)
(* A needs the first release of B, and its second release one of C as      *)
(* well.  The releases B 2 and C 1 need each other, so B is needed at two  *)
(* versions, and whether a plan meets B 2, which may not be published,     *)
(* depends on what it meets first.  B 2 ships one file more than B 1,      *)
(* which C 2 ships too; that one has a version number that does not parse. *)
(***************************************************************************)
EXTENDS SyncRounds, TLC

CONSTANTS A, B, C, a, b, c, x

MCRequires ==
  [v \in Version |-> CASE v = <<A, 1>> -> {<<B, 1>>}
                       [] v = <<A, 2>> -> {<<B, 1>>, <<C, 1>>}
                       [] v = <<B, 2>> -> {<<C, 1>>}
                       [] v = <<C, 1>> -> {<<B, 2>>}
                       [] OTHER -> {}]
MCShips ==
  [v \in Version |-> CASE v[1] = A -> {a}
                       [] v = <<B, 1>> -> {b}
                       [] v = <<B, 2>> -> {b, x}
                       [] v = <<C, 1>> -> {c}
                       [] OTHER -> {c, x}]
MCBroken == {<<C, 2>>}
===============================================================================
