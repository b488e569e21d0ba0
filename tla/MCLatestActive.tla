---------------------------- MODULE MCLatestActive ----------------------------
(***************************************************************************)
(* Packages of up to three versions: numbers that differ in one part each, *)
(* with a part of two digits, and one that does not parse.                 *)
(***************************************************************************)
EXTENDS LatestActive

Numbers == {<<0, 9, 0>>, <<0, 10, 0>>, <<1, 0, 0>>, <<1, 0, 1>>, <<1, 0>>, <<1, Malformed, 0>>}

MCListings ==
  UNION {[1..n -> [number : Numbers, active : BOOLEAN]] : n \in 0..3}
===============================================================================
