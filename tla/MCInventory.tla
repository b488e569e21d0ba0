------------------------------ MODULE MCInventory ------------------------------
(* Package A in two versions, the second with a config more, and package B  *)
(* that ships a config of that name.                                       *)
EXTENDS Inventory

CONSTANTS A, B, A1, A2, B1, dll, cfg

File(p) == [kind |-> "file", path |-> p]

MCPackage   == {A, B}
MCVersion   == {A1, A2, B1}
MCPath      == {dll, cfg}
MCPackageOf == [v \in MCVersion |-> IF v = B1 THEN B ELSE A]
MCArchive   == [v \in MCVersion |-> CASE v = A1 -> <<File(dll)>>
                                      [] v = A2 -> <<File(cfg), File(dll)>>
                                      [] v = B1 -> <<File(cfg)>>]
MCPlans     == {<<A1>>, <<A2>>, <<A1, B1>>}
===============================================================================
