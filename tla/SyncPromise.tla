------------------------------ MODULE SyncPromise ------------------------------
(***************************************************************************)
(* What Engine.Apply (internal/sync/engine.go:52) promises its caller.     *)
(* A sync that returns without an error has put every package of its plan  *)
(* in the saved manifest at the version the plan ends with, in one step,   *)
(* and has kept the others; one that fails or dies has changed nothing.    *)
(***************************************************************************)
EXTENDS Naturals, Sequences

CONSTANTS Session, Package, Version, PackageOf, Plans, None

VARIABLES
  installed,    \* the version of each package, as the saved manifest has it
  status,       \* "busy" while a sync runs, then how it ended
  plan          \* the plan of each sync that is busy

vars == <<installed, status, plan>>

Positions(p, k) == {i \in DOMAIN p : PackageOf[p[i]] = k}

\* What the plan p makes of the installed versions: the last listing wins.
AfterPlan(was, p) ==
  [k \in Package |->
     IF Positions(p, k) = {} THEN was[k]
     ELSE p[CHOOSE i \in Positions(p, k) : \A j \in Positions(p, k) : j <= i]]

Init ==
  /\ installed = [k \in Package |-> None]
  /\ status = [s \in Session |-> "idle"]
  /\ plan = [s \in Session |-> <<>>]

Start(s) ==
  /\ status[s] # "busy"
  /\ \E p \in Plans : plan' = [plan EXCEPT ![s] = p]
  /\ status' = [status EXCEPT ![s] = "busy"]
  /\ UNCHANGED installed

End(s, result) ==
  /\ status' = [status EXCEPT ![s] = result]
  /\ plan' = [plan EXCEPT ![s] = <<>>]

Succeed(s) ==
  /\ status[s] = "busy"
  /\ installed' = AfterPlan(installed, plan[s])
  /\ End(s, "done")

Fail(s) ==
  /\ status[s] = "busy"
  /\ End(s, "failed")
  /\ UNCHANGED installed

\* The process dies, and every sync with it.
Die ==
  /\ status' = [s \in Session |-> "idle"]
  /\ plan' = [s \in Session |-> <<>>]
  /\ UNCHANGED installed

Next == Die \/ \E s \in Session : Start(s) \/ Succeed(s) \/ Fail(s)

Spec == Init /\ [][Next]_vars
================================================================================
