----------------------------- MODULE MCSyncStream -----------------------------
(* One press over a connection that may break or never open, with room in  *)
(* the channel for every event of the plan; and two presses over a sound   *)
(* connection, with a channel smaller than the plan.                       *)
EXTENDS SyncStream

MCSettings ==
  {[presses |-> 1, cap |-> 10, window |-> 2, lossy |-> TRUE],
   [presses |-> 2, cap |-> 1, window |-> 1, lossy |-> FALSE]}
===============================================================================
