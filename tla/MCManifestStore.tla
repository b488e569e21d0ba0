---------------------------- MODULE MCManifestStore ----------------------------
(* One package tracked, untracked and installed by three clients at once.   *)
EXTENDS ManifestStore, TLC

CONSTANTS mod, v1

MCOps == {[kind |-> "track", mod |-> mod, release |-> v1],
          [kind |-> "untrack", mod |-> mod, release |-> Latest],
          [kind |-> "sync", mod |-> mod, release |-> v1]}

Clients == Permutations(Client)
===============================================================================
