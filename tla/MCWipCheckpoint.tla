-------------------------- MODULE MCWipCheckpoint --------------------------
(* WipCheckpoint with the numbers of its .cfg files, and the map to what      *)
(* DurableWork promises: the work held by any ref, as long as the process     *)
(* goes on.  It promises nothing of a ref past its TTL, which a sweep may     *)
(* reclaim at any time: MaxAge is 1 where the promise is checked.             *)
EXTENDS WipCheckpoint

Work == INSTANCE DurableWork WITH held <- Held, open <- ~finished

(* No interleaving of activations, aborts, checkpoints, recoveries and sweeps *)
(* loses a unit of work that a ref or the work branch held (agent-checkpoint  *)
(* .mjs), while the task is open.                                             *)
KeepsWork == Work!Spec
=============================================================================
