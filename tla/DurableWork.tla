---------------------------- MODULE DurableWork ----------------------------
(***************************************************************************)
(* What the checkpoints of a task promise: as long as the task is open,    *)
(* work that was ever saved outside a workspace stays recoverable, no      *)
(* matter which activations stop, fail or race.  A task that is not open   *)
(* may forget work.                                                        *)
(***************************************************************************)
VARIABLES held,   \* units of work some remote ref or branch holds
          open    \* the task's process is not finished

Init == held = {} /\ open = TRUE

Save == held \subseteq held' /\ open' \in BOOLEAN
Forget == ~open /\ open' \in BOOLEAN

Next == Save \/ Forget
Spec == Init /\ [][Next]_<<held, open>>
=============================================================================
