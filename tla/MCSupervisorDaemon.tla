-------------------------- MODULE MCSupervisorDaemon --------------------------
(* Finite instances of SupervisorDaemon.                                       *)
EXTENDS SupervisorDaemon, TLC

CONSTANTS a, b, a1, a2, b1

\* Two names, and a second record for the first: what a client gets when it
\* adds a worker again after removing it.
Names == a1 :> a @@ a2 :> a @@ b1 :> b

\* One worker.
Single == a1 :> a

Symmetric == Permutations(Child)
=============================================================================
