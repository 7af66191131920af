--------------------------- MODULE MCWorkerRuntime ---------------------------
(* Finite instances of WorkerRuntime.                                      *)
EXTENDS WorkerRuntime

CONSTANTS w1, x, y, j1, j2

\* The plugin registers one worker of capacity one.  The runtime allows more:
\* with two, two dispatches run side by side.
OneWorkerCapacity == w1 :> 1
TwoSlots          == w1 :> 2
OneWorkerTypes    == w1 :> {x}
OneWorkerBoth     == w1 :> {x, y}

JobTypes == j1 :> x @@ j2 :> y

\* What reconcile may find: both types, or y only.
Demands   == {{x, y}, {y}}
NoDemand  == {}

Symmetric == Permutations(Token) \cup Permutations(Fiber)
=============================================================================
