------------------------- MODULE MC_WorkerRegistry -------------------------
(* Model-checking instance of WorkerRegistry: workers are model values.    *)
EXTENDS WorkerRegistry, TLC

CONSTANTS k1, k2, k3

\* Two responsive workers and one that ignores Terminate.
ThreeWorkers   == {k1, k2, k3}
OneHung        == {k3}
=============================================================================
