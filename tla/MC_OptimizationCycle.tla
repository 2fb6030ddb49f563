------------------------ MODULE MC_OptimizationCycle ------------------------
(* Model-checking instance of OptimizationCycle: waiter threads are model  *)
(* values; each cfg picks the event kinds dispatched and whether the       *)
(* trigger is periodic.                                                    *)
EXTENDS OptimizationCycle, TLC

CONSTANTS w1, w2

OneWaiter  == {w1}
TwoWaiters == {w1, w2}

\* Every kind that reaches a handler; ABORT ends the process first.
DispatchedAll == Events \ {BBQ_ABORT}

\* Only platform events.
DispatchedPlat == {BBQ_PLAT}

=============================================================================
