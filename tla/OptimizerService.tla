--------------------------- MODULE OptimizerService ---------------------------
(***************************************************************************)
(* What the optimization side of ResourceManager promises to the rest of   *)
(* the system, stated without the steps of Optimize:                       *)
(*  - optimization requests are coalesced into one pending trigger;        *)
(*  - at most one optimization cycle runs at a time, and a cycle starts    *)
(*    only from a pending request, consuming it;                           *)
(*  - a thread in WaitForReady returns only while no cycle runs;           *)
(*  - every pending request is eventually served and every cycle ends.     *)
(* OptimizationCycle implements it (ImplementsOptimizerService).          *)
(***************************************************************************)
CONSTANTS
  Waiters,     \* threads of other subsystems that call WaitForReady
  Periodic     \* a finished cycle re-arms the trigger

VARIABLES
  pending,     \* a request for an optimization is outstanding
  optimizing,  \* an optimization cycle is in progress
  waiting      \* which waiters are inside WaitForReady

svc_vars == <<pending, optimizing, waiting>>

SvcInit ==
  /\ pending = Periodic
  /\ optimizing = FALSE
  /\ waiting = {}

\* Some handler asks for an optimization; a pending one absorbs it.
Request ==
  /\ pending' = TRUE
  /\ UNCHANGED <<optimizing, waiting>>

\* A cycle starts, consuming the pending request.
Begin ==
  /\ pending /\ ~optimizing
  /\ optimizing' = TRUE
  /\ pending' = FALSE
  /\ UNCHANGED waiting

\* The cycle ends; a periodic trigger asks for the next one.
Finish ==
  /\ optimizing
  /\ optimizing' = FALSE
  /\ pending' = (pending \/ Periodic)
  /\ UNCHANGED waiting

Enter(w) ==
  /\ w \notin waiting
  /\ waiting' = waiting \cup {w}
  /\ UNCHANGED <<pending, optimizing>>

\* WaitForReady returns only between cycles.
Return(w) ==
  /\ w \in waiting /\ ~optimizing
  /\ waiting' = waiting \ {w}
  /\ UNCHANGED <<pending, optimizing>>

SvcNext ==
  \/ Request \/ Begin \/ Finish
  \/ \E w \in Waiters : Enter(w) \/ Return(w)

SvcSpec ==
  SvcInit /\ [][SvcNext]_svc_vars /\ WF_svc_vars(Begin) /\ WF_svc_vars(Finish)
=============================================================================
