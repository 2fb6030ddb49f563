----------------------------- MODULE Deferrable -----------------------------
(***************************************************************************)
(* The debounced trigger bbque::utils::Deferrable that ResourceManager     *)
(* uses as optimize_dfr (src/include/bbque/resource_manager.h:316).  Its   *)
(* implementation is not among the sources, so it is modelled from the     *)
(* specification (section 4.2): one pending deadline bound to one action;  *)
(* re-arming before expiry supersedes the previous deadline, at expiry the *)
(* action runs once on the trigger's own thread, and SetPeriodic re-arms   *)
(* after each execution.  Time is abstracted away: an armed trigger may    *)
(* expire at any later step, so the delay of Schedule(ms) only changes     *)
(* which interleavings are likely, never which are possible.              *)
(***************************************************************************)
CONSTANT Periodic       \* SetPeriodic(opt_interval) was called in Setup

VARIABLE dfr_armed      \* a deadline is pending

DfrInit == dfr_armed = Periodic

\* Schedule() / Schedule(delay): arm, or re-arm, the single pending deadline.
Schedule == dfr_armed' = TRUE

\* The deadline expires: the bound action starts and the trigger is idle.
Fire == dfr_armed /\ dfr_armed' = FALSE

\* The bound action returns; a periodic trigger arms its next deadline.
Complete == dfr_armed' = (dfr_armed \/ Periodic)
=============================================================================
