-------------------------- MODULE PlatformLifecycle --------------------------
(***************************************************************************)
(* The platform side of the life of ResourceManager                       *)
(* (src/bbque/resource_manager.cc Setup, Go, EvtBbqExit) composed with the *)
(* NVML platform proxy that PlatformManager drives: Setup loads the        *)
(* platform data, Go runs the control loop only if Setup succeeded,       *)
(* Optimize calls the proxy while the loop runs, and EvtBbqExit calls      *)
(* plm.Exit().  The configuration, the binding domains and the platform    *)
(* manager's own start are collaborators whose outcome is chosen           *)
(* nondeterministically.                                                   *)
(***************************************************************************)
EXTENDS NVMLProxy

VARIABLES
  rm_phase,       \* "setup", "failed" (Go returned SETUP_FAILED), "running"
                  \* (Go is in its loop) or "exited" (EvtBbqExit ran)
  opt_periodic    \* opt_interval # 0: optimize_dfr.SetPeriodic was called

vars == <<rm_phase, opt_periodic, pp_vars>>

Init ==
  /\ rm_phase = "setup"
  /\ opt_periodic = FALSE
  /\ PPInit

\* Setup: LoadPlatformConfig, LoadPlatformData and LoadBindingDomains, each
\* of which may fail and make Go return SETUP_FAILED; then plm.Start() and
\* SetPeriodic when the configured opt_interval is not zero.
Setup ==
  /\ rm_phase = "setup"
  /\ \/ /\ rm_phase' = "failed"
        /\ UNCHANGED <<opt_periodic, pp_vars>>
     \/ /\ LoadPlatformData
        /\ \/ /\ pp_pc' = "failed"
              /\ rm_phase' = "failed"
              /\ UNCHANGED opt_periodic
           \/ /\ pp_pc' = "loaded"
              /\ rm_phase' = "failed"
              /\ UNCHANGED opt_periodic
           \/ /\ pp_pc' = "loaded"
              /\ rm_phase' = "running"
              /\ opt_periodic' \in BOOLEAN

\* While the loop runs, Optimize calls Refresh, MapResources, Release and
\* ReclaimResources on the platform.
PlatformCall ==
  /\ rm_phase = "running"
  /\ NoOpCall
  /\ UNCHANGED <<rm_phase, opt_periodic>>

\* EvtBbqExit: after stopping the applications, plm.Exit().
PlatformExit ==
  /\ rm_phase = "running"
  /\ Exit
  /\ rm_phase' = "exited"
  /\ UNCHANGED opt_periodic

Next == Setup \/ PlatformCall \/ PlatformExit

\* Go returns after a failed Setup and after EXIT; nothing follows.
Spec == Init /\ [][Next]_vars
=============================================================================
