-------------------------- MODULE OptimizationCycle --------------------------
(***************************************************************************)
(* The optimization side of ResourceManager (src/bbque/resource_manager.cc):*)
(* what the event handlers do to the trigger optimize_dfr and to           *)
(* plat_event, and Optimize, which optimize_dfr runs on its own thread,    *)
(* gated by the readiness flag.                                            *)
(*                                                                         *)
(* The handlers run on the control loop thread; standing alone, this       *)
(* module lets them run at any step, in any order (ResourceManager puts    *)
(* the real control loop in front of them).  The scheduling policy and the *)
(* synchronization manager are collaborators whose results are chosen     *)
(* nondeterministically; the application manager is the environment.      *)
(***************************************************************************)
EXTENDS ControlEvents

CONSTANTS
  Waiters,      \* threads that call WaitForReady
  Periodic,     \* opt_interval # 0: Setup called optimize_dfr.SetPeriodic
  Dispatched    \* event kinds the control loop hands to their handlers

ASSUME Dispatched \subseteq Events

\* Application states queried by Optimize and EvtExcStart.  The SYNC query
\* of Optimize only selects between calling SyncSchedule and counting an
\* empty schedule, neither of which changes modelled state.
AppStates == {"READY", "RUNNING"}

\* SchedulerManager::ExitCode_t
SchedResults == {"MISSING_POLICY", "FAILED", "DELAYED", "DONE"}

VARIABLES
  plat_event,     \* ResourceManager::plat_event (std::atomic<bool>)
  apps,           \* states in which some application currently is
  opt_pc,         \* where the Deferrable's thread is in Optimize
  active_apps,    \* Optimize's local active_apps
  is_ready,       \* ResourceManager::is_ready
  wait_pc,        \* where each waiter is in WaitForReady
  dfr_armed,      \* optimize_dfr has a pending deadline
  plm_exited,     \* EvtBbqExit has called plm.Exit()
  \* history variables, used only by the properties
  plat_unserved,  \* a BBQ_PLAT was handled and no scheduling ran since
  opt_owed        \* an event needing an optimization was handled since
                  \* the last start of Optimize

oc_vars == <<plat_event, apps, opt_pc, active_apps, is_ready, wait_pc,
             dfr_armed, plm_exited, plat_unserved, opt_owed>>

Gate == INSTANCE ReadinessGate
Dfr  == INSTANCE Deferrable

OptStates == {"idle", "check", "clear", "sched", "sync"}

OCInit ==
  /\ plat_event = FALSE
  /\ apps \in SUBSET AppStates
  /\ opt_pc = "idle"
  /\ active_apps = TRUE
  /\ Gate!GateInit
  /\ Dfr!DfrInit
  /\ plm_exited = FALSE
  /\ plat_unserved = FALSE
  /\ opt_owed = FALSE

-----------------------------------------------------------------------------
(* The handlers' effect on the optimization side.                          *)

\* Mutant: an application request that does not arm the trigger.
EvtBbqOptsNoSchedule ==
  /\ UNCHANGED <<plm_exited, plat_event, apps, dfr_armed>>

\* Arm optimize_dfr only if some application is READY (am.HighestPrio);
\* otherwise the application exited before its START was processed.
EvtExcStart ==
  /\ IF "READY" \in apps THEN Dfr!Schedule ELSE UNCHANGED dfr_armed
  /\ UNCHANGED <<plm_exited, plat_event, apps>>

EvtExcStop ==
  /\ Dfr!Schedule
  /\ UNCHANGED <<plm_exited, plat_event, apps>>

\* plat_event = true, then an immediate optimize_dfr.Schedule().
EvtBbqPlat ==
  /\ plat_event' = TRUE
  /\ Dfr!Schedule
  /\ UNCHANGED <<plm_exited, apps>>

EvtBbqOpts ==
  /\ Dfr!Schedule
  /\ UNCHANGED <<plm_exited, plat_event, apps>>

\* Stop, disable and destroy every application, then plm.Exit() (the
\* status dumps and TerminateWorkers change nothing here).
EvtBbqExit ==
  /\ apps' = {}
  /\ plm_exited' = TRUE
  /\ UNCHANGED <<plat_event, dfr_armed>>

\* An event whose handling obliges a later optimization cycle.
NeedsOptimization(e) ==
  \/ e \in {EXC_STOP, BBQ_PLAT, BBQ_OPTS}
  \/ e = EXC_START /\ "READY" \in apps

\* The handler of event e; the dumps of USR1 and USR2 and exit(EXIT_FAILURE)
\* of ABORT do not touch this side.
HandleEvent(e) ==
  /\ \/ e = EXC_START /\ EvtExcStart
     \/ e = EXC_STOP  /\ EvtExcStop
     \/ e = BBQ_PLAT  /\ EvtBbqPlat
     \/ e = BBQ_OPTS  /\ EvtBbqOpts
     \/ e = BBQ_EXIT  /\ EvtBbqExit
     \/ e \in {BBQ_USR1, BBQ_USR2, BBQ_ABORT} /\
          UNCHANGED <<plm_exited, plat_event, apps, dfr_armed>>
  /\ opt_owed' = (opt_owed \/ NeedsOptimization(e))
  /\ plat_unserved' = (plat_unserved \/ e = BBQ_PLAT)
  /\ UNCHANGED <<opt_pc, active_apps, is_ready, wait_pc>>

-----------------------------------------------------------------------------
(* Optimize, on the Deferrable's thread.                                   *)

\* Mutant: a deadline expiring while Optimize runs starts it again.
OptStartReentrant ==
  /\ Dfr!Fire
  /\ Gate!SetReady(FALSE)
  /\ opt_pc' = "check"
  /\ active_apps' = TRUE
  /\ opt_owed' = FALSE
  /\ UNCHANGED <<plm_exited, plat_event, apps, plat_unserved>>

\* The deadline expires; Optimize starts with SetReady(false).
OptStart ==
  /\ opt_pc = "idle"
  /\ Dfr!Fire
  /\ Gate!SetReady(FALSE)
  /\ opt_pc' = "check"
  /\ active_apps' = TRUE
  /\ opt_owed' = FALSE
  /\ UNCHANGED <<plm_exited, plat_event, apps, plat_unserved>>

\* The policy must run if plat_event is set, or some application (or
\* process) is READY or RUNNING.
OptCheckApps ==
  /\ opt_pc = "check"
  /\ active_apps' = (plat_event \/ apps # {})
  /\ opt_pc' = "clear"
  /\ UNCHANGED <<plm_exited, plat_event, apps, is_ready, wait_pc, dfr_armed,
                 plat_unserved, opt_owed>>

\* plat_event = false: a store separate from the load above.
OptClearPlatEvent ==
  /\ opt_pc = "clear"
  /\ plat_event' = FALSE
  /\ opt_pc' = IF active_apps THEN "sched" ELSE "sync"
  /\ UNCHANGED <<plm_exited, apps, active_apps, is_ready, wait_pc, dfr_armed,
                 plat_unserved, opt_owed>>

\* Optimize returns to the Deferrable, which re-arms if periodic.
OptReturn ==
  /\ opt_pc' = "idle"
  /\ Dfr!Complete

\* Mutant: the DELAYED case returns without SetReady(true).
OptScheduleResultDelayedNotReady(r) ==
  /\ opt_pc = "sched"
  /\ \/ /\ r \in {"MISSING_POLICY", "FAILED"}
        /\ Gate!SetReady(TRUE)
        /\ OptReturn
     \/ /\ r = "DELAYED"
        /\ OptReturn
        /\ UNCHANGED <<is_ready, wait_pc>>
     \/ /\ r = "DONE"
        /\ opt_pc' = "sync"
        /\ UNCHANGED <<is_ready, wait_pc, dfr_armed>>
  /\ plat_unserved' = FALSE
  /\ UNCHANGED <<plm_exited, plat_event, apps, active_apps, opt_owed>>

\* sm.Schedule() returned r: a missing, failed or delayed policy ends the
\* cycle with SetReady(true) and no synchronization; DONE goes on to
\* synchronization.
OptScheduleResult(r) ==
  /\ opt_pc = "sched"
  /\ \/ /\ r \in {"MISSING_POLICY", "FAILED", "DELAYED"}
        /\ Gate!SetReady(TRUE)
        /\ OptReturn
     \/ /\ r = "DONE"
        /\ opt_pc' = "sync"
        /\ UNCHANGED <<is_ready, wait_pc, dfr_armed>>
  /\ plat_unserved' = FALSE
  /\ UNCHANGED <<plm_exited, plat_event, apps, active_apps, opt_owed>>

\* The scheduler manager as a collaborator: any of its results.
OptSchedule == \E r \in SchedResults : OptScheduleResult(r)

\* ym.SyncSchedule() when some application is in SYNC; its failure only
\* counts a metric (no rollback).  Then SetReady(true) and return.
OptSync ==
  /\ opt_pc = "sync"
  /\ Gate!SetReady(TRUE)
  /\ OptReturn
  /\ UNCHANGED <<plm_exited, plat_event, apps, active_apps, plat_unserved,
                 opt_owed>>

OptProgress ==
  OptStart \/ OptCheckApps \/ OptClearPlatEvent \/ OptSchedule \/ OptSync

-----------------------------------------------------------------------------
(* The environment.                                                        *)

\* Applications are enabled, scheduled and stopped by other subsystems.
AppsChange ==
  /\ apps' \in SUBSET AppStates \ {apps}
  /\ UNCHANGED <<plm_exited, plat_event, opt_pc, active_apps, is_ready, wait_pc,
                 dfr_armed, plat_unserved, opt_owed>>

\* Another subsystem's thread in WaitForReady.
WaiterStep(w) ==
  /\ \/ Gate!CallWaitForReady(w)
     \/ Gate!CheckReady(w)
     \/ Gate!SpuriousReadyWakeup(w)
  /\ UNCHANGED <<plm_exited, plat_event, apps, opt_pc, active_apps, dfr_armed,
                 plat_unserved, opt_owed>>

OCNext ==
  \/ \E e \in Dispatched : HandleEvent(e)
  \/ OptProgress
  \/ AppsChange
  \/ \E w \in Waiters : WaiterStep(w)

\* The Deferrable's thread runs, and an armed deadline expires.
OCSpec == OCInit /\ [][OCNext]_oc_vars /\ WF_oc_vars(OptProgress)

-----------------------------------------------------------------------------
(* Properties.                                                             *)

OCTypeOK ==
  /\ plat_event \in BOOLEAN
  /\ apps \subseteq AppStates
  /\ opt_pc \in OptStates
  /\ active_apps \in BOOLEAN
  /\ is_ready \in BOOLEAN
  /\ wait_pc \in [Waiters -> Gate!WaitStates]
  /\ dfr_armed \in BOOLEAN
  /\ plm_exited \in BOOLEAN
  /\ plat_unserved \in BOOLEAN
  /\ opt_owed \in BOOLEAN

\* The readiness gate is free exactly when no Optimize is running: every
\* exit path of Optimize (policy missing, failed or delayed, or the end of
\* synchronization) calls SetReady(true), and only its start clears it.
GateReflectsCycle ==
  is_ready <=> opt_pc = "idle"

\* Every handled event that calls for an optimization (EXC_STOP, BBQ_PLAT,
\* BBQ_OPTS, or EXC_START with a READY application) is followed by the
\* start of an Optimize cycle.
OptimizeFollowsRequest ==
  opt_owed ~> ~opt_owed

\* A platform event forces the next optimization to run the scheduling
\* policy (comment at resource_manager.cc:333-335): from EvtBbqPlat until
\* sm.Schedule runs, the trigger is still armed or an Optimize that will
\* call the policy is under way.
PlatformEventHonoured ==
  plat_unserved =>
    \/ dfr_armed
    \/ opt_pc \in {"check", "sched"}
    \/ opt_pc = "clear" /\ active_apps

\* The refinement mapping: the trigger's pending deadline is the pending
\* request, a closed readiness gate is a cycle in progress, and a waiter
\* is inside WaitForReady from the call until the flag test lets it out.
Svc == INSTANCE OptimizerService
         WITH pending    <- dfr_armed,
              optimizing <- ~is_ready,
              waiting    <- {w \in Waiters : wait_pc[w] # "idle"}

\* Optimize, the handlers and WaitForReady together implement the service:
\* requests coalesce in optimize_dfr, a cycle starts only from an expired
\* deadline and only with the gate open, every exit path of Optimize
\* reopens the gate (so the gate is the cycle as other subsystems see it),
\* and every armed trigger leads to a cycle that ends.
ImplementsOptimizerService == Svc!SvcSpec
=============================================================================
