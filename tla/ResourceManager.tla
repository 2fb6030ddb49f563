--------------------------- MODULE ResourceManager ---------------------------
(***************************************************************************)
(* ResourceManager (src/bbque/resource_manager.cc) end to end: the control  *)
(* loop of ControlLoop dispatches each event to the handler whose effect   *)
(* on the optimization trigger is given by OptimizationCycle, and the      *)
(* Deferrable's thread runs Optimize concurrently.  A handler step is one *)
(* step of both components; every other step is a step of one of them.    *)
(* exit(EXIT_FAILURE) in the ABORT handler ends every thread.              *)
(***************************************************************************)
EXTENDS ControlEvents

CONSTANTS Notifiers, Notifiable, Waiters, Periodic

VARIABLES
  pendingEvts, pendingEvts_mtx, loop_pc, evt, loop_snap,
  notify_pc, notify_evt, notify_snap, done, unserved,
  plat_event, apps, opt_pc, active_apps, is_ready, wait_pc, dfr_armed,
  plm_exited, plat_unserved, opt_owed

CL == INSTANCE ControlLoop
OC == INSTANCE OptimizationCycle WITH Dispatched <- Events
CH == INSTANCE CommandHandler

cl_vars == <<pendingEvts, pendingEvts_mtx, loop_pc, evt, loop_snap,
             notify_pc, notify_evt, notify_snap, done, unserved>>
oc_vars == <<plat_event, apps, opt_pc, active_apps, is_ready, wait_pc,
             dfr_armed, plm_exited, plat_unserved, opt_owed>>
vars == <<cl_vars, oc_vars>>

Init == CL!CLInit /\ OC!OCInit

\* The switch of ControlLoop: the loop's part and the handler's part of
\* handling event evt-1 happen in one step of the control loop thread.
Handle ==
  /\ CL!LoopHandle
  /\ OC!HandleEvent(evt - 1)

\* Steps of the control loop thread other than a handler.
LoopStep ==
  /\ \/ CL!LoopLock \/ CL!LoopCheck \/ CL!LoopWait \/ CL!LoopReacquire
     \/ CL!LoopScan \/ CL!LoopReset
  /\ UNCHANGED oc_vars

\* Threads other than the loop, which stop once the process has exited.
ProcessAlive == loop_pc # "aborted"

\* A CommandManager thread runs CommandsCb for a registered command: the
\* force command calls NotifyEvent(BBQ_OPTS), the dumps change nothing.
CommandStep ==
  \E n \in Notifiers, cmd \in CH!RegisteredCommands :
    \E e \in CH!CommandsCb(cmd).notify : CL!NotifyLoad(n, e)

NotifierStep ==
  /\ \/ \E n \in Notifiers, e \in Events : CL!NotifyLoad(n, e)
     \/ CommandStep
     \/ \E n \in Notifiers : CL!NotifyStore(n) \/ CL!NotifySignal(n)
     \/ CL!LoopSpuriousWakeup
  /\ ProcessAlive
  /\ UNCHANGED oc_vars

OptimizerStep ==
  /\ ProcessAlive
  /\ OC!OptProgress
  /\ UNCHANGED cl_vars

EnvironmentStep ==
  /\ ProcessAlive
  /\ OC!AppsChange \/ \E w \in Waiters : OC!WaiterStep(w)
  /\ UNCHANGED cl_vars

\* The process has ended, or Go has returned and nothing else can move.
Stopped ==
  /\ CL!Terminated
  /\ UNCHANGED oc_vars

Next ==
  \/ LoopStep \/ Handle
  \/ NotifierStep \/ OptimizerStep \/ EnvironmentStep
  \/ Stopped

\* The loop thread, notifiers inside NotifyEvent, and the Deferrable's
\* thread are scheduled by the OS; environment steps need not happen.
Fairness ==
  /\ WF_vars(LoopStep \/ Handle)
  /\ \A n \in Notifiers :
       WF_vars(/\ CL!NotifyStore(n) \/ CL!NotifySignal(n)
               /\ UNCHANGED oc_vars)
  /\ WF_vars(OptimizerStep)

Spec == Init /\ [][Next]_vars /\ Fairness

-----------------------------------------------------------------------------
(* Properties.                                                             *)

\* The shutdown sequence of EvtBbqExit stops the applications and releases
\* the platform (plm.Exit) before Go returns (spec section 5, Cancellation);
\* no scheduling policy run starts against the released platform.  The
\* handler neither cancels optimize_dfr nor waits for the Deferrable's
\* thread, and Optimize decides to schedule from plat_event as well as
\* from the applications (line 336).
NoSchedulingAfterExit ==
  [][opt_pc # "sched" /\ opt_pc' = "sched" => ~plm_exited]_vars
=============================================================================
