---------------------------- MODULE ReadinessGate ----------------------------
(***************************************************************************)
(* The readiness gate of ResourceManager: the flag is_ready with status_mtx *)
(* and status_cv (src/bbque/resource_manager.cc SetReady, WaitForReady).   *)
(* Each critical section on status_mtx is one step.  A waiter is a thread  *)
(* of another subsystem that calls WaitForReady to observe a state in      *)
(* which no optimization is in progress.                                   *)
(***************************************************************************)
CONSTANT Waiters

VARIABLES
  is_ready,   \* ResourceManager::is_ready
  wait_pc     \* where each waiter is in WaitForReady

gate_vars == <<is_ready, wait_pc>>

WaitStates == {"idle", "check", "wait"}

GateInit ==
  /\ is_ready = TRUE
  /\ wait_pc = [w \in Waiters |-> "idle"]

\* SetReady(value): store the flag; when it becomes true, notify_all moves
\* every thread blocked on status_cv back to re-checking the flag.
SetReady(value) ==
  /\ is_ready' = value
  /\ wait_pc' = IF value
                  THEN [w \in Waiters |->
                          IF wait_pc[w] = "wait" THEN "check" ELSE wait_pc[w]]
                  ELSE wait_pc

\* A thread enters WaitForReady.
CallWaitForReady(w) ==
  /\ wait_pc[w] = "idle"
  /\ wait_pc' = [wait_pc EXCEPT ![w] = "check"]
  /\ UNCHANGED is_ready

\* while (!is_ready) status_cv.wait(): return when ready, block otherwise.
CheckReady(w) ==
  /\ wait_pc[w] = "check"
  /\ wait_pc' = [wait_pc EXCEPT ![w] = IF is_ready THEN "idle" ELSE "wait"]
  /\ UNCHANGED is_ready

\* std::condition_variable may wake a waiter without a notification.
SpuriousReadyWakeup(w) ==
  /\ wait_pc[w] = "wait"
  /\ wait_pc' = [wait_pc EXCEPT ![w] = "check"]
  /\ UNCHANGED is_ready
=============================================================================
