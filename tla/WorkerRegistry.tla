--------------------------- MODULE WorkerRegistry ---------------------------
(***************************************************************************)
(* The worker registry of ResourceManager (src/bbque/resource_manager.cc   *)
(* Register, Unregister, TerminateWorkers): workers_map guarded by         *)
(* workers_mtx, with workers_cv notified by Unregister.                    *)
(*                                                                         *)
(* A worker is a background thread of another subsystem; its class is not  *)
(* among the sources, so its side is modelled from the specification: it  *)
(* registers when it starts and, once Terminate has been called on it,    *)
(* eventually unregisters, unless it is unresponsive.  Each critical       *)
(* section on workers_mtx is one step; TerminateWorkers holds the mutex    *)
(* except inside workers_cv.wait_for.  It is called once, by EvtBbqExit.   *)
(***************************************************************************)
EXTENDS Naturals

CONSTANTS
  Workers,        \* the workers, each registered under its own name
  Unresponsive    \* workers that never act on Terminate

ASSUME Unresponsive \subseteq Workers

\* for (uint8_t i = 3; i; --i)
TerminateRounds == 3

VARIABLES
  workers_map,    \* names currently registered
  wk_pc,          \* where each worker thread is
  term_req,       \* workers on which Terminate has been called
  tw_pc,          \* where the thread in TerminateWorkers is
  round           \* TerminateWorkers' loop counter i

wr_vars == <<workers_map, wk_pc, term_req, tw_pc, round>>

WorkerStates == {"unborn", "running", "gone"}
TWStates == {"idle", "signal", "wait", "woken", "returned"}

WRInit ==
  /\ workers_map = {}
  /\ wk_pc = [w \in Workers |-> "unborn"]
  /\ term_req = {}
  /\ tw_pc = "idle"
  /\ round = TerminateRounds

\* TerminateWorkers holds workers_mtx from its entry to wait_for; its
\* re-acquisition and the emptiness check after wait_for are one step.
MutexFree == tw_pc # "signal"

-----------------------------------------------------------------------------
(* The workers.                                                            *)

\* A worker thread starts and calls Register(name, this).
Register(w) ==
  /\ wk_pc[w] = "unborn"
  /\ MutexFree
  /\ workers_map' = workers_map \cup {w}
  /\ wk_pc' = [wk_pc EXCEPT ![w] = "running"]
  /\ UNCHANGED <<term_req, tw_pc, round>>

\* Having been asked to terminate, the worker leaves its loop and calls
\* Unregister(name): erase, then workers_cv.notify_one(), which wakes
\* TerminateWorkers if it is blocked in wait_for.
Unregister(w) ==
  /\ wk_pc[w] = "running"
  /\ w \in term_req \ Unresponsive
  /\ MutexFree
  /\ workers_map' = workers_map \ {w}
  /\ wk_pc' = [wk_pc EXCEPT ![w] = "gone"]
  /\ tw_pc' = IF tw_pc = "wait" THEN "woken" ELSE tw_pc
  /\ UNCHANGED <<term_req, round>>

-----------------------------------------------------------------------------
(* TerminateWorkers.                                                       *)

\* EvtBbqExit calls TerminateWorkers, which takes workers_mtx.
TWCall ==
  /\ tw_pc = "idle"
  /\ MutexFree
  /\ tw_pc' = "signal"
  /\ UNCHANGED <<workers_map, wk_pc, term_req, round>>

\* Terminate every registered worker, then wait_for releases the mutex.
TWSignal ==
  /\ tw_pc = "signal"
  /\ term_req' = term_req \cup workers_map
  /\ tw_pc' = "wait"
  /\ UNCHANGED <<workers_map, wk_pc, round>>

\* wait_for returns, on its 300 ms timeout or spuriously (a notify_one
\* from Unregister is the step Unregister).
TWTimeout ==
  /\ tw_pc = "wait"
  /\ tw_pc' = "woken"
  /\ UNCHANGED <<workers_map, wk_pc, term_req, round>>

\* Mutant: the loop counter is never decremented.
TWCheckNoCountdown ==
  /\ tw_pc = "woken"
  /\ IF workers_map = {}
       THEN tw_pc' = "returned"
       ELSE tw_pc' = "signal"
  /\ UNCHANGED <<workers_map, wk_pc, term_req, round>>

\* Mutant: one round too many, i running down to zero.
TWCheckOffByOne ==
  /\ tw_pc = "woken"
  /\ IF workers_map = {} \/ round = 0
       THEN /\ tw_pc' = "returned"
            /\ UNCHANGED round
       ELSE /\ tw_pc' = "signal"
            /\ round' = round - 1
  /\ UNCHANGED <<workers_map, wk_pc, term_req>>

\* wait_for re-acquires the mutex; break if the map is empty, else --i and
\* a new round while i is non-zero.
TWCheck ==
  /\ tw_pc = "woken"
  /\ IF workers_map = {} \/ round = 1
       THEN /\ tw_pc' = "returned"
            /\ UNCHANGED round
       ELSE /\ tw_pc' = "signal"
            /\ round' = round - 1
  /\ UNCHANGED <<workers_map, wk_pc, term_req>>

\* TerminateWorkers has returned; EvtBbqExit and Go follow.
Returned ==
  /\ tw_pc = "returned"
  /\ UNCHANGED wr_vars

\* Steps of the thread in TerminateWorkers; wait_for always returns.
TWProgress == TWSignal \/ TWTimeout \/ TWCheck

WRNext ==
  \/ \E w \in Workers : Register(w) \/ Unregister(w)
  \/ TWCall \/ TWProgress
  \/ Returned

\* Responsive workers act on Terminate; registration and the exit event
\* may never happen.
WRFairness ==
  /\ WF_wr_vars(TWProgress)
  /\ \A w \in Workers : WF_wr_vars(Unregister(w))

WRSpec == WRInit /\ [][WRNext]_wr_vars /\ WRFairness

-----------------------------------------------------------------------------
(* Properties.                                                             *)

WRTypeOK ==
  /\ workers_map \subseteq Workers
  /\ wk_pc \in [Workers -> WorkerStates]
  /\ term_req \subseteq Workers
  /\ tw_pc \in TWStates
  /\ round \in 1 .. TerminateRounds

\* Shutdown is best-effort: once EvtBbqExit has entered TerminateWorkers, it
\* returns, even if some worker never unregisters and others keep
\* registering (spec section 4.4).
TerminationBounded ==
  tw_pc = "signal" ~> tw_pc = "returned"

\* Every worker still registered when TerminateWorkers returns has had
\* Terminate called on it ("broadcast a terminate request to every
\* still-registered worker", spec section 4.4), so none is left running
\* unaware of the shutdown.  Register takes workers_mtx, which wait_for
\* releases in every round, the last one included.
WorkersAskedToTerminate ==
  [][(tw_pc # "returned" /\ tw_pc' = "returned")
        => workers_map' \subseteq term_req']_wr_vars
========================================================================
