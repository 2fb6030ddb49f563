----------------------------- MODULE ControlLoop -----------------------------
(***************************************************************************)
(* The event dispatcher of ResourceManager (src/bbque/resource_manager.cc): *)
(* NotifyEvent on notifier threads, and Go / ControlLoop on the control    *)
(* loop thread, over the bitset pendingEvts with pendingEvts_mtx and       *)
(* pendingEvts_cv.                                                         *)
(*                                                                         *)
(*  - The loop holds pendingEvts_mtx for a whole pass, handlers included,  *)
(*    and releases it only inside pendingEvts_cv.wait or on returning.     *)
(*  - NotifyEvent sets its bit WITHOUT holding the mutex: std::bitset::set *)
(*    is a load and a store of the bitset word, and so is reset; these    *)
(*    unsynchronised read-modify-writes race (undefined behaviour whose    *)
(*    outcomes on the build are the interleavings of the loads and        *)
(*    stores).  It then signals the loop only if try_lock succeeds.        *)
(*                                                                         *)
(* The effects of the handlers on the optimization trigger are in          *)
(* OptimizationCycle; ResourceManager composes the two.                    *)
(***************************************************************************)
EXTENDS ControlEvents, FiniteSets

CONSTANTS
  Notifiers,    \* threads that call NotifyEvent
  Notifiable    \* the event kinds they notify in this model

ASSUME Notifiable \subseteq Events

VARIABLES
  pendingEvts,      \* the bitset, as the set of its set bits
  pendingEvts_mtx,  \* "loop" while the control loop holds it, else "free"
  loop_pc,          \* where the control loop thread is
  evt,              \* ControlLoop's scan index: bit evt-1 is next
  loop_snap,        \* word loaded by pendingEvts.reset, not yet stored
  notify_pc,        \* where each notifier is in NotifyEvent
  notify_evt,       \* the event kind it notifies
  notify_snap,      \* word loaded by pendingEvts.set, not yet stored
  done,             \* ResourceManager::done
  \* history variable, used only by the properties
  unserved          \* notified kinds whose bit the loop has not yet reset

cl_vars == <<pendingEvts, pendingEvts_mtx, loop_pc, evt, loop_snap,
             notify_pc, notify_evt, notify_snap, done, unserved>>

LoopStates == {"lock", "check", "sleep", "wait", "woken", "scan", "reset",
               "handle", "exited", "aborted"}

CLInit ==
  /\ pendingEvts = {}
  /\ pendingEvts_mtx = "free"
  /\ loop_pc = "lock"
  /\ evt = 0
  /\ loop_snap = {}
  /\ notify_pc = [n \in Notifiers |-> "idle"]
  /\ notify_evt = [n \in Notifiers |-> EXC_START]
  /\ notify_snap = [n \in Notifiers |-> {}]
  /\ done = FALSE
  /\ unserved = {}

-----------------------------------------------------------------------------
(* NotifyEvent(evt).  Notifications after shutdown are not modelled: once  *)
(* done is set the loop never reads the bitset again.                      *)

\* pendingEvts.set(evt), first half: load the word.
NotifyLoad(n, e) ==
  /\ ~done
  /\ notify_pc[n] = "idle"
  /\ e \in Notifiable
  /\ notify_pc' = [notify_pc EXCEPT ![n] = "store"]
  /\ notify_evt' = [notify_evt EXCEPT ![n] = e]
  /\ notify_snap' = [notify_snap EXCEPT ![n] = pendingEvts]
  /\ UNCHANGED <<pendingEvts, pendingEvts_mtx, loop_pc, evt, loop_snap, done,
                 unserved>>

\* pendingEvts.set(evt), second half: store the loaded word with the bit.
NotifyStore(n) ==
  /\ notify_pc[n] = "store"
  /\ pendingEvts' = notify_snap[n] \cup {notify_evt[n]}
  /\ unserved' = unserved \cup {notify_evt[n]}
  /\ notify_pc' = [notify_pc EXCEPT ![n] = "signal"]
  /\ notify_snap' = [notify_snap EXCEPT ![n] = {}]
  /\ UNCHANGED <<pendingEvts_mtx, loop_pc, evt, loop_snap, notify_evt, done>>

\* try_lock succeeds only while the loop does not hold the mutex (it is
\* blocked in pendingEvts_cv.wait, or between two passes); notify_one then
\* wakes the loop if it is blocked, and the lock is released.  Otherwise
\* the notification is not signalled.
NotifySignal(n) ==
  /\ notify_pc[n] = "signal"
  /\ loop_pc' = IF pendingEvts_mtx = "free" /\ loop_pc = "wait"
                  THEN "woken" ELSE loop_pc
  /\ notify_pc' = [notify_pc EXCEPT ![n] = "idle"]
  /\ UNCHANGED <<pendingEvts, pendingEvts_mtx, evt, loop_snap, notify_evt,
                 notify_snap, done, unserved>>

-----------------------------------------------------------------------------
(* Go / ControlLoop.                                                       *)

\* ControlLoop entry: std::unique_lock on pendingEvts_mtx.
LoopLock ==
  /\ loop_pc = "lock"
  /\ pendingEvts_mtx = "free"
  /\ pendingEvts_mtx' = "loop"
  /\ loop_pc' = "check"
  /\ UNCHANGED <<pendingEvts, evt, loop_snap, notify_pc, notify_evt,
                 notify_snap, done, unserved>>

\* while (!pendingEvts.any()) pendingEvts_cv.wait(); then if done, return;
\* else start a pass at the highest priority bit.  An empty bitset sends the
\* loop to the wait, which it enters still holding the mutex.
LoopCheck ==
  /\ loop_pc = "check"
  /\ \/ /\ pendingEvts = {}
        /\ loop_pc' = "sleep"
        /\ UNCHANGED <<pendingEvts_mtx, evt>>
     \/ /\ pendingEvts # {}
        /\ IF done
             THEN /\ loop_pc' = "exited"
                  /\ pendingEvts_mtx' = "free"
                  /\ UNCHANGED <<evt>>
             ELSE /\ loop_pc' = "scan"
                  /\ evt' = EVENTS_COUNT
                  /\ UNCHANGED pendingEvts_mtx
  /\ UNCHANGED <<pendingEvts, loop_snap, notify_pc, notify_evt, notify_snap,
                 done, unserved>>

\* pendingEvts_cv.wait(): atomically release the mutex and block.
LoopWait ==
  /\ loop_pc = "sleep"
  /\ loop_pc' = "wait"
  /\ pendingEvts_mtx' = "free"
  /\ UNCHANGED <<pendingEvts, evt, loop_snap, notify_pc, notify_evt,
                 notify_snap, done, unserved>>

\* pendingEvts_cv.wait returns without a notification.
LoopSpuriousWakeup ==
  /\ loop_pc = "wait"
  /\ loop_pc' = "woken"
  /\ UNCHANGED <<pendingEvts, pendingEvts_mtx, evt, loop_snap, notify_pc,
                 notify_evt, notify_snap, done, unserved>>

\* A woken pendingEvts_cv.wait re-acquires the mutex before returning.
LoopReacquire ==
  /\ loop_pc = "woken"
  /\ pendingEvts_mtx = "free"
  /\ pendingEvts_mtx' = "loop"
  /\ loop_pc' = "check"
  /\ UNCHANGED <<pendingEvts, evt, loop_snap, notify_pc, notify_evt,
                 notify_snap, done, unserved>>

\* Mutant: the skip branch without its evt > 0 guard, so the scan runs past
\* bit 0.
LoopScanUnbounded ==
  /\ loop_pc = "scan"
  /\ \/ /\ evt = 0
        /\ loop_pc' = "lock"
        /\ pendingEvts_mtx' = "free"
        /\ UNCHANGED <<evt, loop_snap>>
     \/ /\ evt - 1 \notin pendingEvts
        /\ evt' = evt - 1
        /\ UNCHANGED <<loop_pc, pendingEvts_mtx, loop_snap>>
     \/ /\ evt > 0
        /\ evt - 1 \in pendingEvts
        /\ loop_snap' = pendingEvts
        /\ loop_pc' = "reset"
        /\ UNCHANGED <<evt, pendingEvts_mtx>>
  /\ UNCHANGED <<pendingEvts, notify_pc, notify_evt, notify_snap, done,
                 unserved>>

\* One iteration of for (evt = EVENTS_COUNT; evt; --evt): the pass is over
\* and ControlLoop returns (Go calls it again, done being false); or bit
\* evt-1 is clear and skipped; or pendingEvts.reset(evt-1) loads the word.
LoopScan ==
  /\ loop_pc = "scan"
  /\ \/ /\ evt = 0
        /\ loop_pc' = "lock"
        /\ pendingEvts_mtx' = "free"
        /\ UNCHANGED <<evt, loop_snap>>
     \/ /\ evt > 0
        /\ evt - 1 \notin pendingEvts
        /\ evt' = evt - 1
        /\ UNCHANGED <<loop_pc, pendingEvts_mtx, loop_snap>>
     \/ /\ evt > 0
        /\ evt - 1 \in pendingEvts
        /\ loop_snap' = pendingEvts
        /\ loop_pc' = "reset"
        /\ UNCHANGED <<evt, pendingEvts_mtx>>
  /\ UNCHANGED <<pendingEvts, notify_pc, notify_evt, notify_snap, done,
                 unserved>>

\* pendingEvts.reset(evt-1), second half: store the loaded word without
\* bit evt-1.  The handler runs next.
LoopReset ==
  /\ loop_pc = "reset"
  /\ pendingEvts' = loop_snap \ {evt - 1}
  /\ unserved' = unserved \ {evt - 1}
  /\ loop_snap' = {}
  /\ loop_pc' = "handle"
  /\ UNCHANGED <<pendingEvts_mtx, evt, notify_pc, notify_evt, notify_snap,
                 done>>

\* The bitset part of the handlers.  EvtBbqUsr1 and EvtBbqUsr2 end with a
\* second pendingEvts.reset of their own bit; EvtBbqExit sets done and
\* calls both.
EvtBbqUsr1 ==
  /\ pendingEvts' = pendingEvts \ {BBQ_USR1}
  /\ UNCHANGED done

EvtBbqUsr2 ==
  /\ pendingEvts' = pendingEvts \ {BBQ_USR2}
  /\ UNCHANGED done

EvtBbqExit ==
  /\ done' = TRUE
  /\ pendingEvts' = pendingEvts \ {BBQ_USR1, BBQ_USR2}

\* break: the pass goes on with the next lower priority bit.
ContinuePass ==
  /\ loop_pc' = "scan"
  /\ evt' = evt - 1
  /\ UNCHANGED <<pendingEvts_mtx, pendingEvts, done>>

\* return: ControlLoop returns right after the handler, and Go calls it
\* again unless done is set.
ReturnFromPass ==
  /\ loop_pc' = IF done' THEN "exited" ELSE "lock"
  /\ pendingEvts_mtx' = "free"
  /\ UNCHANGED evt

\* The switch (evt-1) of ControlLoop, as far as the loop is concerned.
LoopHandle ==
  /\ loop_pc = "handle"
  /\ \/ evt - 1 \in {EXC_START, EXC_STOP, BBQ_PLAT, BBQ_OPTS} /\ ContinuePass
     \/ evt - 1 = BBQ_USR1 /\ EvtBbqUsr1 /\ ReturnFromPass
     \/ evt - 1 = BBQ_USR2 /\ EvtBbqUsr2 /\ ReturnFromPass
     \/ evt - 1 = BBQ_EXIT /\ EvtBbqExit /\ ReturnFromPass
     \/ /\ evt - 1 = BBQ_ABORT                   \* exit(EXIT_FAILURE)
        /\ loop_pc' = "aborted"
        /\ UNCHANGED <<pendingEvts, pendingEvts_mtx, evt, done>>
  /\ UNCHANGED <<loop_snap, notify_pc, notify_evt, notify_snap, unserved>>

\* After exit(EXIT_FAILURE), or once Go has returned, the process ends.
Terminated ==
  /\ loop_pc \in {"aborted", "exited"}
  /\ UNCHANGED cl_vars

\* Steps of the loop thread that a scheduler must eventually run.
LoopProgress ==
  LoopLock \/ LoopCheck \/ LoopWait \/ LoopReacquire \/ LoopScan \/ LoopReset \/ LoopHandle

CLNext ==
  \/ LoopProgress
  \/ LoopSpuriousWakeup
  \/ \E n \in Notifiers, e \in Events : NotifyLoad(n, e)
  \/ \E n \in Notifiers : NotifyStore(n) \/ NotifySignal(n)
  \/ Terminated

\* The loop thread and a notifier inside NotifyEvent are scheduled; a new
\* notification and a spurious wakeup may never happen.
CLFairness ==
  /\ WF_cl_vars(LoopProgress)
  /\ \A n \in Notifiers : WF_cl_vars(NotifyStore(n) \/ NotifySignal(n))

CLSpec == CLInit /\ [][CLNext]_cl_vars /\ CLFairness

-----------------------------------------------------------------------------
(* Properties.                                                             *)

CLTypeOK ==
  /\ pendingEvts \subseteq Events
  /\ pendingEvts_mtx \in {"free", "loop"}
  /\ loop_pc \in LoopStates
  /\ evt \in 0 .. EVENTS_COUNT
  /\ loop_snap \subseteq Events
  /\ notify_pc \in [Notifiers -> {"idle", "store", "signal"}]
  /\ notify_evt \in [Notifiers -> Events]
  /\ notify_snap \in [Notifiers -> SUBSET Events]
  /\ done \in BOOLEAN
  /\ unserved \subseteq Events

\* Until shutdown, every event kind that was notified and has not yet been
\* consumed by the loop is still recorded in pendingEvts: notifications of
\* one kind collapse, but are never lost (spec section 3, invariant (c)).
NoLostNotification ==
  ~done => unserved \subseteq pendingEvts

\* Until shutdown, a pending event is eventually dispatched.
PendingEventServed ==
  \A e \in Notifiable :
    (e \in pendingEvts /\ ~done) ~> (e \notin pendingEvts \/ done)
=============================================================================
