# TLA+ models of the BarbequeRTRM resource manager core

These modules model the orchestration core of the resource manager
(`src/bbque/resource_manager.cc`, `src/include/bbque/resource_manager.h`), the
NVIDIA platform proxy (`src/bbque/pp/nvml_platform_proxy.cc`) and the event
archive (`src/bbque/em/event_manager.cc`). TLC checks them.
`PROJECT.json` maps every definition to the source lines it models, and lists
the runs, the mutants, the findings and the hazards.

## The system

| Part | Code | State | Operations |
|------|------|-------|------------|
| Event dispatcher | `NotifyEvent`, `ControlLoop`, `Go` | `pendingEvts` (bitset), `pendingEvts_mtx`, `pendingEvts_cv`, `done` | notify (any thread), lock/check/wait/scan/reset/handle (loop thread) |
| Handlers | `EvtExcStart` … `EvtBbqExit`, ABORT case | `plat_event`, `optimize_dfr`, applications | arm the trigger, set `plat_event`, dump, shut down, `exit()` |
| Debounced trigger | `Deferrable optimize_dfr` (code not in sources) | one pending deadline, periodic flag | `Schedule`, expiry, re-arm after run |
| Optimization cycle | `Optimize` (Deferrable's thread) | `is_ready`, `plat_event`, local `active_apps` | SetReady(false), check apps, clear `plat_event`, Schedule, Sync, SetReady(true) |
| Readiness gate | `SetReady`, `WaitForReady` | `is_ready`, `status_mtx`, `status_cv` | set/notify_all; wait loop |
| Worker registry | `Register`, `Unregister`, `TerminateWorkers` | `workers_map`, `workers_mtx`, `workers_cv` | register, unregister+notify_one, 3 rounds of Terminate+wait_for |
| Event archive | `EventManager::Push`, `Serialize`, `Deserialize` | the archive file | read whole file, add, truncate and rewrite |
| Commands | constructor registrations, `CommandsCb` | none | status dumps, `NotifyEvent(BBQ_OPTS)` |
| Start-up | `Setup`, `Go` | `opt_interval` | load config, platform data, binding domains; start; SetPeriodic |
| NVML proxy | `LoadPlatformData`, `RegisterDevices`, `Exit`, queries | `device_count`, `devices`, `device_ids`, `device_paths`, `gpu_mem_paths` | discover and register GPUs, answer queries, shut down |

How the parts interact:
- Any thread calls `NotifyEvent`.
- The control loop thread dispatches the events by priority:
  ABORT (7) > EXIT > USR2 > USR1 > OPTS > PLAT > STOP > START (0).
- The handlers arm `optimize_dfr`.
- The Deferrable's own thread runs `Optimize`, which closes the readiness gate
  and reopens it on every exit path. Other subsystems block on the gate in
  `WaitForReady`.
- `EvtBbqExit` sets `done`, destroys the applications, calls `plm.Exit()`
  (which reaches the NVML proxy's `Exit`) and calls `TerminateWorkers`.
- `Setup` loads the platform data through the proxy before `Go` starts the
  loop. A `.opt_force` command reaches `NotifyEvent(BBQ_OPTS)`.

What makes the system hard is the following:
- The bitset is written without the mutex. `std::bitset::set`/`reset` are
  read-modify-writes of one word, so the unsynchronised writes are a data race.
  The model gives the outcomes the build can produce: a load and a store with
  other steps in between.
- `NotifyEvent` only signals the loop if `try_lock` succeeds.
- `plat_event` is read and cleared in two separate statements.
- `wait_for` returns on the first notification.
- `Push` has no lock.

## Modules

- `ControlEvents`: `controlEvent_t` and its priorities.
- `ControlLoop`: the dispatcher.
  - Notifier threads do `NotifyLoad` (the load of `set`), then `NotifyStore`,
    then `NotifySignal` (`try_lock` + `notify_one`).
  - The loop thread runs `LoopLock`, `LoopCheck`, `LoopWait` and
    `LoopReacquire`, in the order of the code:
    - the mutex is held from the empty check until `cv.wait`;
    - `LoopSpuriousWakeup` is a wakeup without a notification.
  - `LoopScan` has three branches: end of pass, skip a clear bit, load for
    `reset`. `LoopReset` stores the word.
  - `LoopHandle` models the `switch`:
    - `break` continues the pass;
    - USR1, USR2 and EXIT run their handler's bitset part (the second
      `reset`, and `done`) and return;
    - ABORT stops the process.
  - The history variable `unserved` is used only by the properties.
- `ReadinessGate`: `SetReady(value)` (with notify_all), and the
  `WaitForReady` loop with spurious wakeups.
- `Deferrable`: the trigger. It is modelled from spec section 4.2, because its
  code is not in `src/`. Time is abstracted away: an armed trigger may expire
  at any later step.
- `OptimizationCycle`:
  - `HandleEvent(e)` is what each handler does to the trigger, to
    `plat_event` and to the applications.
  - `OptStart` … `OptSync` are the steps of `Optimize`, each at the
    granularity of the code's separate reads and writes.
    - `OptScheduleResult(r)` is the `switch` on the scheduler result
      (`MISSING_POLICY`, `FAILED`, `DELAYED`, `DONE`); `OptSchedule` chooses
      the result nondeterministically.
    - Synchronization has no modelled effect: its failure only counts a
      metric.
  - The applications' states are an environment (`AppsChange`).
  - It INSTANCEs `ReadinessGate` and `Deferrable`.
  - `plm_exited` records that `EvtBbqExit` has called `plm.Exit()`.
- `OptimizerService`: the abstract specification of the optimization side.
  - Variables: `pending`, `optimizing` and `waiting`.
  - Actions: `Request`, `Begin`, `Finish`, `Enter`, `Return`.
  - Requests coalesce, one cycle runs at a time, and a waiter returns only
    between cycles. Weak fairness on `Begin` and `Finish` says that every
    request is served.
  - `OptimizationCycle` instances it as `Svc`, mapping `pending` to
    `dfr_armed`, `optimizing` to `~is_ready`, and `waiting` to the waiters
    inside `WaitForReady`. `ImplementsOptimizerService == Svc!SvcSpec` is
    checked as a PROPERTY.
- `CommandHandler`: the commands registered in the constructor and the
  switch of `CommandsCb`.
  - A name is the character switched on plus the suffix compared by `strcmp`.
  - The operator `CommandsCb(cmd)` gives the dump, the notified events and
    the return value.
- `ResourceManager`: the composition of `ControlLoop`, `OptimizationCycle`
  and `CommandHandler`.
  - A handler is one step of both: `Handle == LoopHandle /\ HandleEvent(evt-1)`.
  - `CommandStep` is a notifier that runs `CommandsCb` on a registered
    command: `.opt_force` starts a `NotifyEvent(BBQ_OPTS)`.
  - Every other step belongs to one component.
  - After ABORT (`exit()`) no thread moves. After EXIT the Deferrable's
    thread still runs.
- `NVMLProxy`: the proxy's tables and operations.
  - `LoadPlatformData` covers every NVML failure: `nvmlInit` fails; the count
    fails (NVML stays initialized); a handle lookup fails and the handle is
    left uninitialized.
  - It then runs `RegisterDevices`, a RECURSIVE loop over the indices, which
    calls the operators `InsertDeviceID` and `InsertDevicePath`
    (`std::map::insert` is `@@` that keeps the existing entry).
  - `Exit` clears `device_ids` and `device_paths`, but keeps `device_count`
    and `gpu_mem_paths`. `NoOpCall` stands for `Refresh`, `Release`,
    `ReclaimResources` and `MapResources`.
  - The queries `GetDeviceIDs`, `GetDevicesNum` (a `uint8_t`) and
    `GetDevicePaths` are operators.
  - A path is a pair of its kind and index. `nullptr` is a model value.
- `PlatformLifecycle`: `Setup` (three loading steps that may fail, the proxy's
  `LoadPlatformData` among them, then `SetPeriodic`) composed with the proxy.
  Then the loop's platform calls, and `plm.Exit()` from `EvtBbqExit`.
- `WorkerRegistry`: `Register`, `Unregister` (+notify_one) and
  `TerminateWorkers` as `TWCall`, then `TWSignal` (a notify wakes it) or
  `TWTimeout` (the `wait_for` expires, or a spurious return), then `TWCheck`. `TWCheck` re-acquires the mutex, checks
  for an empty map, counts down and returns. Workers are modelled from the
  spec: they unregister after Terminate unless they are in `Unresponsive`.
- `EventArchive`:
  - `InitializeArchive`.
  - `Push` in three steps: `PushDeserialize` (read; an empty or unreadable
    file gives an empty wrapper), `SerializeOpen` (the `ofstream` truncates
    the file, or fails to open and Push returns) and `SerializeWrite` (the
    write succeeds, or throws after the truncation and leaves the file
    unreadable). Both failures are caught and only logged; `PushReturn`
    records whether the call logged an error.
- The `MC_*` modules instantiate these with model values.

## Runs

| Run | Expect | What it shows |
|-----|--------|---------------|
| `cl_order` | pass | `CLTypeOK` with one notifier posting 6 kinds, including USR1, USR2, EXIT and ABORT, so every exit of the dispatch switch runs (1.6M states, about 10 s). |
| `cl_lost_race` | violation | `NoLostNotification`: the loop's `reset` stores a word loaded before a notifier's `set`, which erases the bit (resource_manager.cc:249 against 733). |
| `cl_lost_wakeup` | violation | `PendingEventServed`: a bit set between the empty check (709) and the wait (714) fails `try_lock` and is never signalled; the loop sleeps with an event pending. |
| `cl_usr1_reset` | violation | `NoLostNotification`, with only BBQ_USR1 notified: a USR1 stored while `EvtBbqUsr1` dumps the status, after the loop's reset at 733, is erased by the handler's own second `reset` at line 567 (14 states). |
| `oc_cycle` | pass | Optimize, every handler's effect on the trigger and two WaitForReady callers (2,808 states). `GateReflectsCycle`: the gate is free exactly when no Optimize runs, on every exit path. `OptimizeFollowsRequest`: every handled request is followed by an Optimize. `ImplementsOptimizerService`: the handlers, Optimize and WaitForReady refine the abstract service. |
| `oc_plat_race` | violation | `PlatformEventHonoured`: a BBQ_PLAT handled between lines 336 and 349 is cleared, and the Optimize it triggered skips the policy. |
| `rm_after_exit` | violation | `NoSchedulingAfterExit`: a BBQ_PLAT is handled, then EXIT. `EvtBbqExit` calls `plm.Exit()` but leaves `optimize_dfr` armed. Optimize then sees `plat_event` and runs the policy on the released platform (28 steps). |
| `wr_bounded` | pass | `TerminationBounded`: TerminateWorkers returns even with a worker that ignores Terminate and with registrations during the rounds. |
| `wr_late_register` | violation | `WorkersAskedToTerminate`: a worker registers while `wait_for` has released the mutex in the last round. TerminateWorkers returns with it registered, and Terminate was never called on it. |
| `em_lost_history` | violation | `ArchiveKeepsPushed`, one pusher, writes that may fail: the write of the first Push throws after the `ofstream` truncated the file, and the start event written by `InitializeArchive` is gone (5 states). |
| `pp_queries` | pass | `DeviceQueriesAgree`: across Setup (0 to 6 devices, any failed lookups, any Setup failure), the running loop and EXIT, the three queries agree. The i-th path names the i-th ID, also after `Exit` has cleared the tables but not `device_count`. |
| `pp_unopened` | violation | `RegisteredDevicesOpened`: a device whose `nvmlDeviceGetHandleByIndex` failed is skipped at line 90, yet `RegisterDevices` registers it with the accounter. |

Each property of a passing run has a mutant in `PROJECT.json`. The mutant is a
plausible bug in the mapped code, and TLC finds the property violated when the
mutant replaces the code:
- a scan past bit 0;
- DELAYED returning without `SetReady(true)` (`OptScheduleResultDelayedNotReady`);
- EvtBbqOpts not arming the trigger;
- an Optimize started again by a deadline that expires while it runs;
- the round counter not decremented, or decremented once too often;
- `Exit` not clearing `device_paths`.

The check allows at most 12 runs, so one behaviour found while modelling has
no run of its own: two overlapping `Push` calls lose an event. No caller of
`Push` is in the sources, so it is listed as a hazard without a property.

## Bounds

- **Event kinds.** Each run restricts the event kinds posted through the
  constant `Notifiable` (or `Dispatched`):
  - 6 of the 8 kinds, including all the yielding ones and ABORT, for the
    dispatch switch;
  - the 3 ordinary kinds for the races;
  - USR1 alone for its second reset: with a single kind, a stale word stored
    at line 733 can only set the bit again, so any loss is the handler's;
  - every kind but ABORT for the optimization cycle.

  One notifier thread is enough for every violation found. Two interleaved
  threads (the notifier and the loop) are what each race needs.
- **Waiters.** Two waiters show that notify_all wakes every one of them.
- **Workers.**
  - 3 workers, one of them unresponsive, for the liveness run. That is enough
    for a round in which a notify wakes TerminateWorkers while a worker
    remains.
  - The late registration uses the same three workers. It needs one worker
    present at the call and one that registers during the last round.
- **Events pushed.** Three events and one pusher: the first failed write
  already loses the history.
- **Devices.** NVML may report 0 to 6 devices, with any subset of failed
  handle lookups. That covers a machine without GPUs and a multi-GPU node.
  Two devices are enough for the unopened-device violation. Wrap-around of
  the `uint8_t` IDs needs more than 255 devices, which NVML does not report
  on one node, so it is not checked.
- **The real values.** The loop counter (3 rounds) and the 8 priorities are
  the real values.

## Fairness

Weak fairness is assumed only on steps of threads that are running and that
the OS schedules:
- the loop thread's steps;
- a notifier already inside `NotifyEvent`;
- the Deferrable's thread (an armed deadline expires; this holds for a trigger
  whose re-arming never postpones a deadline forever, see "Not modelled");
- a worker that has been asked to terminate (unless it is unresponsive);
- TerminateWorkers' steps, including the `wait_for` timeout, which always
  expires.

New notifications, application changes, registrations, spurious wakeups and
waiters are environment steps and get no fairness.

`OptimizerService` assumes weak fairness on `Begin` and `Finish`. The
refinement check shows that the fairness of the Deferrable's thread implies
both. The platform lifecycle has no fairness: after a failed `Setup`, and
after EXIT, `Go` returns and nothing follows, so its runs do not check
deadlock.

## Not modelled

- The YaMCA policy. Only its class declaration (`yamca_schedpol.h`) is in
  the sources; `Schedule`, `SchedulePrioQueue`, `OrderSchedEntity` and
  `SelectWorkingModes` have no body here. A model written from spec section
  4.5 could only be checked against itself, so `Optimize` sees the policy
  through its four results, chosen nondeterministically.
- Which deadline wins when `optimize_dfr` is re-armed with a different delay
  (`Schedule()` from BBQ_PLAT, `Schedule(delay)` from the other handlers) is
  not in the sources and is an open question in the spec. The model
  abstracts time and assumes an armed deadline eventually expires; it is
  listed as a hazard without a property.
- The metrics collector, the logger, the stat and Linux proxy types and the
  CPU power manager. They are declarations and trivial getters: metrics
  and logs feed no decision, and the power manager's methods return
  constants.
- The gRPC agent client: thin RPC wrappers with no shared state.
- The Worker class and the Deferrable implementation are not in the
  sources. They are modelled from the spec.
- Which command names the CommandManager forwards to `CommandsCb` is not in
  the sources. The model sends only the registered ones. An unregistered
  name that starts with `o` would still force a scheduling, and a letter with
  no case would return 0.
- `NVMLPlatformProxy::Exit` frees an array from `new[]` with `delete`, which
  is undefined behaviour. The model only records that `devices` is deleted.
  `PrintGPUPowerInfo` only reads and logs.

## Plan for further work

1. A fix of `NotifyEvent` (the set under the mutex, and an unconditional
   notify), with `ResourceManager` shown to refine `OptimizerService` end
   to end.
2. A cancellation of `optimize_dfr` in `EvtBbqExit`, checked against
   `NoSchedulingAfterExit`.
3. A timed Deferrable, once its implementation is available, to check the
   deadline policy against BBQ_PLAT's immediate rescheduling.
