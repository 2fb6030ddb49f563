------------------------- MODULE MC_ResourceManager -------------------------
(* Model-checking instance of ResourceManager: notifier and waiter threads  *)
(* are model values; each cfg picks the event kinds that are notified.     *)
EXTENDS ResourceManager, TLC

CONSTANTS n1, w1

OneNotifier == {n1}
OneWaiter   == {w1}
NoWaiter    == {}

\* Two kinds that arm the trigger, and the fatal one.
EventsRequests == {EXC_START, BBQ_OPTS, BBQ_ABORT}

\* A platform change and the exit request.
EventsPlatExit == {BBQ_PLAT, BBQ_EXIT}
=============================================================================
