--------------------------- MODULE MC_ControlLoop ---------------------------
(* Model-checking instance of ControlLoop: notifier threads are model      *)
(* values; each cfg picks the event kinds that are notified.               *)
EXTENDS ControlLoop, TLC

CONSTANTS n1

OneNotifier  == {n1}

\* An ordinary kind below and one above the yielding ones, and the fatal one.
EventsAll      == {EXC_START, BBQ_OPTS, BBQ_USR1, BBQ_USR2, BBQ_EXIT, BBQ_ABORT}
\* Kinds whose handlers continue the pass.
EventsOrdinary == {EXC_START, BBQ_PLAT, BBQ_OPTS}
\* Only dump requests: no other bit for the reset at line 733 to erase.
EventsUsr1 == {BBQ_USR1}

=============================================================================
