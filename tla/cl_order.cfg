\* The dispatcher with one notifier posting every kind of handler exit: break, the return after USR1, USR2 and EXIT, and exit() on ABORT.
CONSTANTS
  n1 = n1
  Notifiers <- OneNotifier
  Notifiable <- EventsAll
SPECIFICATION CLSpec
INVARIANT CLTypeOK
