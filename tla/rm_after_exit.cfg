\* Shutdown: a platform event handled before EXIT still schedules after it.
CONSTANTS
  n1 = n1
  w1 = w1
  Notifiers <- OneNotifier
  Notifiable <- EventsPlatExit
  Waiters <- NoWaiter
  Periodic = FALSE
SPECIFICATION Spec
PROPERTY NoSchedulingAfterExit
