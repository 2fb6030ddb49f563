CONSTANTS
  n1 = n1
  Notifiers <- OneNotifier
  Notifiable <- EventsOrdinary
SPECIFICATION CLSpec
PROPERTY PendingEventServed
