\* Only BBQ_USR1 is notified, so a stale word stored by the reset at line 733 can only re-set the bit; a lost notification must come from EvtBbqUsr1's own second reset.
CONSTANTS
  n1 = n1
  Notifiers <- OneNotifier
  Notifiable <- EventsUsr1
SPECIFICATION CLSpec
INVARIANT NoLostNotification
