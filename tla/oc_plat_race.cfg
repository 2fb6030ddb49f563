\* A platform event handled while Optimize is between its read and its
\* reset of plat_event.
CONSTANTS
  w1 = w1
  w2 = w2
  Waiters <- OneWaiter
  Periodic = FALSE
  Dispatched <- DispatchedPlat
SPECIFICATION OCSpec
INVARIANT PlatformEventHonoured
