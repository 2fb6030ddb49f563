\* Optimize, the handlers' trigger effects and two WaitForReady callers: the readiness gate on every exit path, optimization requests served, and the refinement of OptimizerService.
CONSTANTS
  w1 = w1
  w2 = w2
  Waiters <- TwoWaiters
  Periodic = FALSE
  Dispatched <- DispatchedAll
SPECIFICATION OCSpec
INVARIANT GateReflectsCycle
PROPERTY OptimizeFollowsRequest
PROPERTY ImplementsOptimizerService
