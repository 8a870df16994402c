SPECIFICATION Spec
CONSTANTS
  MAX_PROCESS = 2
  Pids = {p1, p2, p3}
  NoPid = NoPid
  TIMEOUT = 2
  ForkMayFail = TRUE
  MaxCrashes = 1
  MaxSignals = 2
SYMMETRY Symmetry
INVARIANTS TypeOK NoWorkerLost PoolBounded ExitLeavesNoWorker
PROPERTIES NoLateRestart ImplementsPool
