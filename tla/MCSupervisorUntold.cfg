SPECIFICATION Spec
CONSTANTS
  MAX_PROCESS = 2
  Pids = {p1, p2, p3}
  NoPid = NoPid
  TIMEOUT = 1
  ForkMayFail = FALSE
  MaxCrashes = 1
  MaxSignals = 1
INVARIANT WorkersTold
