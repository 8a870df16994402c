SPECIFICATION Spec
CONSTANTS
  MAX_PROCESS = 2
  Pids = {p1, p2}
  NoPid = NoPid
  TIMEOUT = 2
  ForkMayFail = TRUE
  MaxCrashes = 1
  MaxSignals = 1
PROPERTIES ShutdownCompletes ZombiesCollected RecordedCrashRestarted
