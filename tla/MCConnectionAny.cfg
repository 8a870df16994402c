SPECIFICATION Spec
CONSTANTS
  Requests <- Varied
  Pipelining = TRUE
  MaxRequests = 2
  MAX_REQUEST = 5
INVARIANT NothingAnsweredTwice
PROPERTY ResetReleases
