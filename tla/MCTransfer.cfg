SPECIFICATION Spec
CONSTANTS
  Sizes <- AllSizes
  CHUNK = 2
  CAP = 3
  MaxRequests = 3
INVARIANTS TypeOK OneResponseAtATime BlockingExact SmallFileWhole
PROPERTIES NotLeftWaiting BlockingDelivers
