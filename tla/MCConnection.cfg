SPECIFICATION Spec
CONSTANTS
  Requests <- Orderly
  Pipelining = FALSE
  MaxRequests = 4
  MAX_REQUEST = 6
INVARIANTS TypeOK RequestWhole RightAnswers
PROPERTIES PromiseKept RequestAnswered ImplementsSession
