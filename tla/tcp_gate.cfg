SPECIFICATION Spec
CONSTANTS
  MaxRequests = 3
  MaxConnects = 2
  RequestKinds <- AnyRequest
  AlwaysResponse = TRUE
  Faults = {"writeFails"}
INVARIANTS
  TimerOnlyWhileWaiting
  OwnAnswer
PROPERTIES
  SuccessMeansSent
CHECK_DEADLOCK FALSE
