SPECIFICATION Spec
CONSTANTS
  MaxRequests = 3
  MaxConnects = 2
  RequestKinds <- AnyRequest
  AlwaysResponse = FALSE
  Faults = {"flushFails"}
PROPERTIES
  SuccessMeansSent
CHECK_DEADLOCK FALSE
