SPECIFICATION Spec
CONSTANTS
  MaxRequests = 3
  MaxCalls = 3
  RequestKinds <- AnyRequest
  AlwaysResponse = FALSE
  Faults = {"writeFails", "flushFails", "split", "noise"}
INVARIANTS
  TypeOK
  NoLostWakeup
  RunningIsGuarded
  IntactAnswer
PROPERTIES
  ImplementsService
CHECK_DEADLOCK FALSE
