SPECIFICATION Spec
CONSTANTS
  MaxRequests = 3
  MaxConnects = 2
  RequestKinds <- AnyRequest
  AlwaysResponse = FALSE
  Faults = {"writeFails", "flushFails", "split"}
INVARIANTS
  TypeOK
  FifoOrder
  NoLostWakeup
  RunningIsGuarded
PROPERTIES
  ImplementsService
  DisconnectedWhenDown
CHECK_DEADLOCK FALSE
