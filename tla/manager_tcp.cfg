SPECIFICATION Spec
CONSTANTS
  r1 = r1
  r2 = r2
  r3 = r3
  Requests = {r1, r2, r3}
  Kind <- Files
  Transport = "tcp"
  MaxCalls = 2
  MayReplace = FALSE
INVARIANTS
  TypeOK
  NoLostFSRequest
  CommandsInSession
  OwnResponse
  OwnFile
  ConnectingIsReal
PROPERTIES
  EveryRequestFinishes
CHECK_DEADLOCK FALSE
