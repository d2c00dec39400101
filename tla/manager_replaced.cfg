SPECIFICATION Spec
CONSTANTS
  r1 = r1
  r2 = r2
  r3 = r3
  Requests = {r1, r2, r3}
  Kind <- Files
  Transport = "vcom"
  MaxCalls = 3
  MayReplace = TRUE
INVARIANTS
  EndsOnce
  OwnResponse
CHECK_DEADLOCK FALSE
