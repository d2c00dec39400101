CONSTANTS
  p1 = p1
  p2 = p2
  b1 = b1
  b2 = b2
  f1 = f1
  Params <- TwoParams
  Protocol = p1
  Boards <- NoBoards
  Archive = archive
  Files <- OneFile
  Kinds = {"time"}
  RestartsUnseen = FALSE
SPECIFICATION Spec
INVARIANTS TimeKeepsProtocol
