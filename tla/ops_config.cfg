CONSTANTS
  p1 = p1
  p2 = p2
  b1 = b1
  b2 = b2
  f1 = f1
  Params <- TwoParams
  Protocol = p1
  Boards <- TwoBoards
  Archive = archive
  Files <- OneFile
  Kinds = {"write", "read", "restart", "time"}
  RestartsUnseen = FALSE
SYMMETRY BoardSymmetry
SPECIFICATION Spec
INVARIANTS TypeOK WrittenAsReported ReadAsReported
PROPERTIES MainSavedLast
