CONSTANTS
  o1 = o1
  i1 = i1
  a1 = a1
  f1 = f1
  p1 = p1
  p2 = p2
  x1 = x1
  v1 = v1
  v2 = v2
  n1 = n1
  n2 = n2
  None = None
  Outs <- OneOut
  AlgIns <- OneIn
  AlgOuts <- OneAlgOut
  Funcs <- OneFunc
  Pins <- TwoPins
  Physical <- OneInput
  Virtual <- TwoVirtual
  Nodes <- TwoNodes
  DeviceParams <- SomeParams
  DeviceGraphs <- SomeGraphs
  MaxEdits = 5
SYMMETRY EditorSymmetry
SPECIFICATION Spec
INVARIANTS TypeOK LinksAgree OwnPins NoGhostBindings
PROPERTIES ParamFollowsLink OrphansOnlyFromLogic KeepsBindings
