CONSTANTS
  bi = bi
  bo = bo
  e1 = e1
  e2 = e2
  None = None
  Broken = Broken
  InNodes <- OneInNode
  OutNodes <- OneOutNode
  Elements <- TwoElements
  Arity = 1
  MaxEdits = 7
SYMMETRY CompilerSymmetry
SPECIFICATION Spec
INVARIANT CodeIsGraph
PROPERTY GraphKept
