CONSTANTS
  Sizes = {0, 1, 3, 5, 7}
  Buffers <- SomeBuffers
  MaxPerRead = 2
  UpdateBlock = 2
  Wrap = 4
  CountMod = 4
SPECIFICATION Spec
INVARIANTS UploadIsWhole
