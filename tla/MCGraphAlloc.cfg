SPECIFICATION Spec
CONSTANTS
  Alignment = 2
  MaxChunkSize = 4
  MaxChunks = 2
  Endless = 40
  NLeafs = 1
  NTensors = 5
  Sizes <- MCSizes
  Outputs = {3, 5}
  MaxSrc = 2
  OutputViews = FALSE
  Rebuilt = {4}
  Resized = {1, 3}
  Rewired = FALSE
INVARIANTS NothingClobbered FreeListExact AllReleased
CHECK_DEADLOCK FALSE
