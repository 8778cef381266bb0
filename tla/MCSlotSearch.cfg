CONSTANTS
  NCells = 6
  Seqs = {0}
  MaxPos = 0
  SwaType = "none"
  NSwa = 1
SPECIFICATION SearchSpec
INVARIANT FindsSlot
PROPERTY SearchEnds
CHECK_DEADLOCK FALSE
