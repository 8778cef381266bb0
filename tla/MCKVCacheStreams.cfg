CONSTANTS
  NStream = 2
  NPages = 1
  BlockSize = 2
  NCells = 2
  Budget = 0
  Layout = "trans"
  Seqs = {0, 1}
  MaxPos = 1
  SwaType = "none"
  NSwa = 1
  NUbatch = 2
  FollowK = TRUE
  Zero = Zero
  Lists <- EachSeq
  MaxTokens = 2
  MaxCopies = 2
  Ranges <- TwoRanges
  Deltas <- Down
  Divisors = {}
  Calls = {"clear", "seq_rm", "seq_cp", "seq_add"}
  Failures = {"ubatch"}
SPECIFICATION Spec
INVARIANTS ReadsOwnV KRotated NoShiftInDecode
PROPERTIES PrepareRestores
CHECK_DEADLOCK FALSE
