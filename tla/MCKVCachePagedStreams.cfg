CONSTANTS
  NStream = 2
  NPages = 1
  BlockSize = 2
  NCells = 2
  Budget = 0
  Layout = "paged"
  Seqs = {0, 1}
  MaxPos = 2
  SwaType = "none"
  NSwa = 1
  NUbatch = 1
  FollowK = FALSE
  Zero = Zero
  Lists <- EachSeq
  MaxTokens = 2
  MaxCopies = 1
  Ranges <- TwoRanges
  Deltas = {}
  Divisors = {}
  Calls = {"seq_cp"}
  Failures = {}
SPECIFICATION Spec
INVARIANT ReadsOwnV
CHECK_DEADLOCK FALSE
