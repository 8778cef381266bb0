CONSTANTS
  NStream = 1
  NPages = 2
  BlockSize = 2
  NCells = 4
  Budget = 0
  Layout = "paged"
  Seqs = {0, 1}
  MaxPos = 3
  SwaType = "standard"
  NSwa = 2
  NUbatch = 1
  FollowK = FALSE
  Zero = Zero
  Lists <- EachSeq
  MaxTokens = 3
  MaxCopies = 0
  Ranges <- WholeRange
  Deltas = {}
  Divisors = {2}
  Calls = {"clear", "seq_rm", "rm_any", "seq_cp", "seq_keep", "seq_div"}
  Failures = {"ubatch"}
SPECIFICATION Spec
INVARIANTS CellsConsistent ReadsOwnV PlanUsable
PROPERTIES WindowKept FailedUbatchGone
CONSTRAINT FewIrregular
CHECK_DEADLOCK FALSE
