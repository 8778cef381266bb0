CONSTANTS
  Seqs = {0, 1, 2}
  NUbatch = 4
  Modes = {"simple", "equal", "equal_seq", "seq"}
  MaxTokens = 5
  Lists <- ManyLists
  Batches <- ShrinkingBatches
SPECIFICATION SplitSpec
INVARIANTS EachTokenOnce SequenceOrderKept StreamsContiguous
CHECK_DEADLOCK FALSE
