CONSTANTS
  a = a
  b = b
  c = c
  Readers = {a, b}
  Requests <- TwoRequests
  NSlots = 2
  Streaming = {b}
  Closing = {a}
  BadLaunch = {3}
  BadPrompt = {3}
  DecodeErrors = TRUE
  MaxDecoded = 2
  Sleeps = TRUE
  LongIdle = TRUE
  Stops = TRUE
  Main = Main
SPECIFICATION Spec
INVARIANTS TaskInOnePlace NoResultLeftBehind NoDuplicateResult SleepsIdle WaitingHasParent
PROPERTIES RequestEnds LoopEnds
CHECK_DEADLOCK FALSE
