CONSTANTS
  NCells = 2
  Seqs = {0, 1}
  MaxPos = 2
  Deltas <- MCDeltas
  Divisors = {2}
  ShiftBound = 2
SPECIFICATION Spec
INVARIANTS IndexesExact ShiftTracksPos
CONSTRAINT Bounded
