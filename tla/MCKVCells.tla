------------------------------ MODULE MCKVCells ------------------------------
(* Small instances of KVCells for TLC.                                      *)
EXTENDS KVCells

MCDeltas == {-2, 1}

\* repeated pos_add and pos_div calls accumulate shifts without bound; the
\* runs follow them up to ShiftBound
CONSTANT ShiftBound

Bounded == \A i \in Idx : /\ cells.shift[i] \in -ShiftBound .. ShiftBound
                          /\ roped[i] \in -ShiftBound .. MaxPos + ShiftBound
==============================================================================
