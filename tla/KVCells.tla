------------------------------- MODULE KVCells -------------------------------
(***************************************************************************)
(* Class llama_kv_cells (src/src/llama-kv-cells.h) as a state machine: its *)
(* caller invokes one method at a time, within the preconditions that its  *)
(* assertions state.  The methods are the operators of module KVCellOps.   *)
(*                                                                         *)
(* `roped' is a history variable: the position at which the K data of a    *)
(* cell is currently rotated, i.e. the position it was written at plus the *)
(* shifts applied to the tensor before each reset_shift.  `divided' is     *)
(* another: the cells that pos_div was called on since they were written.  *)
(***************************************************************************)
EXTENDS KVCellOps

CONSTANTS Deltas, Divisors    \* arguments of pos_add and pos_div

ASSUME DeltasAssumption   == Deltas \subseteq Int
ASSUME DivisorsAssumption == Divisors \subseteq Nat \ {0}

VARIABLES cells, roped, divided

vars == <<cells, roped, divided>>

Init == /\ cells = ResetCells
        /\ roped = [i \in Idx |-> 0]
        /\ divided = {}

DoReset == cells' = ResetCells /\ UNCHANGED <<roped, divided>>

\* the owner rotates K by the accumulated shifts, then calls reset_shift()
DoResetShift ==
  /\ cells' = ResetShift(cells)
  /\ roped' = [i \in Idx |-> roped[i] + cells.shift[i]]
  /\ UNCHANGED divided

DoRm(i) ==
  /\ ~ IsEmpty(cells, i)
  /\ cells' = Rm(cells, i)
  /\ UNCHANGED <<roped, divided>>

DoSeqRm(i, s) ==
  /\ s \in cells.seq[i] /\ ~ IsEmpty(cells, i)
  /\ cells' = CellSeqRm(cells, i, s)
  /\ UNCHANGED <<roped, divided>>

DoSeqKeep(i, s) ==
  /\ cells.seq[i] = {} => IsEmpty(cells, i)
  /\ cells' = CellSeqKeep(cells, i, s)
  /\ UNCHANGED <<roped, divided>>

DoSeqAdd(i, s) ==
  /\ ~ IsEmpty(cells, i) /\ s \notin cells.seq[i]
  /\ cells' = CellSeqAdd(cells, i, s)
  /\ UNCHANGED <<roped, divided>>

\* the K data of the token is written, rotated for position p
DoPosSet(i, p) ==
  /\ IsEmpty(cells, i) /\ cells.seq[i] = {}
  /\ cells' = PosSet(cells, i, p)
  /\ roped' = [roped EXCEPT ![i] = p]
  /\ divided' = divided \ {i}

DoPosAdd(i, d) ==
  /\ ~ IsEmpty(cells, i)
  /\ cells.pos[i] + d <= MaxPos
  /\ cells' = PosAdd(cells, i, d)
  /\ UNCHANGED <<roped, divided>>

DoPosDiv(i, d) ==
  /\ ~ IsEmpty(cells, i)
  /\ cells' = PosDiv(cells, i, d)
  /\ divided' = divided \cup {i}
  /\ UNCHANGED roped

\* set() puts back a saved cell; the K data is that of the saved position
DoSetCell(i, p, S) ==
  /\ cells.shift[i] = 0
  /\ cells' = SetCell(cells, i, p, S)
  /\ roped' = [roped EXCEPT ![i] = IF p # NoPos THEN p ELSE @]
  /\ divided' = divided \ {i}

\* what set() can be given: an empty cell, or a position with its sequences, of
\* which there may be none
SavedCell(p, S) == p = NoPos => S = {}

Next ==
  \/ DoReset
  \/ DoResetShift
  \/ \E i \in Idx : DoRm(i)
  \/ \E i \in Idx, s \in Seqs : DoSeqRm(i, s)
  \/ \E i \in Idx, s \in Seqs : DoSeqKeep(i, s)
  \/ \E i \in Idx, s \in Seqs : DoSeqAdd(i, s)
  \/ \E i \in Idx, p \in Positions : DoPosSet(i, p)
  \/ \E i \in Idx, d \in Deltas : DoPosAdd(i, d)
  \/ \E i \in Idx, d \in Divisors : DoPosDiv(i, d)
  \/ \E i \in Idx, p \in Positions \cup {NoPos}, S \in SUBSET Seqs :
       SavedCell(p, S) /\ DoSetCell(i, p, S)

Spec == Init /\ [][Next]_vars

-----------------------------------------------------------------------------
(* Properties.                                                             *)

TypeOK == /\ cells \in Cells
          /\ roped \in [Idx -> Int]
          /\ divided \subseteq Idx

\* The hand-maintained indexes of the class are exact after any sequence of
\* method calls.
IndexesExact == ConsistentCells(cells)

\* Rotating the K data of a cell by its shift brings it to the cell's position,
\* unless pos_div was called on it, and a cell has a shift only when has_shift
\* announces it: what pos_add, reset_shift, emptying, restoring and reusing the
\* cell leave in its shift is the rotation still owed.
ShiftTracksPos ==
  /\ \A i \in cells.used \ divided : roped[i] + cells.shift[i] = cells.pos[i]
  /\ \A i \in Idx : cells.shift[i] # 0 => cells.has_shift

==============================================================================
