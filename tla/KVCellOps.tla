------------------------------ MODULE KVCellOps ------------------------------
(***************************************************************************)
(* The cell metadata of one stream of the KV cache: class llama_kv_cells   *)
(* of src/src/llama-kv-cells.h.                                            *)
(*                                                                         *)
(* The class keeps, per cell, a position, the shift accumulated since the  *)
(* last reset_shift and the set of sequences in the cell, and two indexes  *)
(* derived from them and updated by hand in every method: `used', the      *)
(* non-empty cells, and `seq_pos', how often a position occurs in a        *)
(* sequence.  Each method is an operator from the old cells to the new     *)
(* ones.  Module KVCells is the class as a state machine, one call at a    *)
(* time; module KVCache applies the operators in the loops of its owner.   *)
(*                                                                         *)
(* Left out: the 2D coordinates of a cell (ext), which no method reads.    *)
(***************************************************************************)
EXTENDS Integers, FiniteSets

CONSTANTS
  NCells,    \* number of cells (size())
  Seqs,      \* the sequence ids, 0 .. LLAMA_MAX_SEQ-1 in the code
  MaxPos     \* bound on positions (llama_pos is an int32)

ASSUME NCellsAssumption == NCells \in Nat \ {0}
ASSUME MaxPosAssumption == MaxPos \in Nat

Idx       == 0 .. NCells - 1
Positions == 0 .. MaxPos
NoPos     == -1

Cells == [pos       : [Idx -> Positions \cup {NoPos}],
          shift     : [Idx -> Int],
          seq       : [Idx -> SUBSET Seqs],
          used      : SUBSET Idx,
          seq_pos   : [Seqs -> [Positions -> Nat]],
          has_shift : BOOLEAN]

-----------------------------------------------------------------------------
(* Methods of the class, as operators from cells to cells.                 *)

\* reset(), and resize() on a new object
ResetCells ==
  [pos       |-> [i \in Idx |-> NoPos],
   shift     |-> [i \in Idx |-> 0],
   seq       |-> [i \in Idx |-> {}],
   used      |-> {},
   seq_pos   |-> [s \in Seqs |-> [p \in Positions |-> 0]],
   has_shift |-> FALSE]

\* mutant of reset_shift: only the flag is cleared
ResetShiftFlagOnly(c) == [c EXCEPT !.has_shift = FALSE]

ResetShift(c) ==
  [c EXCEPT !.has_shift = FALSE, !.shift = [i \in Idx |-> 0]]

IsEmpty(c, i) == c.pos[i] = NoPos

PosIn(c, i, p0, p1) == c.pos[i] >= p0 /\ c.pos[i] < p1

\* the keys of the map seq_pos[s]: an entry is erased when its count is 0
SeqPosKeys(c, s) == {p \in Positions : c.seq_pos[s][p] > 0}

SeqPosMin(c, s) ==
  LET K == SeqPosKeys(c, s)
  IN  IF K = {} THEN NoPos ELSE CHOOSE p \in K : \A q \in K : p <= q

SeqPosMax(c, s) ==
  LET K == SeqPosKeys(c, s)
  IN  IF K = {} THEN NoPos ELSE CHOOSE p \in K : \A q \in K : q <= p

\* seq_pos_rm and seq_pos_add: one seq_pos_dec or seq_pos_inc for each
\* sequence of S, at position p
Occurs(S, p, s, q) == IF s \in S /\ p = q THEN 1 ELSE 0

SeqPosDec(sp, S, p) ==
  [s \in Seqs |-> [q \in Positions |-> sp[s][q] - Occurs(S, p, s, q)]]

SeqPosInc(sp, S, p) ==
  [s \in Seqs |-> [q \in Positions |-> sp[s][q] + Occurs(S, p, s, q)]]

\* mutant of rm: the index `used' is not updated
RmKeepsUsed(c, i) ==
  [c EXCEPT !.seq_pos  = SeqPosDec(@, c.seq[i], c.pos[i]),
            !.seq[i]   = {},
            !.pos[i]   = NoPos,
            !.shift[i] = 0]

\* rm(i)
Rm(c, i) ==
  [c EXCEPT !.seq_pos  = SeqPosDec(@, c.seq[i], c.pos[i]),
            !.seq[i]   = {},
            !.pos[i]   = NoPos,
            !.shift[i] = 0,
            !.used     = @ \ {i}]

\* seq_rm(i, s): the cell is emptied when s was its last sequence
CellSeqRm(c, i, s) ==
  IF c.seq[i] = {s}
  THEN Rm(c, i)
  ELSE [c EXCEPT !.seq_pos = SeqPosDec(@, {s}, c.pos[i]),
                 !.seq[i]  = @ \ {s}]

\* seq_keep(i, s)
CellSeqKeep(c, i, s) ==
  IF s \in c.seq[i]
  THEN [c EXCEPT !.seq_pos = SeqPosInc(SeqPosDec(@, c.seq[i], c.pos[i]),
                                       {s}, c.pos[i]),
                 !.seq[i]  = {s}]
  ELSE IF c.seq[i] # {} THEN Rm(c, i) ELSE c

\* seq_add(i, s)
CellSeqAdd(c, i, s) ==
  [c EXCEPT !.seq_pos = SeqPosInc(@, {s}, c.pos[i]),
            !.seq[i]  = @ \cup {s}]

\* pos_set(i, p)
PosSet(c, i, p) ==
  [c EXCEPT !.pos[i] = p, !.used = @ \cup {i}]

\* the common part of pos_add and pos_div: cell i moves to position p, and d is
\* accumulated in its shift
MovePos(c, i, p, d) ==
  [c EXCEPT !.seq_pos   = SeqPosInc(SeqPosDec(@, c.seq[i], c.pos[i]), c.seq[i], p),
            !.pos[i]    = p,
            !.shift[i]  = @ + d,
            !.has_shift = TRUE]

\* pos_add(i, d): a cell whose position becomes negative is emptied
PosAdd(c, i, d) ==
  IF c.pos[i] + d < 0
  THEN [Rm(c, i) EXCEPT !.has_shift = TRUE]
  ELSE MovePos(c, i, c.pos[i] + d, d)

\* pos_div(i, d): note the sign of the shift, old minus new, opposite to pos_add
PosDiv(c, i, d) ==
  LET p == c.pos[i] \div d IN MovePos(c, i, p, c.pos[i] - p)

\* one iteration of set(idxs, other): cell i takes position p and sequences S
\* (an empty cell, old or new, counts in no sequence)
SetCell(c, i, p, S) ==
  [c EXCEPT !.seq_pos = SeqPosInc(SeqPosDec(@, c.seq[i], c.pos[i]), S, p),
            !.seq[i]  = S,
            !.pos[i]  = p,
            !.used    = IF p = NoPos THEN @ \ {i} ELSE @ \cup {i}]

-----------------------------------------------------------------------------
Occurrences(c, s, p) == {i \in Idx : c.pos[i] = p /\ s \in c.seq[i]}

\* The derived indexes agree with the cells: `used' holds exactly the cells
\* with a position, an empty cell belongs to no sequence, and seq_pos[s][p]
\* counts the cells of s at p.  Every assertion inside seq_pos_dec (the entry
\* exists) and the meaning of seq_pos_min/max follow from it.
ConsistentCells(c) ==
  /\ c.used = {i \in Idx : c.pos[i] # NoPos}
  /\ \A i \in Idx : c.pos[i] = NoPos => c.seq[i] = {}
  /\ \A s \in Seqs, p \in Positions :
       c.seq_pos[s][p] = Cardinality(Occurrences(c, s, p))
==============================================================================
