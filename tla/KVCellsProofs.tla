---------------------------- MODULE KVCellsProofs ----------------------------
(***************************************************************************)
(* Proofs about the cells of the KV cache: the methods of KVCells, for any *)
(* number of cells, sequences and positions, and the search of SlotSearch, *)
(* for any cells, tokens and start.                                        *)
(*                                                                         *)
(* Every method changes one cell i: it takes i from its old position and   *)
(* sequences to new ones and corrects the counts of seq_pos by one at the  *)
(* old and at the new position.  Lemma CellChange says that such a change  *)
(* keeps the indexes exact; the lemma of each method shows that the method *)
(* is one.                                                                 *)
(*                                                                         *)
(* The search keeps that no slot begins at a cell behind it, or that the   *)
(* usable ones behind it are taken (SearchInv).                            *)
(***************************************************************************)
EXTENDS KVCells, SlotSearch, FiniteSetTheorems, WellFoundedInduction, TLAPS

\* Idx is finite, hence so is every set of occurrences.
LEMMA OccurrencesFinite ==
  ASSUME NEW c, NEW s, NEW p
  PROVE  /\ IsFiniteSet(Occurrences(c, s, p))
         /\ Cardinality(Occurrences(c, s, p)) \in Nat
<1>1. IsFiniteSet(Idx)
  BY FS_Interval, NCellsAssumption DEF Idx
<1>2. Occurrences(c, s, p) \subseteq Idx
  BY DEF Occurrences
<1>3. IsFiniteSet(Occurrences(c, s, p))
  BY <1>1, <1>2, FS_Subset
<1>. QED
  BY <1>3, FS_CardinalityType

\* d is c with cell i at position p in the sequences S, and `used' and
\* seq_pos corrected for it.
CellChanged(c, d, i, p, S) ==
  /\ d.pos  = [c.pos EXCEPT ![i] = p]
  /\ d.seq  = [c.seq EXCEPT ![i] = S]
  /\ d.used = IF p = NoPos THEN c.used \ {i} ELSE c.used \cup {i}
  /\ d.seq_pos \in [Seqs -> [Positions -> Int]]
  /\ \A s \in Seqs, q \in Positions :
       d.seq_pos[s][q] = c.seq_pos[s][q] - Occurs(c.seq[i], c.pos[i], s, q)
                                         + Occurs(S, p, s, q)

\* A change of one cell, as every method makes it, keeps the indexes of
\* llama_kv_cells exact and the counts of seq_pos natural numbers.
LEMMA CellChange ==
  ASSUME NEW c \in Cells, ConsistentCells(c), NEW d, NEW i \in Idx,
         NEW p \in Positions \cup {NoPos}, NEW S \in SUBSET Seqs,
         p = NoPos => S = {},
         CellChanged(c, d, i, p, S)
  PROVE  ConsistentCells(d) /\ d.seq_pos \in [Seqs -> [Positions -> Nat]]
<1>1. d.used = {j \in Idx : d.pos[j] # NoPos}
  BY DEF ConsistentCells, CellChanged, Cells
<1>2. \A j \in Idx : d.pos[j] = NoPos => d.seq[j] = {}
  BY DEF ConsistentCells, CellChanged, Cells
<1>3. ASSUME NEW s \in Seqs, NEW q \in Positions
      PROVE  d.seq_pos[s][q] = Cardinality(Occurrences(d, s, q))
  <2> DEFINE O == Occurrences(c, s, q)
             N == Occurrences(d, s, q)
  <2>1. c.seq_pos[s][q] = Cardinality(O)
    BY DEF ConsistentCells
  <2>2. /\ IsFiniteSet(O \ {i}) /\ i \notin O \ {i}
        /\ Cardinality(O \ {i}) \in Nat
    <3>1. IsFiniteSet(O)
      BY OccurrencesFinite
    <3>2. IsFiniteSet(O \ {i})
      BY <3>1, FS_Subset, O \ {i} \subseteq O
    <3>. QED BY <3>2, FS_CardinalityType
  <2>3. Cardinality(O) = Cardinality(O \ {i}) + Occurs(c.seq[i], c.pos[i], s, q)
    <3>0. i \in O <=> (s \in c.seq[i] /\ c.pos[i] = q)
      BY DEF Occurrences
    <3> HIDE DEF O
    <3>1. CASE i \in O
      <4>1. O = (O \ {i}) \cup {i}
        BY <3>1
      <4>2. Cardinality((O \ {i}) \cup {i}) = Cardinality(O \ {i}) + 1
        BY <2>2, FS_AddElement, Zenon
      <4>. QED BY <3>0, <3>1, <4>1, <4>2, <2>2 DEF Occurs
    <3>2. CASE i \notin O
      <4>1. O \ {i} = O
        BY <3>2
      <4>2. Cardinality(O \ {i}) = Cardinality(O)
        BY <4>1
      <4>3. Occurs(c.seq[i], c.pos[i], s, q) = 0
        BY <3>0, <3>2 DEF Occurs
      <4>. QED BY <4>2, <4>3, <2>2
    <3>. QED BY <3>1, <3>2
  <2>4. N \ {i} = O \ {i}
    BY DEF Occurrences, CellChanged, Cells
  <2>5. Cardinality(N) = Cardinality(O \ {i}) + Occurs(S, p, s, q)
    <3>0. i \in N <=> (s \in S /\ p = q)
      BY DEF Occurrences, CellChanged, Cells
    <3> HIDE DEF O, N
    <3>1. CASE i \in N
      <4>1. N = (O \ {i}) \cup {i}
        BY <3>1, <2>4
      <4>2. Cardinality((O \ {i}) \cup {i}) = Cardinality(O \ {i}) + 1
        BY <2>2, FS_AddElement, Zenon
      <4>. QED BY <3>0, <3>1, <4>1, <4>2, <2>2 DEF Occurs
    <3>2. CASE i \notin N
      <4>1. N = O \ {i}
        BY <3>2, <2>4
      <4>. QED BY <3>0, <3>2, <4>1, <2>2 DEF Occurs
    <3>. QED BY <3>1, <3>2
  <2>6. d.seq_pos[s][q] = Cardinality(O) - Occurs(c.seq[i], c.pos[i], s, q)
                                         + Occurs(S, p, s, q)
    BY <2>1 DEF CellChanged
  <2>7. d.seq_pos[s][q] = Cardinality(N)
    <3>1. Occurs(c.seq[i], c.pos[i], s, q) \in Nat /\ Occurs(S, p, s, q) \in Nat
      BY DEF Occurs
    <3> HIDE DEF O, N
    <3>. QED BY <3>1, <2>2, <2>3, <2>5, <2>6
  <2>. QED BY <2>7
<1>4. d.seq_pos \in [Seqs -> [Positions -> Nat]]
  <2>1. \A s \in Seqs, q \in Positions : d.seq_pos[s][q] \in Nat
    BY <1>3, OccurrencesFinite
  <2>. QED BY <2>1 DEF CellChanged
<1>. QED
  BY <1>1, <1>2, <1>3, <1>4 DEF ConsistentCells

-----------------------------------------------------------------------------
(* One lemma per method: it changes one cell, and so keeps the invariant.  *)

\* rm(i) keeps the indexes exact.
LEMMA RmOK ==
  ASSUME NEW c \in Cells, ConsistentCells(c), NEW i \in Idx,
         ~ IsEmpty(c, i)
  PROVE  Rm(c, i) \in Cells /\ ConsistentCells(Rm(c, i))
<1> DEFINE d  == Rm(c, i)
           S  == {}
           p  == NoPos
           sp == SeqPosDec(c.seq_pos, c.seq[i], c.pos[i])
<1>0. /\ c.seq_pos \in [Seqs -> [Positions -> Int]]
      /\ S \in SUBSET Seqs /\ p \in Positions \cup {NoPos}
      /\ p = NoPos => S = {}
  BY DEF Cells, IsEmpty, Positions, NoPos, ConsistentCells
<1>1. /\ d.pos = [c.pos EXCEPT ![i] = p]
      /\ d.seq = [c.seq EXCEPT ![i] = S]
      /\ d.used = IF p = NoPos THEN c.used \ {i} ELSE c.used \cup {i}
      /\ d.seq_pos = sp
  BY DEF Rm, Cells, IsEmpty, NoPos, Positions, ConsistentCells
<1>2. ASSUME NEW t \in Seqs, NEW q \in Positions
      PROVE  /\ sp[t][q] \in Int
             /\ sp[t][q] = c.seq_pos[t][q] - Occurs(c.seq[i], c.pos[i], t, q)
                                           + Occurs(S, p, t, q)
  <2>1. c.seq_pos[t][q] \in Int
    BY <1>0
  <2>2. sp[t][q] = c.seq_pos[t][q] - Occurs(c.seq[i], c.pos[i], t, q)
    BY DEF SeqPosInc, SeqPosDec
  <2>3. /\ Occurs(c.seq[i], c.pos[i], t, q) \in Int /\ Occurs(S, p, t, q) \in Int
        /\ Occurs(S, p, t, q) = 0
    BY <1>0 DEF Occurs, IsEmpty, NoPos, Positions
  <2> HIDE DEF sp, p, S
  <2>. QED BY <2>1, <2>2, <2>3
<1>3. sp \in [Seqs -> [Positions -> Int]]
  BY <1>0, <1>2 DEF SeqPosInc, SeqPosDec
<1> HIDE DEF d, sp, p, S
<1>4. CellChanged(c, d, i, p, S)
  BY <1>1, <1>2, <1>3 DEF CellChanged
<1>5. ConsistentCells(d) /\ d.seq_pos \in [Seqs -> [Positions -> Nat]]
  BY <1>0, <1>4, CellChange
<1>6. d \in Cells
  <2>1. sp \in [Seqs -> [Positions -> Nat]]
    BY <1>1, <1>5
  <2>2. /\ d = [c EXCEPT !.seq_pos = sp, !.seq[i] = S, !.pos[i] = p, !.shift[i] = 0,
                       !.used = c.used \ {i}]
        /\ c.used \ {i} \in SUBSET Idx /\ 0 \in Int
    BY DEF d, sp, p, S, Rm, Cells
  <2>. QED BY <1>0, <2>1, <2>2, Zenon DEF Cells
<1>. QED BY <1>5, <1>6 DEF d

\* seq_rm(i, s) keeps the indexes exact when other sequences stay in the cell.
LEMMA CellSeqRmSome ==
  ASSUME NEW c \in Cells, ConsistentCells(c), NEW i \in Idx,
         NEW s \in Seqs, s \in c.seq[i], c.seq[i] # {s}, ~ IsEmpty(c, i)
  PROVE  CellSeqRm(c, i, s) \in Cells /\ ConsistentCells(CellSeqRm(c, i, s))
<1> DEFINE d  == CellSeqRm(c, i, s)
           S  == c.seq[i] \ {s}
           p  == c.pos[i]
           sp == SeqPosDec(c.seq_pos, {s}, c.pos[i])
<1>0. /\ c.seq_pos \in [Seqs -> [Positions -> Int]]
      /\ S \in SUBSET Seqs /\ p \in Positions \cup {NoPos}
      /\ p = NoPos => S = {}
  BY DEF Cells, IsEmpty, Positions, NoPos, ConsistentCells
<1>1. /\ d.pos = [c.pos EXCEPT ![i] = p]
      /\ d.seq = [c.seq EXCEPT ![i] = S]
      /\ d.used = IF p = NoPos THEN c.used \ {i} ELSE c.used \cup {i}
      /\ d.seq_pos = sp
  BY DEF CellSeqRm, Cells, IsEmpty, NoPos, Positions, ConsistentCells
<1>2. ASSUME NEW t \in Seqs, NEW q \in Positions
      PROVE  /\ sp[t][q] \in Int
             /\ sp[t][q] = c.seq_pos[t][q] - Occurs(c.seq[i], c.pos[i], t, q)
                                           + Occurs(S, p, t, q)
  <2>1. c.seq_pos[t][q] \in Int
    BY <1>0
  <2>2. sp[t][q] = c.seq_pos[t][q] - Occurs({s}, c.pos[i], t, q)
    BY DEF SeqPosInc, SeqPosDec
  <2>3. /\ Occurs(c.seq[i], c.pos[i], t, q) \in Int /\ Occurs(S, p, t, q) \in Int
        /\ Occurs({s}, c.pos[i], t, q) = Occurs(c.seq[i], c.pos[i], t, q) - Occurs(S, p, t, q)
    BY <1>0 DEF Occurs, IsEmpty, NoPos, Positions
  <2> HIDE DEF sp, p, S
  <2>. QED BY <2>1, <2>2, <2>3
<1>3. sp \in [Seqs -> [Positions -> Int]]
  BY <1>0, <1>2, Zenon DEF SeqPosInc, SeqPosDec
<1> HIDE DEF d, sp, p, S
<1>4. CellChanged(c, d, i, p, S)
  BY <1>1, <1>2, <1>3 DEF CellChanged
<1>5. ConsistentCells(d) /\ d.seq_pos \in [Seqs -> [Positions -> Nat]]
  BY <1>0, <1>4, CellChange, Zenon
<1>6. d \in Cells
  <2>1. sp \in [Seqs -> [Positions -> Nat]]
    BY <1>1, <1>5
  <2>2. d = [c EXCEPT !.seq_pos = sp, !.seq[i] = S]
    BY DEF d, sp, p, S, CellSeqRm, Cells
  <2>. QED BY <1>0, <2>1, <2>2, Zenon DEF Cells
<1>. QED BY <1>5, <1>6 DEF d

\* seq_add(i, s) keeps the indexes exact, for a cell that is not yet in s.
LEMMA CellSeqAddOK ==
  ASSUME NEW c \in Cells, ConsistentCells(c), NEW i \in Idx,
         NEW s \in Seqs, s \notin c.seq[i], ~ IsEmpty(c, i)
  PROVE  CellSeqAdd(c, i, s) \in Cells /\ ConsistentCells(CellSeqAdd(c, i, s))
<1> DEFINE d  == CellSeqAdd(c, i, s)
           S  == c.seq[i] \cup {s}
           p  == c.pos[i]
           sp == SeqPosInc(c.seq_pos, {s}, c.pos[i])
<1>0. /\ c.seq_pos \in [Seqs -> [Positions -> Int]]
      /\ S \in SUBSET Seqs /\ p \in Positions \cup {NoPos}
      /\ p = NoPos => S = {}
  BY DEF Cells, IsEmpty, Positions, NoPos, ConsistentCells
<1>1. /\ d.pos = [c.pos EXCEPT ![i] = p]
      /\ d.seq = [c.seq EXCEPT ![i] = S]
      /\ d.used = IF p = NoPos THEN c.used \ {i} ELSE c.used \cup {i}
      /\ d.seq_pos = sp
  BY DEF CellSeqAdd, Cells, IsEmpty, NoPos, Positions, ConsistentCells
<1>2. ASSUME NEW t \in Seqs, NEW q \in Positions
      PROVE  /\ sp[t][q] \in Int
             /\ sp[t][q] = c.seq_pos[t][q] - Occurs(c.seq[i], c.pos[i], t, q)
                                           + Occurs(S, p, t, q)
  <2>1. c.seq_pos[t][q] \in Int
    BY <1>0
  <2>2. sp[t][q] = c.seq_pos[t][q] + Occurs({s}, c.pos[i], t, q)
    BY DEF SeqPosInc, SeqPosDec
  <2>3. /\ Occurs(c.seq[i], c.pos[i], t, q) \in Int /\ Occurs(S, p, t, q) \in Int
        /\ Occurs({s}, c.pos[i], t, q) = Occurs(S, p, t, q) - Occurs(c.seq[i], c.pos[i], t, q)
    BY <1>0 DEF Occurs, IsEmpty, NoPos, Positions
  <2> HIDE DEF sp, p, S
  <2>. QED BY <2>1, <2>2, <2>3
<1>3. sp \in [Seqs -> [Positions -> Int]]
  BY <1>0, <1>2, Zenon DEF SeqPosInc, SeqPosDec
<1> HIDE DEF d, sp, p, S
<1>4. CellChanged(c, d, i, p, S)
  BY <1>1, <1>2, <1>3 DEF CellChanged
<1>5. ConsistentCells(d) /\ d.seq_pos \in [Seqs -> [Positions -> Nat]]
  BY <1>0, <1>4, CellChange
<1>6. d \in Cells
  <2>1. sp \in [Seqs -> [Positions -> Nat]]
    BY <1>1, <1>5
  <2>2. d = [c EXCEPT !.seq_pos = sp, !.seq[i] = S]
    BY DEF d, sp, p, S, CellSeqAdd, Cells
  <2>. QED BY <1>0, <2>1, <2>2, Zenon DEF Cells
<1>. QED BY <1>5, <1>6 DEF d

\* pos_set(i, r) keeps the indexes exact, for an empty cell.
LEMMA PosSetOK ==
  ASSUME NEW c \in Cells, ConsistentCells(c), NEW i \in Idx,
         NEW r \in Positions, IsEmpty(c, i), c.seq[i] = {}
  PROVE  PosSet(c, i, r) \in Cells /\ ConsistentCells(PosSet(c, i, r))
<1> DEFINE d  == PosSet(c, i, r)
           S  == {}
           p  == r
           sp == c.seq_pos
<1>0. /\ c.seq_pos \in [Seqs -> [Positions -> Int]]
      /\ S \in SUBSET Seqs /\ p \in Positions \cup {NoPos}
      /\ p = NoPos => S = {}
  BY DEF Cells, IsEmpty, Positions, NoPos, ConsistentCells
<1>1. /\ d.pos = [c.pos EXCEPT ![i] = p]
      /\ d.seq = [c.seq EXCEPT ![i] = S]
      /\ d.used = IF p = NoPos THEN c.used \ {i} ELSE c.used \cup {i}
      /\ d.seq_pos = sp
  BY DEF PosSet, Cells, IsEmpty, NoPos, Positions, ConsistentCells
<1>2. ASSUME NEW t \in Seqs, NEW q \in Positions
      PROVE  /\ sp[t][q] \in Int
             /\ sp[t][q] = c.seq_pos[t][q] - Occurs(c.seq[i], c.pos[i], t, q)
                                           + Occurs(S, p, t, q)
  <2>1. c.seq_pos[t][q] \in Int
    BY <1>0
  <2>2. sp[t][q] = c.seq_pos[t][q]
    BY DEF SeqPosInc, SeqPosDec
  <2>3. /\ Occurs(c.seq[i], c.pos[i], t, q) \in Int /\ Occurs(S, p, t, q) \in Int
        /\ Occurs(S, p, t, q) = 0 /\ Occurs(c.seq[i], c.pos[i], t, q) = 0
    BY <1>0 DEF Occurs, IsEmpty, NoPos, Positions
  <2> HIDE DEF sp, p, S
  <2>. QED BY <2>1, <2>2, <2>3
<1>3. sp \in [Seqs -> [Positions -> Int]]
  BY <1>0, <1>2 DEF SeqPosInc, SeqPosDec
<1> HIDE DEF d, sp, p, S
<1>4. CellChanged(c, d, i, p, S)
  BY <1>1, <1>2, <1>3 DEF CellChanged
<1>5. ConsistentCells(d) /\ d.seq_pos \in [Seqs -> [Positions -> Nat]]
  BY <1>0, <1>4, CellChange
<1>6. d \in Cells
  <2>1. sp \in [Seqs -> [Positions -> Nat]]
    BY <1>1, <1>5
  <2>2. /\ d = [c EXCEPT !.pos[i] = p, !.used = c.used \cup {i}]
        /\ c.used \cup {i} \in SUBSET Idx
    BY DEF d, sp, p, S, PosSet, Cells
  <2>. QED BY <1>0, <2>1, <2>2, Zenon DEF Cells
<1>. QED BY <1>5, <1>6 DEF d

\* The move of a cell by pos_add or pos_div keeps the indexes exact.
LEMMA MovePosOK ==
  ASSUME NEW c \in Cells, ConsistentCells(c), NEW i \in Idx,
         NEW r \in Positions, NEW z \in Int, ~ IsEmpty(c, i)
  PROVE  MovePos(c, i, r, z) \in Cells /\ ConsistentCells(MovePos(c, i, r, z))
<1> DEFINE d  == MovePos(c, i, r, z)
           S  == c.seq[i]
           p  == r
           sp == SeqPosInc(SeqPosDec(c.seq_pos, c.seq[i], c.pos[i]), S, p)
<1>0. /\ c.seq_pos \in [Seqs -> [Positions -> Int]]
      /\ S \in SUBSET Seqs /\ p \in Positions \cup {NoPos}
      /\ p = NoPos => S = {}
  BY DEF Cells, IsEmpty, Positions, NoPos, ConsistentCells
<1>1. /\ d.pos = [c.pos EXCEPT ![i] = p]
      /\ d.seq = [c.seq EXCEPT ![i] = S]
      /\ d.used = IF p = NoPos THEN c.used \ {i} ELSE c.used \cup {i}
      /\ d.seq_pos = sp
  BY DEF MovePos, Cells, IsEmpty, NoPos, Positions, ConsistentCells
<1>2. ASSUME NEW t \in Seqs, NEW q \in Positions
      PROVE  /\ sp[t][q] \in Int
             /\ sp[t][q] = c.seq_pos[t][q] - Occurs(c.seq[i], c.pos[i], t, q)
                                           + Occurs(S, p, t, q)
  <2>1. c.seq_pos[t][q] \in Int
    BY <1>0
  <2>2. sp[t][q] = c.seq_pos[t][q] - Occurs(c.seq[i], c.pos[i], t, q) + Occurs(S, p, t, q)
    BY DEF SeqPosInc, SeqPosDec
  <2>3. /\ Occurs(c.seq[i], c.pos[i], t, q) \in Int /\ Occurs(S, p, t, q) \in Int
        /\ TRUE
    BY <1>0 DEF Occurs, IsEmpty, NoPos, Positions
  <2> HIDE DEF sp, p, S
  <2>. QED BY <2>1, <2>2, <2>3
<1>3. sp \in [Seqs -> [Positions -> Int]]
  BY <1>0, <1>2 DEF SeqPosInc, SeqPosDec
<1> HIDE DEF d, sp, p, S
<1>4. CellChanged(c, d, i, p, S)
  BY <1>1, <1>2, <1>3 DEF CellChanged
<1>5. ConsistentCells(d) /\ d.seq_pos \in [Seqs -> [Positions -> Nat]]
  BY <1>0, <1>4, CellChange
<1>6. d \in Cells
  <2>1. sp \in [Seqs -> [Positions -> Nat]]
    BY <1>1, <1>5
  <2>2. /\ d = [c EXCEPT !.seq_pos = sp, !.pos[i] = p,
                       !.shift[i] = c.shift[i] + z, !.has_shift = TRUE]
        /\ c.shift[i] + z \in Int
    BY DEF d, sp, p, S, MovePos, Cells
  <2>. QED BY <1>0, <2>1, <2>2, Zenon DEF Cells
<1>. QED BY <1>5, <1>6 DEF d

\* one iteration of set(idxs, other) keeps the indexes exact.
LEMMA SetCellOK ==
  ASSUME NEW c \in Cells, ConsistentCells(c), NEW i \in Idx,
         NEW r \in Positions \cup {NoPos}, NEW T \in SUBSET Seqs,
         r = NoPos => T = {}
  PROVE  SetCell(c, i, r, T) \in Cells /\ ConsistentCells(SetCell(c, i, r, T))
<1> DEFINE d  == SetCell(c, i, r, T)
           S  == T
           p  == r
           sp == SeqPosInc(SeqPosDec(c.seq_pos, c.seq[i], c.pos[i]), T, r)
<1>0. /\ c.seq_pos \in [Seqs -> [Positions -> Int]]
      /\ S \in SUBSET Seqs /\ p \in Positions \cup {NoPos}
      /\ p = NoPos => S = {}
  BY DEF Cells, IsEmpty, Positions, NoPos, ConsistentCells
<1>1. /\ d.pos = [c.pos EXCEPT ![i] = p]
      /\ d.seq = [c.seq EXCEPT ![i] = S]
      /\ d.used = IF p = NoPos THEN c.used \ {i} ELSE c.used \cup {i}
      /\ d.seq_pos = sp
  BY DEF SetCell, Cells, IsEmpty, NoPos, Positions, ConsistentCells
<1>2. ASSUME NEW t \in Seqs, NEW q \in Positions
      PROVE  /\ sp[t][q] \in Int
             /\ sp[t][q] = c.seq_pos[t][q] - Occurs(c.seq[i], c.pos[i], t, q)
                                           + Occurs(S, p, t, q)
  <2>1. c.seq_pos[t][q] \in Int
    BY <1>0
  <2>2. sp[t][q] = c.seq_pos[t][q] - Occurs(c.seq[i], c.pos[i], t, q) + Occurs(S, p, t, q)
    BY DEF SeqPosInc, SeqPosDec
  <2>3. /\ Occurs(c.seq[i], c.pos[i], t, q) \in Int /\ Occurs(S, p, t, q) \in Int
        /\ TRUE
    BY <1>0 DEF Occurs, IsEmpty, NoPos, Positions
  <2> HIDE DEF sp, p, S
  <2>. QED BY <2>1, <2>2, <2>3
<1>3. sp \in [Seqs -> [Positions -> Int]]
  BY <1>0, <1>2 DEF SeqPosInc, SeqPosDec
<1> HIDE DEF d, sp, p, S
<1>4. CellChanged(c, d, i, p, S)
  BY <1>1, <1>2, <1>3 DEF CellChanged
<1>5. ConsistentCells(d) /\ d.seq_pos \in [Seqs -> [Positions -> Nat]]
  BY <1>0, <1>4, CellChange
<1>6. d \in Cells
  <2>1. sp \in [Seqs -> [Positions -> Nat]]
    BY <1>1, <1>5
  <2>2. /\ d = [c EXCEPT !.seq_pos = sp, !.seq[i] = S, !.pos[i] = p,
                       !.used = IF p = NoPos THEN c.used \ {i} ELSE c.used \cup {i}]
        /\ c.used \ {i} \in SUBSET Idx /\ c.used \cup {i} \in SUBSET Idx
    BY DEF d, sp, p, S, SetCell, Cells
  <2>. QED BY <1>0, <2>1, <2>2, Zenon DEF Cells
<1>. QED BY <1>5, <1>6 DEF d

\* seq_keep(i, s) keeps the indexes exact for a cell that is in s.
LEMMA CellSeqKeepSome ==
  ASSUME NEW c \in Cells, ConsistentCells(c), NEW i \in Idx,
         NEW s \in Seqs, s \in c.seq[i], ~ IsEmpty(c, i)
  PROVE  CellSeqKeep(c, i, s) \in Cells /\ ConsistentCells(CellSeqKeep(c, i, s))
<1> DEFINE d  == CellSeqKeep(c, i, s)
           S  == {s}
           p  == c.pos[i]
           sp == SeqPosInc(SeqPosDec(c.seq_pos, c.seq[i], c.pos[i]), S, p)
<1>0. /\ c.seq_pos \in [Seqs -> [Positions -> Int]]
      /\ S \in SUBSET Seqs /\ p \in Positions \cup {NoPos}
      /\ p = NoPos => S = {}
  BY DEF Cells, IsEmpty, Positions, NoPos, ConsistentCells
<1>1. /\ d.pos = [c.pos EXCEPT ![i] = p]
      /\ d.seq = [c.seq EXCEPT ![i] = S]
      /\ d.used = IF p = NoPos THEN c.used \ {i} ELSE c.used \cup {i}
      /\ d.seq_pos = sp
  BY DEF CellSeqKeep, Cells, IsEmpty, NoPos, Positions, ConsistentCells
<1>2. ASSUME NEW t \in Seqs, NEW q \in Positions
      PROVE  /\ sp[t][q] \in Int
             /\ sp[t][q] = c.seq_pos[t][q] - Occurs(c.seq[i], c.pos[i], t, q)
                                           + Occurs(S, p, t, q)
  <2>1. c.seq_pos[t][q] \in Int
    BY <1>0
  <2>2. sp[t][q] = c.seq_pos[t][q] - Occurs(c.seq[i], c.pos[i], t, q) + Occurs(S, p, t, q)
    BY DEF SeqPosInc, SeqPosDec
  <2>3. /\ Occurs(c.seq[i], c.pos[i], t, q) \in Int /\ Occurs(S, p, t, q) \in Int
        /\ TRUE
    BY <1>0 DEF Occurs, IsEmpty, NoPos, Positions
  <2> HIDE DEF sp, p, S
  <2>. QED BY <2>1, <2>2, <2>3
<1>3. sp \in [Seqs -> [Positions -> Int]]
  BY <1>0, <1>2, Zenon DEF SeqPosInc, SeqPosDec
<1> HIDE DEF d, sp, p, S
<1>4. CellChanged(c, d, i, p, S)
  BY <1>1, <1>2, <1>3 DEF CellChanged
<1>5. ConsistentCells(d) /\ d.seq_pos \in [Seqs -> [Positions -> Nat]]
  BY <1>0, <1>4, CellChange
<1>6. d \in Cells
  <2>1. sp \in [Seqs -> [Positions -> Nat]]
    BY <1>1, <1>5
  <2>2. d = [c EXCEPT !.seq_pos = sp, !.seq[i] = S]
    BY DEF d, sp, p, S, CellSeqKeep, Cells
  <2>. QED BY <1>0, <2>1, <2>2, Zenon DEF Cells
<1>. QED BY <1>5, <1>6 DEF d

\* seq_rm(i, s) keeps the indexes exact, whether or not it empties the cell.
LEMMA CellSeqRmOK ==
  ASSUME NEW c \in Cells, ConsistentCells(c), NEW i \in Idx,
         NEW s \in Seqs, s \in c.seq[i], ~ IsEmpty(c, i)
  PROVE  CellSeqRm(c, i, s) \in Cells /\ ConsistentCells(CellSeqRm(c, i, s))
<1>1. CASE c.seq[i] = {s}
  <2>1. CellSeqRm(c, i, s) = Rm(c, i)
    BY <1>1 DEF CellSeqRm
  <2>. QED BY <2>1, RmOK
<1>2. CASE c.seq[i] # {s}
  BY <1>2, CellSeqRmSome
<1>. QED BY <1>1, <1>2

\* seq_keep(i, s) keeps the indexes exact in each of its three cases.
LEMMA CellSeqKeepOK ==
  ASSUME NEW c \in Cells, ConsistentCells(c), NEW i \in Idx, NEW s \in Seqs
  PROVE  CellSeqKeep(c, i, s) \in Cells /\ ConsistentCells(CellSeqKeep(c, i, s))
<1>0. c.seq[i] # {} => ~ IsEmpty(c, i)
  BY DEF ConsistentCells, IsEmpty
<1>1. CASE s \in c.seq[i]
  BY <1>0, <1>1, CellSeqKeepSome
<1>2. CASE s \notin c.seq[i] /\ c.seq[i] # {}
  <2>1. CellSeqKeep(c, i, s) = Rm(c, i)
    BY <1>2 DEF CellSeqKeep
  <2>. QED BY <1>0, <1>2, <2>1, RmOK
<1>3. CASE c.seq[i] = {}
  BY <1>3 DEF CellSeqKeep
<1>. QED BY <1>1, <1>2, <1>3

\* has_shift is not part of what the indexes derive from.
LEMMA HasShiftOK ==
  ASSUME NEW c \in Cells, ConsistentCells(c)
  PROVE  LET d == [c EXCEPT !.has_shift = TRUE]
         IN  d \in Cells /\ ConsistentCells(d)
<1> DEFINE d == [c EXCEPT !.has_shift = TRUE]
<1>1. /\ d \in Cells
      /\ d.pos = c.pos /\ d.seq = c.seq /\ d.used = c.used /\ d.seq_pos = c.seq_pos
  BY Zenon DEF Cells
<1> HIDE DEF d
<1>2. \A s, p : Occurrences(d, s, p) = Occurrences(c, s, p)
  BY <1>1 DEF Occurrences
<1>3. ConsistentCells(d)
  BY <1>1, <1>2 DEF ConsistentCells
<1>. QED BY <1>1, <1>3 DEF d

\* pos_add(i, n) keeps the indexes exact, whether it moves or empties the cell.
LEMMA PosAddOK ==
  ASSUME NEW c \in Cells, ConsistentCells(c), NEW i \in Idx, NEW n \in Int,
         ~ IsEmpty(c, i), c.pos[i] + n <= MaxPos
  PROVE  PosAdd(c, i, n) \in Cells /\ ConsistentCells(PosAdd(c, i, n))
<1>1. CASE c.pos[i] + n < 0
  <2>1. Rm(c, i) \in Cells /\ ConsistentCells(Rm(c, i))
    BY RmOK
  <2>2. PosAdd(c, i, n) = [Rm(c, i) EXCEPT !.has_shift = TRUE]
    BY <1>1 DEF PosAdd
  <2>. QED BY <2>1, <2>2, HasShiftOK
<1>2. CASE ~ (c.pos[i] + n < 0)
  <2>1. c.pos[i] + n \in Positions
    BY <1>2, MaxPosAssumption DEF Cells, Positions, IsEmpty, NoPos
  <2>2. PosAdd(c, i, n) = MovePos(c, i, c.pos[i] + n, n)
    BY <1>2 DEF PosAdd
  <2>. QED BY <2>1, <2>2, MovePosOK
<1>. QED BY <1>1, <1>2

\* Division by a positive number keeps a position within the bound.
LEMMA DivBound ==
  ASSUME NEW x \in Nat, NEW n \in Nat \ {0}
  PROVE  x \div n \in 0 .. x
<1>1. x \div n \in Int /\ x = n * (x \div n) + (x % n) /\ x % n \in 0 .. n - 1
  OBVIOUS
<1> DEFINE q == x \div n
           m == x % n
<1> HIDE DEF q, m
<1>2. q \in Int /\ m \in 0 .. n - 1 /\ x = n * q + m
  BY <1>1 DEF q, m
<1>3. q >= 0
  <2>1. SUFFICES ASSUME q <= -1 PROVE FALSE
    BY <1>2
  <2>2. n * q <= n * (-1)
    BY <1>2, <2>1
  <2>. QED BY <1>2, <2>2
<1>4. q <= n * q
  BY <1>2, <1>3
<1>5. n * q \in Int
  BY <1>2
<1>6. q <= x
  BY <1>2, <1>4, <1>5
<1>. QED BY <1>2, <1>3, <1>6 DEF q

\* pos_div(i, n) keeps the indexes exact.
LEMMA PosDivOK ==
  ASSUME NEW c \in Cells, ConsistentCells(c), NEW i \in Idx, NEW n \in Nat \ {0},
         ~ IsEmpty(c, i)
  PROVE  PosDiv(c, i, n) \in Cells /\ ConsistentCells(PosDiv(c, i, n))
<1> DEFINE r == c.pos[i] \div n
<1>1. c.pos[i] \in Positions /\ c.pos[i] \in Nat
  BY MaxPosAssumption DEF Cells, Positions, IsEmpty, NoPos
<1>2. r \in 0 .. c.pos[i]
  BY <1>1, DivBound
<1>3. PosDiv(c, i, n) = MovePos(c, i, r, c.pos[i] - r)
  BY DEF PosDiv
<1> HIDE DEF r
<1>4. r \in Positions /\ c.pos[i] - r \in Int
  BY <1>1, <1>2, MaxPosAssumption DEF Positions
<1>. QED BY <1>3, <1>4, MovePosOK

-----------------------------------------------------------------------------
(* The class.                                                              *)

IInv == TypeOK /\ IndexesExact

\* A new object is consistent.
LEMMA ResetOK == ResetCells \in Cells /\ ConsistentCells(ResetCells)
<1>1. ResetCells \in Cells
  BY MaxPosAssumption DEF ResetCells, Cells
<1>2. \A s, p : p \in Positions => Occurrences(ResetCells, s, p) = {}
  BY DEF ResetCells, Occurrences, Positions, NoPos
<1>3. Cardinality({}) = 0
  BY FS_EmptySet
<1>4. /\ ResetCells.used = {i \in Idx : ResetCells.pos[i] # NoPos}
      /\ \A i \in Idx : ResetCells.seq[i] = {}
      /\ \A s \in Seqs, p \in Positions : ResetCells.seq_pos[s][p] = 0
  BY DEF ResetCells
<1>. QED BY <1>1, <1>2, <1>3, <1>4, Zenon DEF ConsistentCells

\* reset_shift() touches nothing the indexes derive from.
LEMMA ResetShiftOK ==
  ASSUME NEW c \in Cells, ConsistentCells(c)
  PROVE  ResetShift(c) \in Cells /\ ConsistentCells(ResetShift(c))
<1> DEFINE d == ResetShift(c)
<1>1. /\ d \in Cells
      /\ d.pos = c.pos /\ d.seq = c.seq /\ d.used = c.used /\ d.seq_pos = c.seq_pos
  <2> DEFINE z == [i \in Idx |-> 0]
  <2>1. d = [c EXCEPT !.has_shift = FALSE, !.shift = z]
    BY DEF ResetShift
  <2>2. z \in [Idx -> Int]
    OBVIOUS
  <2> HIDE DEF d, z
  <2>. QED BY <2>1, <2>2, ZenonT(30) DEF Cells
<1> HIDE DEF d
<1>2. \A s, p : Occurrences(d, s, p) = Occurrences(c, s, p)
  BY <1>1 DEF Occurrences
<1>3. ConsistentCells(d)
  BY <1>1, <1>2 DEF ConsistentCells
<1>. QED BY <1>1, <1>3 DEF d

\* Whatever the owner of the cells calls, in whatever order, the hand-maintained
\* indexes `used' and `seq_pos' of llama_kv_cells stay exact, and no call of
\* seq_pos_dec finds its entry missing (the counts stay natural numbers).
THEOREM IndexesAlwaysExact == Spec => [](TypeOK /\ IndexesExact)
<1> USE DEF IInv, IndexesExact
<1>1. Init => IInv
  BY ResetOK DEF Init, TypeOK
<1>2. IInv /\ [Next]_vars => IInv'
  <2> SUFFICES ASSUME IInv, [Next]_vars PROVE IInv'
    OBVIOUS
  <2>0. /\ cells \in Cells /\ ConsistentCells(cells) /\ roped \in [Idx -> Int] /\ divided \subseteq Idx
        /\ cells.shift \in [Idx -> Int] /\ MaxPos \in Nat
    BY MaxPosAssumption DEF TypeOK, Cells
  <2>1. CASE DoReset
    BY <2>0, <2>1, ResetOK DEF DoReset, TypeOK
  <2>2. CASE DoResetShift
    BY <2>0, <2>2, ResetShiftOK DEF DoResetShift, TypeOK
  <2>3. ASSUME NEW i \in Idx, DoRm(i) PROVE IInv'
    BY <2>0, <2>3, RmOK DEF DoRm, TypeOK
  <2>4. ASSUME NEW i \in Idx, NEW s \in Seqs, DoSeqRm(i, s) PROVE IInv'
    BY <2>0, <2>4, CellSeqRmOK DEF DoSeqRm, TypeOK
  <2>5. ASSUME NEW i \in Idx, NEW s \in Seqs, DoSeqKeep(i, s) PROVE IInv'
    BY <2>0, <2>5, CellSeqKeepOK DEF DoSeqKeep, TypeOK
  <2>6. ASSUME NEW i \in Idx, NEW s \in Seqs, DoSeqAdd(i, s) PROVE IInv'
    BY <2>0, <2>6, CellSeqAddOK DEF DoSeqAdd, TypeOK
  <2>7. ASSUME NEW i \in Idx, NEW p \in Positions, DoPosSet(i, p) PROVE IInv'
    <3>1. cells' \in Cells /\ ConsistentCells(cells')
      BY <2>0, <2>7, PosSetOK DEF DoPosSet
    <3>2. roped' \in [Idx -> Int] /\ divided' \subseteq Idx
      BY <2>0, <2>7 DEF DoPosSet, Positions
    <3>. QED BY <3>1, <3>2 DEF TypeOK
  <2>8. ASSUME NEW i \in Idx, NEW d \in Deltas, DoPosAdd(i, d) PROVE IInv'
    BY <2>0, <2>8, PosAddOK, DeltasAssumption DEF DoPosAdd, TypeOK
  <2>9. ASSUME NEW i \in Idx, NEW d \in Divisors, DoPosDiv(i, d) PROVE IInv'
    BY <2>0, <2>9, PosDivOK, DivisorsAssumption DEF DoPosDiv, TypeOK
  <2>10. ASSUME NEW i \in Idx, NEW p \in Positions \cup {NoPos}, NEW S \in SUBSET Seqs,
                SavedCell(p, S), DoSetCell(i, p, S)
         PROVE  IInv'
    <3>1. cells' \in Cells /\ ConsistentCells(cells')
      BY <2>0, <2>10, SetCellOK DEF DoSetCell, SavedCell
    <3>2. roped' \in [Idx -> Int] /\ divided' \subseteq Idx
      BY <2>0, <2>10 DEF DoSetCell, Positions
    <3>. QED BY <3>1, <3>2 DEF TypeOK
  <2>11. CASE UNCHANGED vars
    BY <2>0, <2>11 DEF vars, TypeOK
  <2>. QED
    BY <2>1, <2>2, <2>3, <2>4, <2>5, <2>6, <2>7, <2>8, <2>9, <2>10, <2>11
       DEF Next
<1>. QED
  BY <1>1, <1>2, PTL DEF Spec

-----------------------------------------------------------------------------
(* The accumulated shifts.                                                 *)

\* an empty cell carries no shift into its next use
EmptyUnshifted == \A i \in Idx : cells.pos[i] = NoPos => cells.shift[i] = 0

\* What one cell needs for the shifts to be right.
CellShiftOK(c, r, D, i) ==
  /\ c.pos[i] # NoPos /\ i \notin D => r[i] + c.shift[i] = c.pos[i]
  /\ c.pos[i] = NoPos => c.shift[i] = 0
  /\ c.shift[i] # 0 => c.has_shift

\* The shift invariant, cell by cell.
LEMMA ShiftInvByCell ==
  IInv => ((ShiftTracksPos /\ EmptyUnshifted) <=> \A i \in Idx : CellShiftOK(cells, roped, divided, i))
BY DEF IInv, IndexesExact, ConsistentCells, ShiftTracksPos, EmptyUnshifted, CellShiftOK

\* Rotating the K data of a cell that pos_div was not called on by its shift brings
\* it to the cell's position: the shift a cell accumulates through any mix of
\* pos_add, reset_shift, emptying, restoring and reuse is the rotation still owed,
\* whatever is done to the other cells.
THEOREM ShiftsAreOwedRotations == Spec => []ShiftTracksPos
<1> DEFINE Good == \A i \in Idx : CellShiftOK(cells, roped, divided, i)
<1>1. Init => IInv /\ Good
  <2>1. Init => IInv
    BY ResetOK DEF Init, TypeOK, IInv, IndexesExact
  <2>2. Init => Good
    BY DEF Init, ResetCells, CellShiftOK
  <2>. QED BY <2>1, <2>2
<1>2. IInv /\ Good /\ [Next]_vars => Good'
  <2> SUFFICES ASSUME IInv, Good, [Next]_vars, NEW j \in Idx
               PROVE  CellShiftOK(cells, roped, divided, j)'
    OBVIOUS
  <2>0. /\ cells \in Cells /\ roped \in [Idx -> Int] /\ CellShiftOK(cells, roped, divided, j)
        /\ cells.shift \in [Idx -> Int] /\ cells.pos \in [Idx -> Positions \cup {NoPos}]
        /\ Positions \cup {NoPos} \subseteq Int /\ NoPos \notin Positions
    BY MaxPosAssumption DEF IInv, TypeOK, Cells, Positions, NoPos
  <2>1. CASE DoReset
    BY <2>1 DEF DoReset, ResetCells, CellShiftOK
  <2>2. CASE DoResetShift
    <3>1. /\ cells'.pos = cells.pos /\ cells'.shift[j] = 0
          /\ roped'[j] = roped[j] + cells.shift[j] /\ divided' = divided
      BY <2>0, <2>2 DEF DoResetShift, ResetShift, Cells
    <3>. QED BY <2>0, <3>1 DEF CellShiftOK
  <2>3. ASSUME NEW i \in Idx, DoRm(i) PROVE CellShiftOK(cells, roped, divided, j)'
    BY <2>0, <2>3 DEF DoRm, Rm, CellShiftOK, Cells
  <2>4. ASSUME NEW i \in Idx, NEW s \in Seqs, DoSeqRm(i, s)
        PROVE  CellShiftOK(cells, roped, divided, j)'
    BY <2>0, <2>4 DEF DoSeqRm, CellSeqRm, Rm, CellShiftOK, Cells
  <2>5. ASSUME NEW i \in Idx, NEW s \in Seqs, DoSeqKeep(i, s)
        PROVE  CellShiftOK(cells, roped, divided, j)'
    BY <2>0, <2>5 DEF DoSeqKeep, CellSeqKeep, Rm, CellShiftOK, Cells
  <2>6. ASSUME NEW i \in Idx, NEW s \in Seqs, DoSeqAdd(i, s)
        PROVE  CellShiftOK(cells, roped, divided, j)'
    BY <2>0, <2>6 DEF DoSeqAdd, CellSeqAdd, CellShiftOK, Cells
  <2>7. ASSUME NEW i \in Idx, NEW p \in Positions, DoPosSet(i, p)
        PROVE  CellShiftOK(cells, roped, divided, j)'
    <3>1. /\ cells'.shift = cells.shift /\ cells'.has_shift = cells.has_shift
          /\ cells'.pos[j] = IF j = i THEN p ELSE cells.pos[j]
          /\ roped'[j] = IF j = i THEN p ELSE roped[j]
          /\ j # i => (j \in divided' <=> j \in divided)
          /\ cells.pos[i] = NoPos
      BY <2>0, <2>7 DEF DoPosSet, PosSet, IsEmpty, Cells
    <3>. QED BY <2>0, <2>7, <3>1 DEF CellShiftOK
  <2>8. ASSUME NEW i \in Idx, NEW d \in Deltas, DoPosAdd(i, d)
        PROVE  CellShiftOK(cells, roped, divided, j)'
    <3>0. d \in Int /\ roped' = roped /\ divided' = divided /\ cells.pos[i] # NoPos /\ cells' = PosAdd(cells, i, d)
      BY <2>8, DeltasAssumption DEF DoPosAdd, IsEmpty
    <3>1. CASE cells.pos[i] + d < 0
      BY <2>0, <3>0, <3>1 DEF PosAdd, Rm, CellShiftOK, Cells
    <3>2. CASE ~ (cells.pos[i] + d < 0)
      <4>1. /\ cells'.has_shift = TRUE
            /\ cells'.pos[j] = IF j = i THEN cells.pos[i] + d ELSE cells.pos[j]
            /\ cells'.shift[j] = IF j = i THEN cells.shift[i] + d ELSE cells.shift[j]
        BY <2>0, <3>0, <3>2 DEF PosAdd, MovePos, Cells
      <4>. QED BY <2>0, <3>0, <3>2, <4>1 DEF CellShiftOK, NoPos
    <3>. QED BY <3>1, <3>2
  <2>9. ASSUME NEW i \in Idx, NEW p \in Positions \cup {NoPos}, NEW S \in SUBSET Seqs,
               DoSetCell(i, p, S)
        PROVE  CellShiftOK(cells, roped, divided, j)'
    <3>1. /\ cells'.shift = cells.shift /\ cells'.has_shift = cells.has_shift
          /\ cells'.pos[j] = IF j = i THEN p ELSE cells.pos[j]
          /\ roped'[j] = IF j = i /\ p # NoPos THEN p ELSE roped[j]
          /\ j # i => (j \in divided' <=> j \in divided)
          /\ cells.shift[i] = 0
      BY <2>0, <2>9 DEF DoSetCell, SetCell, Cells
    <3>. QED BY <2>0, <2>9, <3>1 DEF CellShiftOK
  <2>10. CASE UNCHANGED vars
    BY <2>0, <2>10 DEF vars, CellShiftOK
  <2>11. ASSUME NEW i \in Idx, NEW d \in Divisors, DoPosDiv(i, d)
         PROVE  CellShiftOK(cells, roped, divided, j)'
    <3>1. /\ cells'.has_shift = TRUE /\ cells.pos[i] # NoPos
          /\ roped' = roped /\ divided' = divided \cup {i}
          /\ j # i => cells'.pos[j] = cells.pos[j] /\ cells'.shift[j] = cells.shift[j]
      BY <2>0, <2>11 DEF DoPosDiv, PosDiv, MovePos, IsEmpty, Cells
    <3>2. cells'.pos[i] # NoPos
      <4>1. cells.pos[i] \in Nat /\ d \in Nat \ {0}
        BY <2>0, <3>1, DivisorsAssumption, MaxPosAssumption DEF Positions, NoPos
      <4>2. cells.pos[i] \div d \in 0 .. cells.pos[i]
        BY <4>1, DivBound
      <4>3. cells'.pos[i] = cells.pos[i] \div d
        BY <2>0, <2>11 DEF DoPosDiv, PosDiv, MovePos, Cells
      <4>. QED BY <4>1, <4>2, <4>3 DEF NoPos
    <3>. QED BY <2>0, <3>1, <3>2 DEF CellShiftOK
  <2>. QED
    BY <2>1, <2>2, <2>3, <2>4, <2>5, <2>6, <2>7, <2>8, <2>9, <2>10, <2>11 DEF Next
<1>3. IInv /\ Good => ShiftTracksPos
  BY ShiftInvByCell
<1>4. Spec => []IInv
  BY IndexesAlwaysExact, PTL DEF IInv
<1>. QED
  <2> HIDE DEF Good
  <2>. QED BY <1>1, <1>2, <1>3, <1>4, PTL DEF Spec

-----------------------------------------------------------------------------
(* The search for a slot                                                    *)

\* The cells that are tested are the cells, each once.
LEMMA CyclicFacts ==
  ASSUME NEW h \in 0 .. NCells
  PROVE  /\ \A k \in 1 .. NCells : Cyclic(h, k) \in Idx
         /\ \A i \in Idx : \E k \in 1 .. NCells : Cyclic(h, k) = i
<1>1. \A k \in 1 .. NCells : Cyclic(h, k) \in Idx
  BY NCellsAssumption DEF Cyclic, Idx
<1>2. ASSUME NEW i \in Idx PROVE \E k \in 1 .. NCells : Cyclic(h, k) = i
  <2>1. CASE h <= i
    <3>1. i - h + 1 \in 1 .. NCells /\ Cyclic(h, i - h + 1) = i
      BY <2>1, NCellsAssumption DEF Cyclic, Idx
    <3> QED BY <3>1
  <2>2. CASE i < h
    <3>1. i - h + 1 + NCells \in 1 .. NCells /\ Cyclic(h, i - h + 1 + NCells) = i
      BY <2>2, NCellsAssumption DEF Cyclic, Idx
    <3> QED BY <3>1
  <2> QED BY <2>1, <2>2, NCellsAssumption DEF Idx
<1> QED BY <1>1, <1>2

\* The usable cells among the first ones that are tested are counted.
LEMMA UsableToFacts ==
  ASSUME NEW us, NEW h \in 0 .. NCells
  PROVE  /\ UsableTo(us, h, 0) = 0
         /\ \A k \in 0 .. NCells : UsableTo(us, h, k) \in Nat /\ UsableTo(us, h, k) <= k
         /\ \A k \in 1 .. NCells : UsableTo(us, h, k) =
              UsableTo(us, h, k - 1) + (IF Cyclic(h, k) \in us THEN 1 ELSE 0)
         /\ \A k, l \in 0 .. NCells : k <= l => UsableTo(us, h, k) <= UsableTo(us, h, l)
<1> DEFINE S(k) == {i \in 1 .. k : Cyclic(h, i) \in us}
<1>0. NCells \in Nat
  BY NCellsAssumption
<1>1. ASSUME NEW k \in 0 .. NCells
      PROVE  IsFiniteSet(S(k)) /\ Cardinality(S(k)) \in Nat /\ Cardinality(S(k)) <= k
  <2>1. IsFiniteSet(1 .. k) /\ Cardinality(1 .. k) = k
    <3>1. k \in Int /\ 1 \in Int /\ (IF 1 > k THEN 0 ELSE k - 1 + 1) = k
      BY <1>0
    <3> QED BY <3>1, FS_Interval
  <2>2. S(k) \subseteq 1 .. k
    OBVIOUS
  <2>3. IsFiniteSet(S(k)) /\ Cardinality(S(k)) <= k
    BY <2>1, <2>2, FS_Subset, Zenon
  <2>4. Cardinality(S(k)) \in Nat
    BY <2>3, FS_CardinalityType, Zenon
  <2> QED BY <2>3, <2>4
<1>2. S(0) = {}
  OBVIOUS
<1>3. Cardinality(S(0)) = 0
  BY <1>2, FS_EmptySet
<1>4. ASSUME NEW k \in 1 .. NCells
      PROVE  Cardinality(S(k)) = Cardinality(S(k - 1)) + (IF Cyclic(h, k) \in us THEN 1 ELSE 0)
  <2>0. k - 1 \in 0 .. NCells /\ k \notin 1 .. k - 1 /\ 1 .. k = (1 .. k - 1) \cup {k}
    BY <1>0
  <2>1. CASE Cyclic(h, k) \in us
    <3>1. S(k) = S(k - 1) \cup {k} /\ k \notin S(k - 1)
      BY <2>0, <2>1
    <3>2. IsFiniteSet(S(k - 1))
      BY <1>1, <2>0, Zenon
    <3> HIDE DEF S
    <3>3. Cardinality(S(k - 1) \cup {k}) = Cardinality(S(k - 1)) + 1
      BY <3>1, <3>2, FS_AddElement
    <3> QED BY <2>1, <3>1, <3>3
  <2>2. CASE Cyclic(h, k) \notin us
    <3>1. S(k) = S(k - 1)
      BY <2>0, <2>2
    <3>2. Cardinality(S(k - 1)) \in Nat
      BY <1>1, <2>0
    <3> HIDE DEF S
    <3> QED BY <2>2, <3>1, <3>2
  <2> QED BY <2>1, <2>2
<1>5. ASSUME NEW k \in 0 .. NCells, NEW l \in 0 .. NCells, k <= l
      PROVE  Cardinality(S(k)) <= Cardinality(S(l))
  <2>1. S(k) \subseteq S(l)
    BY <1>0, <1>5
  <2> QED BY <1>1, <2>1, FS_Subset
<1> QED BY <1>1, <1>3, <1>4, <1>5 DEF UsableTo

\* There is one j-th usable cell at most.
LEMMA NthFacts ==
  ASSUME NEW us, NEW h \in 0 .. NCells, NEW k \in 1 .. NCells, Cyclic(h, k) \in us
  PROVE  NthUsable(us, h, UsableTo(us, h, k)) = k
<1>1. ASSUME NEW l \in 1 .. NCells, NEW m \in 1 .. NCells, Cyclic(h, m) \in us, l < m
      PROVE  UsableTo(us, h, l) < UsableTo(us, h, m)
  <2>1. l \in 0 .. NCells /\ m - 1 \in 0 .. NCells /\ l <= m - 1
    BY <1>1, NCellsAssumption
  <2>2. UsableTo(us, h, l) <= UsableTo(us, h, m - 1)
    BY <2>1, UsableToFacts, Zenon
  <2>3. UsableTo(us, h, m) = UsableTo(us, h, m - 1) + 1
    <3>1. \A j \in 1 .. NCells : UsableTo(us, h, j) =
            UsableTo(us, h, j - 1) + (IF Cyclic(h, j) \in us THEN 1 ELSE 0)
      BY UsableToFacts, Zenon
    <3> QED BY <1>1, <3>1
  <2>4. UsableTo(us, h, m - 1) \in Nat /\ UsableTo(us, h, l) \in Nat
    BY <2>1, UsableToFacts, Zenon
  <2> QED BY <2>2, <2>3, <2>4
<1>2. ASSUME NEW l \in 1 .. NCells, Cyclic(h, l) \in us, UsableTo(us, h, l) = UsableTo(us, h, k)
      PROVE  l = k
  <2>0. k \in 0 .. NCells
    OBVIOUS
  <2>1. UsableTo(us, h, k) \in Nat
    BY <2>0, UsableToFacts, Zenon
  <2>2. ~ (l < k) /\ ~ (k < l)
    BY <1>1, <1>2, <2>1
  <2> QED BY <2>2
<1> DEFINE P(l) == Cyclic(h, l) \in us /\ UsableTo(us, h, l) = UsableTo(us, h, k)
<1>3. P(k) /\ \A l \in 1 .. NCells : P(l) => l = k
  BY <1>2
<1> HIDE DEF P
<1>4. (CHOOSE l \in 1 .. NCells : P(l)) = k
  BY <1>3
<1> QED BY <1>4 DEF P, NthUsable

\* where the search has started
Home == StartHead(used, head, n_tokens)

SearchType ==
  /\ usable \in SUBSET Idx /\ used \in Nat /\ n_tokens \in Nat \ {0} /\ cont \in BOOLEAN
  /\ head \in 0 .. NCells /\ head_cur \in 0 .. NCells /\ n_tested \in Nat
  /\ idxs \in Seq(Idx) /\ pc \in {"start", "loop", "found", "none"}

\* n_tested counts the cells from the start on, the skipped ones included.  After the
\* second turn the search tests the first cells once more, and ends.
Tested ==
  \/ Home + n_tested = head_cur
  \/ Home + n_tested = head_cur + NCells
  \/ Home + n_tested = head_cur + 2 * NCells /\ head_cur = 0

\* no slot begins at a cell before
NoRunYet ==
  /\ idxs = <<>>
  /\ \A k \in 1 .. NCells : k <= n_tested => ~ Fits(usable, n_tokens, Cyclic(Home, k))

\* the usable cells before have been taken
AllTaken ==
  /\ n_tested < NCells /\ Len(idxs) < n_tokens
  /\ Len(idxs) = UsableTo(usable, Home, n_tested)
  /\ \A j \in 1 .. Len(idxs) : idxs[j] = Cyclic(Home, NthUsable(usable, Home, j))

SearchInv ==
  /\ SearchType /\ FindsSlot
  /\ pc = "start" => n_tested = 0 /\ idxs = <<>>
  /\ pc = "loop"  => n_tokens <= NCells /\ Tested /\ IF cont THEN NoRunYet ELSE AllTaken

\* The search starts at a cell, or behind the last one.
LEMMA HomeType == SearchType => Home \in 0 .. NCells
BY NCellsAssumption DEF SearchType, Home, StartHead

\* A non-empty set of natural numbers has a least element.
LEMMA LeastNumber ==
  ASSUME NEW T \in SUBSET Nat, T # {}
  PROVE  \E n \in T : \A m \in T : n <= m
<1> DEFINE R == OpToRel(<, Nat)
<1>1. \A m, n \in Nat : m < n => <<m, n>> \in R
  BY DEF OpToRel
<1>2. PICK n \in T : \A m \in T : ~ (<<m, n>> \in R)
  BY NatLessThanWellFounded, WFMin, Zenon
<1> HIDE DEF R
<1>3. \A m \in T : ~ (m < n)
  BY <1>1, <1>2, Zenon
<1> QED BY <1>3

\* The cells that the search is at, by their number.
LEMMA TestedAt ==
  ASSUME SearchType, Tested, NEW d \in Nat \ {0}, d <= NCells - head_cur, n_tested + d <= NCells
  PROVE  n_tested + d \in 1 .. NCells /\ Cyclic(Home, n_tested + d) = head_cur + d - 1
BY HomeType, NCellsAssumption, SMTT(30) DEF SearchType, Tested, Cyclic

\* The for loop looks at one cell at least, and at NTest at most.
LEMMA LookedFacts ==
  ASSUME SearchType
  PROVE  /\ NTest \in Nat \ {0} /\ Looked \in 1 .. NTest /\ Taken \in 0 .. NTest
         /\ Unusable = {} => Looked = NTest /\ Taken = NTest
         /\ Unusable # {} => Taken = Looked - 1 /\ head_cur + Looked - 1 \notin usable
<1>1. NTest \in Nat \ {0}
  BY DEF SearchType, NTest
<1>2. ASSUME Unusable # {}
      PROVE  FirstUnusable \in Unusable
  <2>1. Unusable \in SUBSET Nat
    BY DEF Unusable
  <2>2. \E k \in Unusable : \A j \in Unusable : k <= j
    BY <1>2, <2>1, LeastNumber, Zenon
  <2> QED BY <2>2, Zenon DEF FirstUnusable
<1>3. \A k \in Unusable : k \in 1 .. NTest /\ head_cur + k - 1 \notin usable
  BY DEF Unusable
<1> QED BY <1>1, <1>2, <1>3 DEF Looked, Taken

\* The search starts, or there are too many tokens.
LEMMA StartKeeps ==
  ASSUME SearchInv, Start
  PROVE  SearchInv'
<1>0. SearchType /\ Home \in 0 .. NCells /\ NCells \in Nat \ {0}
  BY HomeType, NCellsAssumption DEF SearchInv
<1>1. Home' = Home /\ head_cur' = Home /\ n_tested' = 0 /\ idxs' = <<>>
  BY DEF SearchInv, Start, Home
<1>2. SearchType'
  BY <1>0, <1>1 DEF SearchType, Start
<1>3. CASE n_tokens > NCells
  <2>1. UsableTo(usable, Home, NCells) \in Nat /\ UsableTo(usable, Home, NCells) <= NCells
    <3>1. NCells \in 0 .. NCells
      BY <1>0
    <3> QED BY <1>0, <3>1, UsableToFacts, Zenon
  <2>2. FirstCells(usable, Home, n_tokens) = NoSlot
    BY <1>0, <1>3, <2>1 DEF FirstCells, SearchType
  <2>3. \A k \in 1 .. NCells : ~ Fits(usable, n_tokens, Cyclic(Home, k))
    <3>1. \A k \in 1 .. NCells : Cyclic(Home, k) \in Idx
      BY <1>0, CyclicFacts, Zenon
    <3> QED BY <1>0, <1>3, <3>1 DEF Fits, SearchType, Idx
  <2>4. FirstRun(usable, Home, n_tokens) = NoSlot
    BY <2>3, Zenon DEF FirstRun
  <2> QED BY <1>1, <1>2, <1>3, <2>2, <2>4 DEF SearchInv, FindsSlot, Start, Home
<1>4. CASE n_tokens <= NCells
  <2>1. pc' = "loop" /\ n_tokens' = n_tokens /\ cont' = cont /\ usable' = usable
    BY <1>0, <1>4 DEF Start, SearchType
  <2>2. Tested'
    BY <1>0, <1>1 DEF Tested
  <2>3. NoRunYet'
    BY <1>1 DEF NoRunYet
  <2>4. AllTaken'
    <3>1. UsableTo(usable, Home, 0) = 0
      BY <1>0, UsableToFacts, Zenon
    <3> QED BY <1>0, <1>1, <2>1, <3>1 DEF AllTaken, SearchType
  <2> QED BY <1>2, <1>4, <2>1, <2>2, <2>3, <2>4 DEF SearchInv, FindsSlot
<1> QED BY <1>0, <1>3, <1>4 DEF SearchType

\* The search goes on from the first cell: the cells that it skips begin no slot.
LEMMA WrapKeeps ==
  ASSUME SearchInv, Wrap
  PROVE  SearchInv'
<1>0. SearchType /\ Home \in 0 .. NCells /\ NCells \in Nat \ {0} /\ pc = "loop"
      /\ n_tokens <= NCells /\ Tested
  BY HomeType, NCellsAssumption DEF SearchInv, Wrap
<1>1. /\ Home' = Home /\ head_cur' = 0 /\ n_tested' = n_tested + NCells - head_cur
      /\ idxs' = idxs /\ pc' = "loop" /\ UNCHANGED <<usable, used, n_tokens, cont, head>>
  BY <1>0 DEF Wrap, Home
<1>2. SearchType'
  BY <1>0, <1>1 DEF SearchType
<1>3. Tested'
  <2>1. head_cur + NTest > NCells /\ NTest <= NCells /\ NTest \in Nat
    BY <1>0 DEF Wrap, NTest, SearchType
  <2> QED BY <1>0, <1>1, <2>1 DEF Tested, SearchType
<1>4. CASE cont
  <2>1. NoRunYet /\ head_cur + n_tokens > NCells
    BY <1>0, <1>4 DEF SearchInv, Wrap, NTest
  <2>2. ASSUME NEW k \in 1 .. NCells, k <= n_tested'
        PROVE  ~ Fits(usable, n_tokens, Cyclic(Home, k))
    <3>1. CASE k <= n_tested
      BY <2>1, <3>1 DEF NoRunYet
    <3>2. CASE k > n_tested
      <4> DEFINE d == k - n_tested
      <4>1. d \in Nat \ {0} /\ d <= NCells - head_cur /\ k = n_tested + d /\ n_tested + d <= NCells
        BY <1>0, <1>1, <2>2, <3>2 DEF SearchType
      <4> HIDE DEF d
      <4>2. Cyclic(Home, k) = head_cur + d - 1
        BY <1>0, <4>1, TestedAt
      <4> QED BY <1>0, <2>1, <4>1, <4>2 DEF Fits, SearchType
    <3> QED BY <1>0, <3>1, <3>2 DEF SearchType
  <2>3. NoRunYet'
    BY <1>1, <2>1, <2>2 DEF NoRunYet
  <2> QED BY <1>0, <1>1, <1>2, <1>3, <1>4, <2>3 DEF SearchInv, FindsSlot
<1>5. CASE ~ cont
  <2>1. AllTaken /\ head_cur = NCells
    BY <1>0, <1>5 DEF SearchInv, Wrap, NTest, SearchType
  <2>2. n_tested' = n_tested
    BY <1>0, <1>1, <2>1 DEF SearchType
  <2>3. AllTaken'
    BY <1>1, <2>1, <2>2 DEF AllTaken
  <2> QED BY <1>0, <1>1, <1>2, <1>3, <1>5, <2>3 DEF SearchInv, FindsSlot
<1> QED BY <1>4, <1>5

\* what the for loop has found
Got == idxs \o [k \in 1 .. Taken |-> head_cur + k - 1]

\* The cells found so far, and those taken now.
LEMMA GotFacts ==
  ASSUME SearchType, head_cur + NTest <= NCells
  PROVE  /\ Got \in Seq(Idx) /\ Len(Got) = Len(idxs) + Taken
         /\ \A j \in 1 .. Len(idxs) : Got[j] = idxs[j]
         /\ \A j \in 1 .. Taken : Got[Len(idxs) + j] = head_cur + j - 1
<1> DEFINE new == [k \in 1 .. Taken |-> head_cur + k - 1]
<1>1. Taken \in Nat /\ Taken <= NTest /\ NTest \in Nat /\ head_cur \in Nat /\ NCells \in Nat
  BY LookedFacts, NCellsAssumption DEF SearchType
<1>2. new \in Seq(Idx) /\ Len(new) = Taken /\ \A j \in 1 .. Taken : new[j] = head_cur + j - 1
  BY <1>1 DEF Idx
<1>3. Got = idxs \o new /\ idxs \in Seq(Idx)
  BY DEF Got, SearchType
<1> HIDE DEF new
<1> QED BY <1>1, <1>2, <1>3

\* A contiguous slot: the cells tested are a slot, or no slot begins at one of them.
LEMMA TestRunKeeps ==
  ASSUME SearchInv, TestCells, cont
  PROVE  SearchInv'
<1>0. SearchType /\ Home \in 0 .. NCells /\ NCells \in Nat \ {0} /\ pc = "loop"
      /\ n_tokens <= NCells /\ Tested /\ NoRunYet /\ NTest = n_tokens
      /\ head_cur + n_tokens <= NCells
  BY HomeType, NCellsAssumption DEF SearchInv, TestCells, NTest
<1>1. /\ Looked \in 1 .. n_tokens /\ Taken \in 0 .. n_tokens
      /\ Unusable = {} => Looked = n_tokens /\ Taken = n_tokens
      /\ Unusable # {} => Taken = Looked - 1 /\ head_cur + Looked - 1 \notin usable
  BY <1>0, LookedFacts, Zenon
<1>2. /\ Got \in Seq(Idx) /\ Len(Got) = Taken
      /\ \A j \in 1 .. Taken : Got[j] = head_cur + j - 1
  <2>1. Len(idxs) = 0
    BY <1>0 DEF NoRunYet
  <2> QED BY <1>0, <1>1, <2>1, GotFacts
<1>3. /\ head_cur' = head_cur + Looked /\ n_tested' = n_tested + Looked
      /\ Len(Got) = n_tokens => idxs' = Got /\ pc' = "found"
      /\ Len(Got) # n_tokens => idxs' = <<>> /\ pc' = IF n_tested' >= NCells THEN "none" ELSE "loop"
      /\ UNCHANGED <<usable, used, n_tokens, cont, head>> /\ Home' = Home
  BY Zenon DEF TestCells, Got, Home, GivesUp
<1>4. SearchType'
  <2>1. head_cur' \in 0 .. NCells /\ n_tested' \in Nat
    <3>1. Looked \in Nat /\ Looked <= n_tokens /\ n_tokens \in Nat /\ head_cur \in Nat /\ n_tested \in Nat
      BY <1>0, <1>1 DEF SearchType
    <3>2. head_cur' = head_cur + Looked /\ n_tested' = n_tested + Looked
      BY <1>3, Zenon
    <3> QED BY <1>0, <3>1, <3>2
  <2>2. idxs' \in Seq(Idx)
    <3>1. <<>> \in Seq(Idx)
      OBVIOUS
    <3> QED BY <1>2, <1>3, <3>1, Zenon
  <2>3. pc' \in {"start", "loop", "found", "none"}
    BY <1>3, Zenon
  <2> QED BY <1>0, <1>3, <2>1, <2>2, <2>3 DEF SearchType
<1>5. CASE Unusable = {}
  <2>1. pc' = "found" /\ idxs' = Got /\ Taken = n_tokens
    BY <1>1, <1>2, <1>3, <1>5
  <2>2. Fits(usable, n_tokens, head_cur)
    <3>1. ASSUME NEW c \in head_cur .. head_cur + n_tokens - 1
          PROVE  c \in usable
      <4>1. c - head_cur + 1 \in 1 .. NTest /\ head_cur + (c - head_cur + 1) - 1 = c
        BY <1>0 DEF SearchType
      <4> QED BY <1>5, <4>1 DEF Unusable
    <3> QED BY <1>0, <3>1 DEF Fits
  <2>3. n_tested < NCells
    <3>1. PICK k \in 1 .. NCells : Cyclic(Home, k) = head_cur
      <4>1. head_cur \in Idx
        BY <1>0 DEF SearchType, Idx
      <4> QED BY <1>0, <4>1, CyclicFacts, Zenon
    <3>2. ~ (k <= n_tested)
      BY <1>0, <2>2, <3>1, Zenon DEF NoRunYet
    <3> QED BY <1>0, <3>2 DEF SearchType
  <2> DEFINE at == {k \in 1 .. NCells : Fits(usable, n_tokens, Cyclic(Home, k))}
             p  == n_tested + 1
  <2>4. p \in 1 .. NCells /\ Cyclic(Home, p) = head_cur
    <3>1. 1 <= NCells - head_cur /\ n_tested + 1 <= NCells /\ head_cur + 1 - 1 = head_cur
      BY <1>0, <2>3 DEF SearchType
    <3>2. 1 \in Nat \ {0}
      OBVIOUS
    <3> QED BY <1>0, <3>1, <3>2, TestedAt
  <2>5. p \in at /\ \A j \in at : p <= j
    BY <1>0, <2>2, <2>4 DEF NoRunYet, SearchType
  <2>6. \A q \in at : (\A j \in at : q <= j) => q = p
    BY <2>4, <2>5
  <2> HIDE DEF at, p
  <2>7. (CHOOSE q \in at : \A j \in at : q <= j) = p
    BY <2>5, <2>6, Zenon
  <2>8. FirstRun(usable, Home, n_tokens) = [j \in 1 .. n_tokens |-> head_cur + j - 1]
    BY <2>4, <2>5, <2>7, Zenon DEF FirstRun, at
  <2>9. Got = [j \in 1 .. n_tokens |-> head_cur + j - 1]
    BY <1>0, <1>2, <2>1 DEF SearchType
  <2> QED BY <1>3, <1>4, <2>1, <2>8, <2>9 DEF SearchInv, FindsSlot, Home
<1>6. CASE Unusable # {}
  <2>1. Len(Got) # n_tokens /\ idxs' = <<>> /\ pc' = IF n_tested' >= NCells THEN "none" ELSE "loop"
    BY <1>0, <1>1, <1>2, <1>3, <1>6 DEF SearchType
  <2>2. ASSUME NEW k \in 1 .. NCells, k <= n_tested'
        PROVE  ~ Fits(usable, n_tokens, Cyclic(Home, k))
    <3>1. CASE k <= n_tested
      BY <1>0, <3>1 DEF NoRunYet
    <3>2. CASE k > n_tested
      <4> DEFINE d == k - n_tested
      <4>1. d \in Nat \ {0} /\ d <= Looked /\ k = n_tested + d /\ n_tested + d <= NCells
        <5>1. n_tested \in Nat /\ n_tested' = n_tested + Looked /\ Looked \in Nat /\ NCells \in Nat
          BY <1>0, <1>1, <1>3 DEF SearchType
        <5> QED BY <2>2, <3>2, <5>1
      <4>2. d <= NCells - head_cur
        BY <1>0, <1>1, <4>1 DEF SearchType
      <4> HIDE DEF d
      <4>3. Cyclic(Home, k) = head_cur + d - 1
        BY <1>0, <4>1, <4>2, TestedAt
      <4>4. head_cur + Looked - 1 \in head_cur + d - 1 .. head_cur + d - 1 + n_tokens - 1
        BY <1>0, <1>1, <4>1, SMTT(30) DEF SearchType
      <4> QED BY <1>1, <1>6, <4>3, <4>4 DEF Fits
    <3> QED BY <1>0, <3>1, <3>2 DEF SearchType
  <2>3. CASE n_tested' >= NCells
    <3>1. \A k \in 1 .. NCells : ~ Fits(usable, n_tokens, Cyclic(Home, k))
      BY <1>0, <1>4, <2>2, <2>3 DEF SearchType
    <3>2. FirstRun(usable, Home, n_tokens) = NoSlot
      BY <3>1, Zenon DEF FirstRun
    <3> QED BY <1>3, <1>4, <2>1, <2>3, <3>2 DEF SearchInv, FindsSlot, Home
  <2>4. CASE ~ (n_tested' >= NCells)
    <3>1. NoRunYet' /\ pc' = "loop"
      BY <1>3, <2>1, <2>2, <2>4 DEF NoRunYet
    <3>2. Tested'
      <4>1. /\ n_tested \in Nat /\ n_tested' = n_tested + Looked /\ Looked \in Nat /\ Home' = Home
            /\ head_cur \in Nat /\ head_cur' = head_cur + Looked
        BY <1>0, <1>1, <1>3 DEF SearchType
      <4> QED BY <1>0, <2>4, <4>1 DEF Tested
    <3> QED BY <1>0, <1>3, <1>4, <3>1, <3>2 DEF SearchInv, FindsSlot
  <2> QED BY <2>3, <2>4
<1> QED BY <1>5, <1>6

\* Scattered cells: the next usable cell is the next one of the slot.
LEMMA TestOneKeeps ==
  ASSUME SearchInv, TestCells, ~ cont
  PROVE  SearchInv'
<1>0. SearchType /\ Home \in 0 .. NCells /\ NCells \in Nat \ {0} /\ pc = "loop"
      /\ n_tokens <= NCells /\ Tested /\ AllTaken /\ NTest = 1 /\ head_cur + 1 <= NCells
  BY HomeType, NCellsAssumption DEF SearchInv, TestCells, NTest
<1> DEFINE p == n_tested + 1
<1>1. p \in 1 .. NCells /\ Cyclic(Home, p) = head_cur
  <2>1. 1 <= NCells - head_cur /\ n_tested + 1 <= NCells /\ head_cur + 1 - 1 = head_cur
    BY <1>0 DEF SearchType, AllTaken
  <2>2. 1 \in Nat \ {0}
    OBVIOUS
  <2> QED BY <1>0, <2>1, <2>2, TestedAt
<1>2. Looked = 1 /\ Taken = IF head_cur \in usable THEN 1 ELSE 0
  <2>1. Unusable = {} <=> head_cur \in usable
    BY <1>0 DEF Unusable, SearchType
  <2>2. Looked \in 1 .. 1
    BY <1>0, LookedFacts
  <2> QED BY <1>0, <2>1, <2>2, LookedFacts
<1>3. /\ Got \in Seq(Idx) /\ Len(Got) = Len(idxs) + Taken
      /\ \A j \in 1 .. Len(idxs) : Got[j] = idxs[j]
      /\ \A j \in 1 .. Taken : Got[Len(idxs) + j] = head_cur + j - 1
  BY <1>0, GotFacts
<1>4. /\ head_cur' = head_cur + 1 /\ n_tested' = p /\ idxs' = Got /\ Home' = Home
      /\ Len(Got) = n_tokens => pc' = "found"
      /\ Len(Got) # n_tokens => pc' = IF n_tested' >= NCells THEN "none" ELSE "loop"
      /\ UNCHANGED <<usable, used, n_tokens, cont, head>>
  BY <1>2 DEF TestCells, Got, Home, GivesUp
<1>5. SearchType'
  <2>1. head_cur' \in 0 .. NCells /\ n_tested' \in Nat
    BY <1>0, <1>4 DEF SearchType
  <2>2. idxs' \in Seq(Idx) /\ pc' \in {"start", "loop", "found", "none"}
    BY <1>3, <1>4
  <2> QED BY <1>0, <1>4, <2>1, <2>2 DEF SearchType
<1>6. Len(Got) = UsableTo(usable, Home, p) /\ Len(Got) \in Nat /\ Len(Got) <= n_tokens
  <2>1. UsableTo(usable, Home, p) = UsableTo(usable, Home, n_tested) + Taken
    <3>1. \A k \in 1 .. NCells : UsableTo(usable, Home, k) =
            UsableTo(usable, Home, k - 1) + (IF Cyclic(Home, k) \in usable THEN 1 ELSE 0)
      BY <1>0, UsableToFacts, Zenon
    <3>2. p - 1 = n_tested
      BY <1>0 DEF SearchType
    <3> HIDE DEF p
    <3> QED BY <1>1, <1>2, <3>1, <3>2
  <2>2. Len(idxs) = UsableTo(usable, Home, n_tested) /\ Len(idxs) < n_tokens
    BY <1>0 DEF AllTaken
  <2>3. Len(idxs) \in Nat /\ Taken \in 0 .. 1 /\ n_tokens \in Nat
    BY <1>0, <1>2 DEF SearchType
  <2> HIDE DEF p
  <2> QED BY <1>3, <2>1, <2>2, <2>3
<1>7. ASSUME NEW j \in 1 .. Len(Got)
      PROVE  Got[j] = Cyclic(Home, NthUsable(usable, Home, j))
  <2>1. CASE j \in 1 .. Len(idxs)
    BY <1>0, <1>3, <2>1 DEF AllTaken
  <2>2. CASE j \notin 1 .. Len(idxs)
    <3>1. j = Len(Got) /\ Taken = 1 /\ j = Len(idxs) + 1 /\ head_cur \in usable
      BY <1>0, <1>2, <1>3, <2>2 DEF SearchType
    <3>2. Got[j] = head_cur
      BY <1>0, <1>3, <3>1 DEF SearchType
    <3>3. NthUsable(usable, Home, j) = p
      <4> HIDE DEF p
      <4>1. Cyclic(Home, p) \in usable
        BY <1>1, <3>1
      <4>2. NthUsable(usable, Home, UsableTo(usable, Home, p)) = p
        BY <1>0, <1>1, <4>1, NthFacts, Zenon
      <4> QED BY <1>6, <3>1, <4>2
    <3> QED BY <1>1, <3>2, <3>3
  <2> QED BY <2>1, <2>2
<1>8. CASE Len(Got) = n_tokens
  <2>1. ~ (UsableTo(usable, Home, NCells) < n_tokens)
    <3>1. p \in 0 .. NCells /\ NCells \in 0 .. NCells /\ p <= NCells
      BY <1>0, <1>1
    <3>2. UsableTo(usable, Home, p) <= UsableTo(usable, Home, NCells)
          /\ UsableTo(usable, Home, NCells) \in Nat
      BY <1>0, <3>1, UsableToFacts, Zenon
    <3> HIDE DEF p
    <3> QED BY <1>6, <1>8, <3>2
  <2>2. FirstCells(usable, Home, n_tokens) =
          [j \in 1 .. n_tokens |-> Cyclic(Home, NthUsable(usable, Home, j))]
    BY <2>1, Zenon DEF FirstCells
  <2>3. Got = [j \in 1 .. n_tokens |-> Cyclic(Home, NthUsable(usable, Home, j))]
    BY <1>3, <1>7, <1>8, SMTT(30)
  <2> QED BY <1>4, <1>5, <1>8, <2>2, <2>3 DEF SearchInv, FindsSlot, Home
<1>9. CASE Len(Got) # n_tokens /\ p >= NCells
  <2>1. p = NCells /\ Len(Got) < n_tokens
    BY <1>0, <1>1, <1>6, <1>9 DEF SearchType
  <2>2. FirstCells(usable, Home, n_tokens) = NoSlot
    BY <1>6, <2>1, SMTT(30) DEF FirstCells
  <2> QED BY <1>4, <1>5, <1>9, <2>2 DEF SearchInv, FindsSlot, Home
<1>10. CASE Len(Got) # n_tokens /\ ~ (p >= NCells)
  <2>1. pc' = "loop" /\ n_tested' < NCells /\ Len(Got) < n_tokens
    BY <1>0, <1>1, <1>4, <1>6, <1>10 DEF SearchType
  <2>2. Tested'
    <3>1. /\ n_tested \in Nat /\ n_tested' = n_tested + 1 /\ Home' = Home
          /\ head_cur \in Nat /\ head_cur' = head_cur + 1
      BY <1>0, <1>4 DEF SearchType
    <3> QED BY <1>0, <2>1, <3>1 DEF Tested
  <2>3. AllTaken'
    BY <1>4, <1>6, <1>7, <2>1 DEF AllTaken
  <2> QED BY <1>0, <1>4, <1>5, <2>1, <2>2, <2>3, SMTT(30) DEF SearchInv, FindsSlot
<1> QED BY <1>8, <1>9, <1>10

\* The search has the invariant.
LEMMA SearchInvHolds == SearchSpec => []SearchInv
<1>1. SearchInit => SearchInv
  <2> SUFFICES ASSUME SearchInit PROVE SearchInv
    OBVIOUS
  <2>1. Cardinality(usable) \in Nat /\ Cardinality(usable) <= NCells
    <3>1. IsFiniteSet(Idx) /\ Cardinality(Idx) = NCells
      <4>1. 0 \in Int /\ NCells - 1 \in Int /\ (IF 0 > NCells - 1 THEN 0 ELSE NCells - 1 - 0 + 1) = NCells
        BY NCellsAssumption
      <4> QED BY <4>1, FS_Interval DEF Idx
    <3>2. usable \subseteq Idx
      BY DEF SearchInit
    <3> QED BY <3>1, <3>2, FS_Subset, FS_CardinalityType
  <2>2. used \in Nat /\ n_tokens \in Nat \ {0}
    BY <2>1, NCellsAssumption DEF SearchInit
  <2> QED BY <2>2 DEF SearchInit, SearchInv, SearchType, FindsSlot
<1>2. SearchInv /\ [SearchNext]_searchVars => SearchInv'
  <2> SUFFICES ASSUME SearchInv, [SearchNext]_searchVars PROVE SearchInv'
    OBVIOUS
  <2>1. CASE Start
    BY <2>1, StartKeeps
  <2>2. CASE Wrap
    BY <2>2, WrapKeeps
  <2>3. CASE TestCells
    <3>1. cont \/ ~ cont
      BY SMTT(30)
    <3> QED BY <2>3, <3>1, TestRunKeeps, TestOneKeeps, Zenon
  <2>4. CASE UNCHANGED searchVars
    BY <2>4 DEF searchVars, SearchInv, SearchType, FindsSlot, Tested, NoRunYet, AllTaken, Home
  <2> QED BY <2>1, <2>2, <2>3, <2>4 DEF SearchNext
<1> QED BY <1>1, <1>2, PTL DEF SearchSpec

\* The search of find_slot returns the first slot, or nothing when there is none, for any
\* number of cells and tokens and any start.
THEOREM SearchFindsSlot == SearchSpec => []FindsSlot
<1>1. SearchInv => FindsSlot
  BY DEF SearchInv
<1> QED BY <1>1, SearchInvHolds, PTL
==============================================================================
