------------------------------ MODULE BatchOps -------------------------------
(***************************************************************************)
(* The input batch of llama_decode and its splitting into ubatches: class  *)
(* llama_batch_allocr of src/src/llama-batch.cpp.                          *)
(*                                                                         *)
(* A batch is a sequence of tokens; of a token only the list seq_id of the *)
(* sequences it belongs to and its position matter.  A ubatch is the list  *)
(* idxs of the indices of its tokens, and the number n_seqs of sequence    *)
(* sets in it.  Module BatchSplit makes one call of a split method a step; *)
(* module KVCache decodes the ubatches.                                    *)
(*                                                                         *)
(* Left out: the check of token ids against the vocabulary, the embeddings *)
(* and the output flags, and the M-RoPE case (n_pos_per_embd > 1).         *)
(***************************************************************************)
EXTENDS Integers, Sequences, FiniteSetsExt, Functions

CONSTANT Seqs      \* the sequence ids, 0 .. n_seq_max-1

SeqSet(t) == Range(t.seq_id)

\* seq_pos[s]: the positions of sequence s in the batch
BatchPos(b, s) == {b[i].pos : i \in {j \in DOMAIN b : s \in SeqSet(b[j])}}

\* seq_cpl: pairs of sequences that share a token, the second one listed first
Coupled(b) ==
  UNION {{<<b[i].seq_id[k], b[i].seq_id[1]>> : k \in 2 .. Len(b[i].seq_id)}
           : i \in DOMAIN b}

HasCpl(b) == Coupled(b) # {}

-----------------------------------------------------------------------------
(* init()                                                                  *)

\* "auto-generate missing fields": the positions of tokens with the sequence
\* lists ids, each sequence continuing at next[s]
AutoPos(ids, next) ==
  LET upto[k \in 0 .. Len(ids)] ==
        IF k = 0 THEN next
        ELSE [s \in Seqs |-> IF s \in Range(ids[k]) THEN upto[k - 1][ids[k][1]] + 1
                             ELSE upto[k - 1][s]]
  IN  [k \in DOMAIN ids |-> upto[k - 1][ids[k][1]]]

\* positions continue those in the memory, and have no gap
Continues(b, memMax) ==
  \A s \in Seqs : LET P == BatchPos(b, s) IN P # {} =>
    /\ memMax[s] >= 0 => Min(P) = memMax[s] + 1
    /\ Max(P) - Min(P) + 1 <= Cardinality(P)

\* coupled sequences have the same positions in the memory
NotDiverged(b, memMin, memMax) ==
  \A c \in Coupled(b) : memMin[c[1]] = memMin[c[2]] /\ memMax[c[1]] = memMax[c[2]]

\* the last check: cur_seq_set[s] is the intersection of the sets of the tokens
\* seen with s, and cur_seq_pos[s] is -1 and never assigned
SetsAndPositionsOK(b) ==
  \A s \in Seqs :
    /\ \E t \in Seqs : \A i \in DOMAIN b : s \in SeqSet(b[i]) => t \in SeqSet(b[i])
    /\ \A i \in DOMAIN b : s \in SeqSet(b[i]) => ~ (b[i].pos < -1)

InitBatchOK(b, memMin, memMax) ==
  /\ b # <<>>
  /\ Continues(b, memMax)
  /\ NotDiverged(b, memMin, memMax)
  /\ SetsAndPositionsOK(b)

-----------------------------------------------------------------------------
(* The splits.  `used' is the set of the tokens already in a ubatch; a     *)
(* split returns the next ubatch, with idxs = <<>> when there is none.     *)

NoUbatch == [idxs |-> <<>>, n_seqs |-> 0]

Unused(b, used) == {i \in DOMAIN b : i \notin used}

\* the tokens of T in the order of the batch b
InOrder(b, T) ==
  LET Step(acc, i) == IF i \in T THEN Append(acc, i) ELSE acc
      upto[i \in 0 .. Len(b)] == IF i = 0 THEN <<>> ELSE Step(upto[i - 1], i)
  IN  upto[Len(b)]

\* split_simple
SplitSimple(b, used, n) ==
  IF Unused(b, used) = {} THEN NoUbatch
  ELSE LET i0 == Min(Unused(b, used))
           k  == Min({n, Len(b) - i0 + 1})
       IN  [idxs |-> [j \in 1 .. k |-> i0 + j - 1], n_seqs |-> k]

\* mutant: increasing ids, with gaps
NextIdIncreasing(last, id) == id > last

\* "accept only increasing sequence ids"
NextId(last, id) == id = last + 1

\* mutant: the sets may overlap
JoinsOverlap(b, used, n, sequential, acc, i) ==
  /\ i \notin used
  /\ Len(acc.sets) <= n
  /\ sequential => acc.sets = <<>> \/ NextId(acc.last, b[i].seq_id[1])

\* split_equal, first loop: does the sequence set of token i join those of acc?
Joins(b, used, n, sequential, acc, i) ==
  /\ i \notin used
  /\ Len(acc.sets) <= n
  /\ \A k \in DOMAIN acc.sets : acc.sets[k] \cap SeqSet(b[i]) = {}
  /\ sequential => acc.sets = <<>> \/ NextId(acc.last, b[i].seq_id[1])

\* the sequence sets of the next ubatch
EqualSets(b, used, n, sequential) ==
  LET Step(acc, i) ==
        IF Joins(b, used, n, sequential, acc, i)
        THEN [sets |-> Append(acc.sets, SeqSet(b[i])), last |-> b[i].seq_id[1]] ELSE acc
      upto[i \in 0 .. Len(b)] ==
        IF i = 0 THEN [sets |-> <<>>, last |-> -1] ELSE Step(upto[i - 1], i)
  IN  upto[Len(b)].sets

\* mutant: the last token of a set comes first
TokensOfBackwards(b, used, S) ==
  LET t == InOrder(b, {i \in Unused(b, used) : SeqSet(b[i]) = S})
  IN  [j \in DOMAIN t |-> t[Len(t) + 1 - j]]

\* the unused tokens with the sequence set S (seq_set_map from cur_idx on)
TokensOf(b, used, S) == InOrder(b, {i \in Unused(b, used) : SeqSet(b[i]) = S})

\* the number of rounds of the second loop, each taking a token of every set:
\* at least one, and no more than fit in n or than the shortest set has
EqualRounds(b, used, n, sets) ==
  Min({Max({1, n \div Len(sets)})} \cup
      {Len(TokensOf(b, used, sets[k])) : k \in DOMAIN sets})

\* split_equal
SplitEqual(b, used, n, sequential) ==
  IF (sequential /\ HasCpl(b)) \/ Unused(b, used) = {} THEN NoUbatch
  ELSE LET sets == EqualSets(b, used, n, sequential)
           toks == [k \in DOMAIN sets |-> TokensOf(b, used, sets[k])]
           r    == EqualRounds(b, used, n, sets)
       IN  [idxs   |-> [j \in 1 .. r * Len(sets) |-> toks[((j - 1) \div r) + 1][((j - 1) % r) + 1]],
            n_seqs |-> Len(sets)]

\* split_seq: a token joins when its sequence set is a subset of the last one's
SplitSeq(b, used, n) ==
  LET Step(acc, i) ==
        IF /\ i \notin used /\ Len(acc) < n
           /\ acc = <<>> \/ SeqSet(b[i]) \subseteq SeqSet(b[acc[Len(acc)]])
        THEN Append(acc, i) ELSE acc
      upto[i \in 0 .. Len(b)] == IF i = 0 THEN <<>> ELSE Step(upto[i - 1], i)
  IN  IF upto[Len(b)] = <<>> THEN NoUbatch ELSE [idxs |-> upto[Len(b)], n_seqs |-> 1]
==============================================================================
