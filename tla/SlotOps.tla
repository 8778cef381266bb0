------------------------------- MODULE SlotOps -------------------------------
(***************************************************************************)
(* Finding cells for a ubatch: llama_kv_cache::find_slot                   *)
(* (src/src/llama-kv-cache.cpp) and the sliding-window mask of             *)
(* src/src/llama-hparams.h.                                                *)
(*                                                                         *)
(* FirstCells and FirstRun state what the search returns in one stream,    *)
(* for scattered and for contiguous cells; module SlotSearch runs the loop *)
(* of the code, an iteration a step, and checks that it returns that.      *)
(***************************************************************************)
EXTENDS KVCellOps, Sequences

CONSTANTS
  SwaType,   \* swa_type: "none", "standard", "chunked" or "symmetric"
  NSwa       \* n_swa

ASSUME SwaAssumption ==
  /\ SwaType \in {"none", "standard", "chunked", "symmetric"}
  /\ NSwa \in Nat \ {0}

\* is_masked_swa(n_swa, swa_type, p0, p1): p1 does not attend to p0
IsMaskedSwa(p0, p1) ==
  \/ SwaType = "standard"  /\ p1 - p0 >= NSwa
  \/ SwaType = "chunked"   /\ p0 < (p1 \div NSwa) * NSwa
  \/ SwaType = "symmetric" /\ ~ (p1 - p0 \in -(NSwa \div 2) .. NSwa \div 2)

\* a cell can be used when it is empty, or when it holds one sequence only and
\* the next token of that sequence would not attend to it
CanUse(c, i) ==
  \/ IsEmpty(c, i)
  \/ \E s \in Seqs : /\ c.seq[i] = {s}
                     /\ IsMaskedSwa(c.pos[i], SeqPosMax(c, s) + 1)

\* where the search starts, with `used' non-empty cells
StartHead(used, head, n) == IF head > used + 2 * n THEN 0 ELSE head

NoSlot == <<>>

\* the k-th cell that is tested, from h on and around
Cyclic(h, k) == IF h + k <= NCells THEN h + k - 1 ELSE h + k - 1 - NCells

\* how many of the first k are usable
UsableTo(usable, h, k) == Cardinality({i \in 1 .. k : Cyclic(h, i) \in usable})

\* the j-th usable one
NthUsable(usable, h, j) ==
  CHOOSE k \in 1 .. NCells : Cyclic(h, k) \in usable /\ UsableTo(usable, h, k) = j

\* scattered cells: the first n usable ones
FirstCells(usable, h, n) ==
  IF UsableTo(usable, h, NCells) < n THEN NoSlot
  ELSE [j \in 1 .. n |-> Cyclic(h, NthUsable(usable, h, j))]

\* n usable cells follow each other from cell i on
Fits(usable, n, i) == i + n <= NCells /\ i .. i + n - 1 \subseteq usable

\* contiguous cells: the first place where n usable cells follow each other
FirstRun(usable, h, n) ==
  LET at    == {k \in 1 .. NCells : Fits(usable, n, Cyclic(h, k))}
      first == CHOOSE k \in at : \A j \in at : k <= j
  IN  IF at = {} THEN NoSlot ELSE [j \in 1 .. n |-> Cyclic(h, first) + j - 1]

\* the n cells found in the cells c of a stream (cont = false)
Slot(c, head, n) ==
  FirstCells({i \in Idx : CanUse(c, i)}, StartHead(Cardinality(c.used), head, n), n)
==============================================================================
