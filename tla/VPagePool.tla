------------------------------ MODULE VPagePool ------------------------------
(***************************************************************************)
(* The V block pool of src/src/llama-kv-cache.cpp as a state machine over  *)
(* the operations of module VPageOps.                                      *)
(*                                                                         *)
(* The cells are abstract here: which pages seq_rm finds empty, which      *)
(* pages a slot touches and which page scores lowest are free choices.     *)
(* Module KVCache makes them from its cells.                               *)
(*                                                                         *)
(* pg_alloc_for_sinfo runs a step for each cell of the slot:               *)
(* current_batch_pages and `todo' are the pages of the slot in the stream  *)
(* `strm' and those still to visit.  Nothing else runs in between.         *)
(***************************************************************************)
EXTENDS VPageOps

VARIABLES pool, strm, current_batch_pages, todo

vars == <<pool, strm, current_batch_pages, todo>>

Init ==
  /\ pool = ResetPool
  /\ strm = 0
  /\ current_batch_pages = {}
  /\ todo = {}

Idle == todo = {}

\* clear()
Clear ==
  /\ Idle
  /\ pool' = ResetPool
  /\ UNCHANGED <<strm, current_batch_pages, todo>>

\* seq_rm leaves the mapped page lp of stream s without a token
Release(s, lp) ==
  /\ Idle
  /\ lp \in Mapped(pool, s)
  /\ pool' = FreePage(pool, s, lp)
  /\ UNCHANGED <<strm, current_batch_pages, todo>>

\* pg_alloc_for_sinfo starts on the cells of a slot in stream s
AllocBegin(s, B) ==
  /\ Idle
  /\ strm' = s
  /\ current_batch_pages' = B
  /\ todo' = B
  /\ UNCHANGED pool

\* pg_alloc_for_sinfo reaches a cell of page lp.  The page with the lowest
\* score is evicted: which one that is depends on the K data, hence any of
\* them.
AllocStep(lp) ==
  /\ lp \in todo
  /\ \E evict \in Pages \cup {NoPage} :
       /\ IF Evictable(pool, strm, current_batch_pages) = {}
          THEN evict = NoPage
          ELSE evict \in Evictable(pool, strm, current_batch_pages)
       /\ pool' = AllocPage(pool, strm, lp, evict)
  /\ todo' = todo \ {lp}
  /\ UNCHANGED <<strm, current_batch_pages>>

Next ==
  \/ Clear
  \/ \E s \in Streams, lp \in Pages : Release(s, lp)
  \/ \E s \in Streams, B \in SUBSET Pages : AllocBegin(s, B)
  \/ \E lp \in Pages : AllocStep(lp)

Spec == Init /\ [][Next]_vars

-----------------------------------------------------------------------------
(* Properties.                                                             *)

Where(p, b) == {sp \in Streams \X Pages : p.table[sp[1]][sp[2]] = b}
Depths(p, b) == {i \in 1 .. Len(p.free) : p.free[i] = b}

TypeOK ==
  /\ pool \in Pools
  /\ strm \in Streams
  /\ current_batch_pages \in SUBSET Pages
  /\ todo \in SUBSET current_batch_pages

\* No block is lost, shared by two pages or handed out while it is free: every
\* block but the zero block is either on the stack, once, or mapped by exactly
\* one page of one stream (try_free_page, eviction, allocation and clear).
BlocksConserved ==
  \A b \in Blocks :
    \/ /\ \E i \in 1 .. Len(pool.free) : Depths(pool, b) = {i}
       /\ Where(pool, b) = {}
    \/ /\ \E sp \in Streams \X Pages : Where(pool, b) = {sp}
       /\ Depths(pool, b) = {}

\* "PagedAttention: out of physical blocks" (the assertion of
\* pg_alloc_for_sinfo) never fires: while a page is unmapped the stack holds a
\* block, whatever the other streams use.
NeverOutOfBlocks ==
  (\E s \in Streams : Mapped(pool, s) # Pages) => pool.free # <<>>

\* When pg_alloc_for_sinfo is done with a slot, every page of the slot is
\* mapped: no step of the loop evicts a page that an earlier step needed, so
\* "page not allocated when writing V idx" (set_input_v_idxs) cannot fire.
SlotMapped ==
  [][todo # {} /\ todo' = {} => current_batch_pages \subseteq Mapped(pool', strm)]_vars

\* With a budget, a stream grows beyond it only when every page it maps belongs
\* to the slot being allocated; otherwise a page is evicted for each one mapped.
BudgetStep ==
  [][\A s \in Streams :
       /\ Budget > 0
       /\ Cardinality(Mapped(pool', s)) > Cardinality(Mapped(pool, s))
       => \/ Cardinality(Mapped(pool', s)) <= Budget
          \/ Mapped(pool', s) \subseteq current_batch_pages]_vars
==============================================================================
