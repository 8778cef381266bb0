------------------------------ MODULE VPageOps -------------------------------
(***************************************************************************)
(* The pool of physical V blocks of the paged KV cache (PagedAttention):   *)
(* pg_page_table, pg_free_blocks and the code of                           *)
(* src/src/llama-kv-cache.cpp that moves blocks between them.              *)
(*                                                                         *)
(* A logical page of a stream is unmapped (-1) or mapped to a physical     *)
(* block; free blocks wait on a LIFO stack.  Block 0 is the shared zero    *)
(* block that unmapped pages are read from; it is never handed out.        *)
(*                                                                         *)
(* These are the operations on the pool.  Module VPagePool is the pool as  *)
(* a state machine; module KVCache uses the operations in the cache.       *)
(***************************************************************************)
EXTENDS Integers, Sequences, FiniteSets

CONSTANTS
  NStream,   \* n_stream
  NPages,    \* n_pages_per_stream
  Budget     \* triattention_page_budget, 0 when eviction is off

ASSUME NStreamAssumption == NStream \in Nat \ {0}
ASSUME NPagesAssumption  == NPages \in Nat \ {0}
ASSUME BudgetAssumption  == Budget \in Nat

Streams == 0 .. NStream - 1
Pages   == 0 .. NPages - 1
NoBlock == -1
NoPage  == -1

\* mutant: no spare block for the zero block
NBlocksNoSpare == NPages * NStream - 1

\* pg_n_blocks: one spare block per stream, less the zero block
NBlocks == (NPages + 1) * NStream - 1
Blocks  == 1 .. NBlocks

Pools == [table : [Streams -> [Pages -> Blocks \cup {NoBlock}]],
          free  : Seq(Blocks)]

-----------------------------------------------------------------------------
(* Operations on the pool.                                                 *)

\* the constructor, and clear(): all blocks free, block 1 on top of the stack
ResetPool ==
  [table |-> [s \in Streams |-> [lp \in Pages |-> NoBlock]],
   free  |-> [i \in 1 .. NBlocks |-> NBlocks + 1 - i]]

Mapped(p, s) == {lp \in Pages : p.table[s][lp] # NoBlock}

\* mutant: the page stays mapped after its block is pushed
FreePageKeepsMap(p, s, lp) ==
  [p EXCEPT !.free = Append(@, p.table[s][lp])]

\* try_free_page once the cells of the page are known to be empty, and the
\* eviction of a page: its block is pushed on the stack
FreePage(p, s, lp) ==
  [p EXCEPT !.free         = Append(@, p.table[s][lp]),
            !.table[s][lp] = NoBlock]

\* mutant: the pages of the batch may be evicted too
EvictableAny(p, s, B) ==
  IF Budget > 0 /\ Cardinality(Mapped(p, s)) >= Budget
  THEN Mapped(p, s)
  ELSE {}

\* mutant: the budget is exceeded by a page before pages are evicted
EvictableLate(p, s, B) ==
  IF Budget > 0 /\ Cardinality(Mapped(p, s)) > Budget
  THEN Mapped(p, s) \ B
  ELSE {}

\* the pages that may be evicted for a batch that touches the pages B
Evictable(p, s, B) ==
  IF Budget > 0 /\ Cardinality(Mapped(p, s)) >= Budget
  THEN Mapped(p, s) \ B
  ELSE {}

\* the block on top of the stack is mapped
TakeBlock(p, s, lp) ==
  [p EXCEPT !.table[s][lp] = p.free[Len(p.free)],
            !.free         = SubSeq(@, 1, Len(@) - 1)]

\* one cell of pg_alloc_for_sinfo: its page lp is mapped unless it is already;
\* evict is the page that makes room for it, or NoPage
AllocPage(p, s, lp, evict) ==
  IF p.table[s][lp] # NoBlock
  THEN p
  ELSE TakeBlock(IF evict = NoPage THEN p ELSE FreePage(p, s, evict), s, lp)
==============================================================================
