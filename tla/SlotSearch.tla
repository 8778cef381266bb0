----------------------------- MODULE SlotSearch ------------------------------
(***************************************************************************)
(* The search loop of llama_kv_cache::find_slot in one stream              *)
(* (src/src/llama-kv-cache.cpp), an iteration of "while (true)" a step.    *)
(*                                                                         *)
(* Of the cells only the set of the usable ones and the number of used     *)
(* ones matter; both are fixed during the search and chosen in Init.       *)
(***************************************************************************)
EXTENDS SlotOps

VARIABLES
  usable, used,             \* the cells, as find_slot sees them
  n_tokens, cont, head,     \* the arguments, and v_heads of the stream
  head_cur, n_tested, idxs, \* the locals of the loop
  pc                        \* "start", "loop", "found" or "none"

searchVars == <<usable, used, n_tokens, cont, head, head_cur, n_tested, idxs, pc>>

\* an empty cell is usable and not used; a used one may be usable (SWA)
SearchInit ==
  /\ usable \in SUBSET Idx
  /\ used \in NCells - Cardinality(usable) .. NCells
  /\ n_tokens \in 1 .. NCells + 1
  /\ cont \in BOOLEAN
  /\ head \in 0 .. NCells
  /\ head_cur = head
  /\ n_tested = 0
  /\ idxs = <<>>
  /\ pc = "start"

Start ==
  /\ pc = "start"
  /\ head_cur' = StartHead(used, head, n_tokens)
  /\ pc' = IF n_tokens > NCells THEN "none" ELSE "loop"
  /\ UNCHANGED <<usable, used, n_tokens, cont, head, n_tested, idxs>>

NTest == IF cont THEN n_tokens ELSE 1

\* mutant: "continue" comes before the count and the reset
WrapContinues ==
  /\ pc = "loop"
  /\ head_cur + NTest > NCells
  /\ UNCHANGED searchVars

\* no room for the test before the end of the cells: go on from the beginning
Wrap ==
  /\ pc = "loop"
  /\ head_cur + NTest > NCells
  /\ n_tested' = n_tested + NCells - head_cur
  /\ head_cur' = 0
  /\ UNCHANGED <<usable, used, n_tokens, cont, head, idxs, pc>>

\* the cells at which the for loop finds no use
Unusable == {k \in 1 .. NTest : head_cur + k - 1 \notin usable}
FirstUnusable == CHOOSE k \in Unusable : \A j \in Unusable : k <= j

\* The number of cells the for loop looks at, and the number of those it takes: all
\* NTest of them, or up to the first unusable one.  There is one only unless the slot is
\* contiguous, and then that ends the loop.
Looked == IF Unusable = {} THEN NTest ELSE FirstUnusable
Taken  == IF Unusable = {} THEN NTest ELSE FirstUnusable - 1

\* mutant: the search ends one cell early
GivesUpEarly(tested) == tested >= NCells - 1

GivesUp(tested) == tested >= NCells

\* the for loop, and what follows it
TestCells ==
  LET got == idxs \o [k \in 1 .. Taken |-> head_cur + k - 1]
  IN  /\ pc = "loop"
      /\ head_cur + NTest <= NCells
      /\ head_cur' = head_cur + Looked
      /\ n_tested' = n_tested + Looked
      /\ idxs' = IF Len(got) # n_tokens /\ cont THEN <<>> ELSE got
      /\ pc' = CASE Len(got) = n_tokens                        -> "found"
                 [] Len(got) # n_tokens /\ GivesUp(n_tested')  -> "none"
                 [] OTHER                                      -> "loop"
      /\ UNCHANGED <<usable, used, n_tokens, cont, head>>

SearchNext == Start \/ Wrap \/ TestCells

SearchSpec == SearchInit /\ [][SearchNext]_searchVars /\ WF_searchVars(SearchNext)

-----------------------------------------------------------------------------
\* The loop returns the first n_tokens usable cells from the head on and around,
\* or the first run of n_tokens usable cells when it has to be contiguous, and
\* nothing exactly when there are none.
FindsSlot ==
  LET h == StartHead(used, head, n_tokens)
      want == IF cont THEN FirstRun(usable, h, n_tokens)
                      ELSE FirstCells(usable, h, n_tokens)
  IN  /\ pc = "found" => idxs = want
      /\ pc = "none"  => want = NoSlot

\* The loop "while (true)", which wraps around the end of the cells, is left
\* after finitely many iterations: the cells it skips at the end and the ones
\* it looks at add up to the size at some time.
SearchEnds == <>(pc \in {"found", "none"})
==============================================================================
