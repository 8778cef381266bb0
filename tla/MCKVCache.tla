------------------------------ MODULE MCKVCache ------------------------------
(* Small instances of KVCache for TLC. *)
EXTENDS KVCache

EachSeq  == {<<q>> : q \in Seqs}
WholeRange == {<<0, Inf>>}
TwoRanges == {<<0, Inf>>, <<1, Inf>>}
Down     == {-1}

\* seq_cp and seq_div reach very many states.  The run with both follows those of
\* a stream with at most two irregularities, a cell of several sequences or a
\* position that a sequence has in two cells, or else with one shifted cell (the
\* states next to these are checked too)
Shared(c)     == Cardinality({i \in Idx : Cardinality(c.seq[i]) > 1})
Repeats(c)    == Cardinality({<<q, i>> \in Seqs \X Idx : q \in c.seq[i] /\
                   \E j \in 0 .. i - 1 : q \in c.seq[j] /\ c.pos[j] = c.pos[i]})
Shifted(c)    == Cardinality({i \in Idx : c.shift[i] # 0})

FewIrregular ==
  \A s \in Streams :
    LET c == kv.cells[s]
    IN  Shared(c) + Repeats(c) + 2 * Shifted(c) <= 2
==============================================================================
