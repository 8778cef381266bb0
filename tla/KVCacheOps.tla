------------------------------ MODULE KVCacheOps -----------------------------
(***************************************************************************)
(* The operations of llama_kv_cache (src/src/llama-kv-cache.cpp) on its    *)
(* metadata: the cells of every stream (KVCellOps), the search heads and   *)
(* the pool of V pages (VPageOps).  They are kept together in a record kv  *)
(* because prepare() runs them on a dry run that it then undoes.           *)
(*                                                                         *)
(* Left out: the per-layer tensors beyond one K and one V row per cell,    *)
(* the graph building, and the 2D positions.                               *)
(***************************************************************************)
EXTENDS SlotOps, VPageOps, SequencesExt, FiniteSetsExt

CONSTANTS
  Layout,      \* "trans" (no flash attention), "flat" or "paged" (LLAMA_PAGING)
  BlockSize,   \* pg_block_size
  NUbatch      \* n_ubatch

B == INSTANCE BatchOps

ASSUME LayoutAssumption == Layout \in {"trans", "flat", "paged"}
ASSUME BlockAssumption  == NCells = NPages * BlockSize
ASSUME SeqsAssumption   == Seqs \subseteq Nat /\ (NStream > 1 => Seqs = Streams)

\* seq_to_stream: one stream for all sequences, or one for each
StreamOf(q) == IF NStream = 1 THEN 0 ELSE q

PageOf(i)   == i \div BlockSize
CellSeq     == [k \in 1 .. NCells |-> k - 1]
PageSeq     == [k \in 1 .. NPages |-> k - 1]
SeqIds      == SetToSortSeq(Seqs, <)
Inf         == MaxPos + 1       \* std::numeric_limits<llama_pos>::max()

EmptyKv ==
  [cells |-> [s \in Streams |-> ResetCells],
   heads |-> [s \in Streams |-> 0],
   pool  |-> ResetPool]

-----------------------------------------------------------------------------
(* seq_rm, seq_cp, seq_keep, seq_add, seq_div                              *)

\* a loop over the cells of a stream
ForCells(c, Op(_, _)) == FoldLeft(Op, c, CellSeq)

\* new_head: the first cell the loop from cells c to cells d has freed
Freed(c, d) == c.used \ d.used

LowerHead(head, c, d) ==
  IF Freed(c, d) = {} THEN head ELSE Min({head, Min(Freed(c, d))})

\* mutant: a page is freed as soon as one of its cells is empty
PageEmptySome(c, lp) == \E i \in Idx : PageOf(i) = lp /\ IsEmpty(c, i)

PageEmpty(c, lp) == \A i \in Idx : PageOf(i) = lp => IsEmpty(c, i)

\* try_free_page(s, lp) for every page of stream s
FreeEmptyPages(pool, c, s) ==
  LET Try(p, lp) == IF p.table[s][lp] # NoBlock /\ PageEmpty(c, lp)
                    THEN FreePage(p, s, lp) ELSE p
  IN  IF Layout = "paged" THEN FoldLeft(Try, pool, PageSeq) ELSE pool

\* the cells d replace the cells c of stream s, and what seq_rm does after its loop
AfterRm(kv, s, d) ==
  [cells |-> [kv.cells EXCEPT ![s] = d],
   heads |-> [kv.heads EXCEPT ![s] = LowerHead(@, kv.cells[s], d)],
   pool  |-> FreeEmptyPages(kv.pool, d, s)]

\* seq_rm(q, p0, p1), q >= 0
KvSeqRm(kv, q, p0, p1) ==
  LET s == StreamOf(q)
      Op(c, i) == IF PosIn(c, i, p0, p1) /\ q \in c.seq[i]
                  THEN CellSeqRm(c, i, q) ELSE c
  IN  AfterRm(kv, s, ForCells(kv.cells[s], Op))

\* seq_rm(-1, p0, p1)
KvSeqRmAny(kv, p0, p1) ==
  LET Op(c, i) == IF PosIn(c, i, p0, p1) THEN Rm(c, i) ELSE c
      One(k, s) == AfterRm(k, s, ForCells(k.cells[s], Op))
  IN  FoldLeft(One, kv, [k \in 1 .. NStream |-> k - 1])

\* seq_cp(src, dst, p0, p1) in one stream
KvSeqCpSame(kv, src, dst, p0, p1) ==
  LET s == StreamOf(src)
      Op(c, i) == IF PosIn(c, i, p0, p1) /\ src \in c.seq[i]
                  THEN CellSeqAdd(c, i, dst) ELSE c
  IN  [kv EXCEPT !.cells[s] = ForCells(@, Op)]

\* mutant: a cell with a pending shift is copied without it
CopyCellNoShift(c, d, i, dst) == CellSeqAdd(PosSet(d, i, c.pos[i]), i, dst)

\* cell i of the cells c, copied into the cells d for sequence dst
CopyCell(c, d, i, dst) ==
  LET e == CellSeqAdd(PosSet(d, i, c.pos[i] - c.shift[i]), i, dst)
  IN  IF c.shift[i] # 0 THEN PosAdd(e, i, c.shift[i]) ELSE e

\* seq_cp(src, dst) between two streams; the data follow in update()
KvSeqCpCross(kv, src, dst) ==
  LET c == kv.cells[StreamOf(src)]
      Op(d, i) == IF src \in c.seq[i] THEN CopyCell(c, d, i, dst) ELSE d
  IN  [kv EXCEPT !.cells[StreamOf(dst)] = ForCells(ResetCells, Op),
                 !.heads[StreamOf(dst)] = kv.heads[StreamOf(src)]]

KvSeqKeep(kv, q) ==
  LET s == StreamOf(q)
      Op(c, i) == CellSeqKeep(c, i, q)
      d == ForCells(kv.cells[s], Op)
  IN  [kv EXCEPT !.cells[s] = d,
                 !.heads[s] = LowerHead(@, kv.cells[s], d)]

KvSeqAdd(kv, q, p0, p1, delta) ==
  LET s == StreamOf(q)
      Op(c, i) == IF PosIn(c, i, p0, p1) /\ q \in c.seq[i]
                  THEN PosAdd(c, i, delta) ELSE c
      d == ForCells(kv.cells[s], Op)
  IN  [kv EXCEPT !.cells[s] = d,
                 !.heads[s] = LowerHead(IF Freed(kv.cells[s], d) = {} THEN 0 ELSE NCells,
                                        kv.cells[s], d)]

KvSeqDiv(kv, q, p0, p1, div) ==
  LET s == StreamOf(q)
      Op(c, i) == IF PosIn(c, i, p0, p1) /\ q \in c.seq[i]
                  THEN PosDiv(c, i, div) ELSE c
  IN  [kv EXCEPT !.cells[s] = ForCells(@, Op)]

-----------------------------------------------------------------------------
(* Placing the ubatches of a batch.  A batch is a sequence of tokens with  *)
(* the fields seq_id and pos; a slot_info is a sequence with, for every    *)
(* stream of the ubatch, the stream, the cells found and the tokens (their *)
(* indices in the batch) that go there.                                    *)

\* the loop of init_batch over the splits
Ubatches(b) ==
  LET Split(used) == IF NStream = 1 THEN B!SplitSimple(b, used, NUbatch)
                                    ELSE B!SplitEqual(b, used, NUbatch, TRUE)
      Add(acc, u)  == [used |-> acc.used \cup Range(u.idxs),
                       list |-> IF u.idxs = <<>> THEN acc.list ELSE Append(acc.list, u)]
      Step(acc, k) == Add(acc, Split(acc.used))
  IN  FoldLeft(Step, [used |-> {}, list |-> <<>>], [k \in 1 .. Len(b) |-> k])

\* find_slot(ubatch, false)
FindSlot(kv, b, u) ==
  LET n     == IF NStream = 1 THEN Len(u.idxs) ELSE Len(u.idxs) \div u.n_seqs
      Toks(k) == SubSeq(u.idxs, (k - 1) * n + 1, k * n)
      Strm(k) == StreamOf(b[Toks(k)[1]].seq_id[1])
      info  == [k \in 1 .. Len(u.idxs) \div n |->
                  [strm |-> Strm(k),
                   idxs |-> Slot(kv.cells[Strm(k)], kv.heads[Strm(k)], n),
                   toks |-> Toks(k)]]
  IN  IF \E k \in DOMAIN info : info[k].idxs = NoSlot THEN NoSlot ELSE info

\* mutant: the overwritten cell is not emptied first
PlaceTokenOver(acc, s, i, t) ==
  [acc EXCEPT !.kv.cells[s] =
     FoldLeft(LAMBDA c, q : CellSeqAdd(c, i, q), PosSet(@, i, t.pos), t.seq_id)]

\* apply_ubatch, first loop, one token t into cell i of stream s; rm[q] is the
\* largest position of sequence q that was overwritten
PlaceToken(acc, s, i, t) ==
  LET c0 == acc.kv.cells[s]
      c1 == IF IsEmpty(c0, i) THEN c0 ELSE Rm(c0, i)
  IN  [kv |-> [acc.kv EXCEPT !.cells[s] =
                 FoldLeft(LAMBDA c, q : CellSeqAdd(c, i, q), PosSet(c1, i, t.pos), t.seq_id)],
       rm |-> [q \in Seqs |-> IF c0.seq[i] = {q} THEN Max({acc.rm[q], c0.pos[i]})
                              ELSE acc.rm[q]]]

\* mutant: one position too many is purged
PurgeOneMore(acc) ==
  LET One(k, q) == IF acc.rm[q] # NoPos THEN KvSeqRm(k, q, 0, acc.rm[q] + 2) ELSE k
  IN  FoldLeft(One, acc.kv, SeqIds)

\* apply_ubatch, second loop: purge the positions below the overwritten ones
Purge(acc) ==
  LET One(k, q) ==
        IF acc.rm[q] # NoPos /\ SeqPosMin(k.cells[StreamOf(q)], q) <= acc.rm[q]
        THEN KvSeqRm(k, q, SeqPosMin(k.cells[StreamOf(q)], q), acc.rm[q] + 1) ELSE k
  IN  FoldLeft(One, acc.kv, SeqIds)

\* "move the head at the end of the slot"
NewHead(idxs) == Last(idxs) + 1

ApplyUbatch(kv, b, info) ==
  LET OfStream(acc, e) ==
        FoldLeft(LAMBDA a, k : PlaceToken(a, e.strm, e.idxs[k], b[e.toks[k]]),
                 acc, [k \in 1 .. Len(e.idxs) |-> k])
      placed == FoldLeft(OfStream, [kv |-> kv, rm |-> [q \in Seqs |-> NoPos]], info)
      SetHead(k, e) == [k EXCEPT !.heads[e.strm] = NewHead(e.idxs)]
  IN  FoldLeft(SetHead, Purge(placed), info)

\* mutant: only the slot of the last ubatch is restored
RestoreLast(kv, states) ==
  LET Cell(k, e) == [k EXCEPT !.cells[e.strm] = SetCell(@, e.idx, e.pos, e.seq)]
  IN  IF states = <<>> THEN kv ELSE FoldLeft(Cell, kv, Last(states).saved)

\* mutant: the cells of the slots are emptied and so are all others
RestoreEmpties(kv, states) ==
  LET Empty(k, e) == [k EXCEPT !.cells[e.strm] = ResetCells]
  IN  FoldLeft(LAMBDA k, st : FoldLeft(Empty, k, st.info), kv, states)

\* the last loop of prepare: the cells of the slots are set back, newest ubatch
\* first; the head of the k-th stream of the slot is set from the old head of
\* stream k - 1, whichever stream it is
Restore(kv, states) ==
  LET Cell(k, e) == [k EXCEPT !.cells[e.strm] = SetCell(@, e.idx, e.pos, e.seq)]
      Heads(k, st) ==
        [k EXCEPT !.heads = [s \in Streams |->
           IF \E j \in DOMAIN st.info : st.info[j].strm = s
           THEN st.heads[(CHOOSE j \in DOMAIN st.info : st.info[j].strm = s) - 1]
           ELSE @[s]]]
  IN  FoldLeft(LAMBDA k, st : Heads(FoldLeft(Cell, k, st.saved), st), kv, Reverse(states))

\* cells.cp(idxs) for every stream of the slot
SaveCells(kv, info) ==
  FlattenSeq([j \in DOMAIN info |->
    [k \in DOMAIN info[j].idxs |->
       LET s == info[j].strm
           i == info[j].idxs[k]
       IN  [strm |-> s, idx |-> i, pos |-> kv.cells[s].pos[i], seq |-> kv.cells[s].seq[i]]]])

\* prepare, one ubatch of the dry run, for which find_slot has found info
DryRun(acc, b, info) ==
  IF info = NoSlot THEN [acc EXCEPT !.ok = FALSE]
  ELSE [ok     |-> TRUE,
        infos  |-> Append(acc.infos, info),
        states |-> Append(acc.states, [info  |-> info,
                                       heads |-> acc.kv.heads,
                                       saved |-> SaveCells(acc.kv, info)]),
        kv     |-> ApplyUbatch(acc.kv, b, info)]

\* prepare, after the dry run
Undone(run) == [infos |-> IF run.ok THEN run.infos ELSE <<>>,
                kv    |-> Restore(run.kv, run.states)]

\* init_batch and prepare: the slots of all ubatches, or <<>> when one has none,
\* and the cache after the dry run
Prepare(kv, b) ==
  LET Step(acc, u) == IF acc.ok THEN DryRun(acc, b, FindSlot(acc.kv, b, u)) ELSE acc
      Plan(ubs) ==
        IF Cardinality(ubs.used) < Len(b)
        THEN [infos |-> <<>>, kv |-> kv]
        ELSE Undone(FoldLeft(Step, [ok |-> TRUE, infos |-> <<>>, states |-> <<>>, kv |-> kv],
                             ubs.list))
  IN  Plan(Ubatches(b))

\* pg_alloc_for_sinfo.  rank orders the pages that hold tokens by relevance (a
\* computation on K data); a page without tokens scores 0.
PgAlloc(kv, info, rank) ==
  LET Score(s, lp) == IF PageEmpty(kv.cells[s], lp) THEN 0 ELSE rank[lp]
      Evicted(s, E) ==
        IF E = {} THEN NoPage
        ELSE CHOOSE lp \in E : \A m \in E : \/ Score(s, lp) < Score(s, m)
                                            \/ Score(s, lp) = Score(s, m) /\ lp <= m
      OfStream(pool, e) ==
        LET batch == {PageOf(i) : i \in Range(e.idxs)}
            Cell(p, i) == AllocPage(p, e.strm, PageOf(i),
                                    Evicted(e.strm, Evictable(p, e.strm, batch)))
        IN  FoldLeft(Cell, pool, e.idxs)
  IN  IF Layout = "paged" THEN [kv EXCEPT !.pool = FoldLeft(OfStream, @, info)] ELSE kv
==============================================================================
