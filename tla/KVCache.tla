------------------------------- MODULE KVCache -------------------------------
(***************************************************************************)
(* The KV cache and the llama_decode that uses it                          *)
(* (src/src/llama-kv-cache.cpp, llama_context::decode and memory_update of *)
(* src/src/llama-context.cpp).                                             *)
(*                                                                         *)
(* The calls of the memory API (clear, seq_rm, seq_cp, seq_keep, seq_add,  *)
(* seq_div) are a step each.  A decode takes several: it applies pending   *)
(* copies and shifts, plans the slots of all ubatches on a dry run, and    *)
(* then runs one ubatch after the other, each of which may fail; no other  *)
(* call comes between, as a context is not shared by threads.              *)
(*                                                                         *)
(* Of the data only this matters: a K row is the position its rotation     *)
(* (RoPE) stands for, and a V row is the set of the cells whose token was  *)
(* written to it (a copied token is the token of two cells).  A row that   *)
(* holds the token of no cell any more holds the empty set.                *)
(***************************************************************************)
EXTENDS KVCacheOps

CONSTANTS
  Lists,         \* the lists of sequence ids tokens are given
  MaxTokens,     \* n_batch
  MaxCopies,     \* bound on the copies pending at a time
  Ranges,        \* the ranges <<p0, p1>> passed to the calls on sequences
  Deltas,        \* shifts passed to seq_add
  Divisors,      \* divisors passed to seq_div
  Calls,         \* the memory calls made between decodes
  Failures,      \* the graphs that may fail to run: "shift", "ubatch"
  FollowK,       \* are the K rows followed? (no other state depends on them)
  Zero           \* in a V row: the row is all zeroes

VARIABLES
  kv,        \* the metadata: v_cells, v_heads, pg_page_table and pg_free_blocks
  sc_info,   \* the pending stream copies, <<source, destination>>
  kmem,      \* the K rows, by stream and cell
  vmem,      \* the V rows
  ctx,       \* the decode in progress: its batch and the slots still to do
  ret        \* what the last call was, as far as a property refers to it

vars == <<kv, sc_info, kmem, vmem, ctx, ret>>

NoCtx == [b |-> <<>>, infos |-> <<>>]

-----------------------------------------------------------------------------
(* The V rows.                                                             *)

\* v_rows: with flash attention there is a spare block per stream
VRows == IF Layout = "trans" THEN NCells ELSE NCells + BlockSize

Rows == 0 .. NStream * VRows - 1

\* set_input_v_idxs, get_v and set_input_v_page_table: the row of cell i of
\* stream s (an unmapped page is read from the zero block)
VRow(pool, s, i) ==
  IF Layout = "paged"
  THEN LET b == pool.table[s][PageOf(i)]
       IN  ((IF b = NoBlock THEN 0 ELSE b) * BlockSize) + (i % BlockSize)
  ELSE s * NCells + i

\* the zero block, cleared by the constructor and by clear()
ZeroBlock(vm) ==
  IF Layout = "paged" THEN [r \in Rows |-> IF r < BlockSize THEN {Zero} ELSE vm[r]] ELSE vm

\* the rows that still matter, once the metadata are k: the token of an emptied
\* cell is no longer its token, and nobody reads the K row of an empty cell
\* unless a copy of its stream is pending
LiveV(vm, k) == [r \in Rows |-> {x \in vm[r] : x = Zero \/ ~ IsEmpty(k.cells[x[1]], x[2])}]

LiveK(km, k, copies) ==
  [s \in Streams |-> [i \in Idx |->
     IF FollowK /\ (copies # <<>> \/ ~ IsEmpty(k.cells[s], i)) THEN km[s][i] ELSE 0]]

-----------------------------------------------------------------------------
(* update()                                                                *)

HasShift(k) == \E s \in Streams : k.cells[s].has_shift

\* k_stream[src] to k_stream[dst], for every pending copy
CopyK(km, copies) == FoldLeft(LAMBDA m, c : [m EXCEPT ![c[2]] = m[c[1]]], km, copies)

\* mutant: source and destination swapped
CopyVSwapped(vm, copies) ==
  LET One(m, c) ==
        [r \in Rows |-> IF r - c[1] * VRows \in Idx THEN m[r + (c[2] - c[1]) * VRows] ELSE m[r]]
  IN  FoldLeft(One, vm, copies)

\* v_stream[src] to v_stream[dst]: NCells rows from the start of the stream's
\* part of the tensor
CopyV(vm, copies) ==
  LET One(m, c) ==
        [r \in Rows |-> IF r - c[2] * VRows \in Idx THEN m[r + (c[1] - c[2]) * VRows] ELSE m[r]]
  IN  FoldLeft(One, vm, copies)

\* set_input_k_shift and the shift graph
ShiftK(km, k) ==
  [s \in Streams |-> [i \in Idx |->
     km[s][i] + IF IsEmpty(k.cells[s], i) THEN 0 ELSE k.cells[s].shift[i]]]

\* mutant: no shift when there was something to copy
UpdateEither(m, ok) ==
  LET shift == HasShift(m.kv) /\ ok /\ m.sc_info = <<>>
  IN  [kv      |-> IF shift THEN [m.kv EXCEPT !.cells =
                                    [s \in Streams |-> ResetShift(m.kv.cells[s])]] ELSE m.kv,
       sc_info |-> <<>>,
       kmem    |-> IF shift THEN ShiftK(m.kmem, m.kv) ELSE CopyK(m.kmem, m.sc_info),
       vmem    |-> CopyV(m.vmem, m.sc_info)]

\* memory_update: the copies, then the shift, whose failure (ok = FALSE) is
\* logged and leaves the shift pending
Update(m, ok) ==
  LET km    == CopyK(m.kmem, m.sc_info)
      shift == HasShift(m.kv) /\ ok
  IN  [kv      |-> IF shift THEN [m.kv EXCEPT !.cells =
                                    [s \in Streams |-> ResetShift(m.kv.cells[s])]] ELSE m.kv,
       sc_info |-> <<>>,
       kmem    |-> IF shift THEN ShiftK(km, m.kv) ELSE km,
       vmem    |-> CopyV(m.vmem, m.sc_info)]

Memory == [kv |-> kv, sc_info |-> sc_info, kmem |-> kmem, vmem |-> vmem]

-----------------------------------------------------------------------------
Init ==
  /\ kv = EmptyKv
  /\ sc_info = <<>>
  /\ kmem = [s \in Streams |-> [i \in Idx |-> 0]]
  /\ vmem = [r \in Rows |-> {Zero}]
  /\ ctx = NoCtx
  /\ ret = "none"

Idle == ctx = NoCtx

MemoryCall(k) ==
  /\ kv' = k
  /\ kmem' = LiveK(kmem, k, sc_info)
  /\ vmem' = LiveV(vmem, k)
  /\ ret' = "none"
  /\ UNCHANGED <<sc_info, ctx>>

Clear(data) ==
  /\ Idle
  /\ kv' = EmptyKv
  /\ kmem' = IF data THEN [s \in Streams |-> [i \in Idx |-> 0]]
             ELSE LiveK(kmem, EmptyKv, sc_info)
  /\ vmem' = IF data THEN [r \in Rows |-> {Zero}] ELSE ZeroBlock(LiveV(vmem, EmptyKv))
  /\ ret' = "none"
  /\ UNCHANGED <<sc_info, ctx>>

SeqRm(q, p0, p1) ==
  /\ Idle
  /\ MemoryCall(KvSeqRm(kv, q, p0, p1))

SeqRmAny(p0, p1) ==
  /\ Idle
  /\ MemoryCall(KvSeqRmAny(kv, p0, p1))

\* the copied cells must not belong to the destination already
SeqCpSame(src, dst, p0, p1) ==
  LET c == kv.cells[StreamOf(src)] IN
  /\ Idle
  /\ src # dst /\ StreamOf(src) = StreamOf(dst)
  /\ \A i \in Idx : PosIn(c, i, p0, p1) /\ src \in c.seq[i] => dst \notin c.seq[i]
  /\ MemoryCall(KvSeqCpSame(kv, src, dst, p0, p1))

\* the token of a copied cell is in the rows of the original, until the copy is
\* done
SeqCpCross(src, dst) ==
  LET s == StreamOf(src)
      d == StreamOf(dst)
  IN  /\ Idle
      /\ s # d
      /\ Len(sc_info) < MaxCopies
      /\ kv' = KvSeqCpCross(kv, src, dst)
      /\ sc_info' = Append(sc_info, <<s, d>>)
      /\ vmem' = LiveV([r \in Rows |-> {x \in vmem[r] : x = Zero \/ x[1] # d} \cup
                                       {<<d, i>> : i \in {j \in Idx : <<s, j>> \in vmem[r]}}], kv')
      /\ ret' = "none"
      /\ UNCHANGED <<kmem, ctx>>

SeqKeep(q) ==
  /\ Idle
  /\ MemoryCall(KvSeqKeep(kv, q))

SeqAdd(q, p0, p1, delta) ==
  /\ Idle
  /\ \A i \in Idx : PosIn(kv.cells[StreamOf(q)], i, p0, p1) =>
       kv.cells[StreamOf(q)].pos[i] + delta <= MaxPos
  /\ MemoryCall(KvSeqAdd(kv, q, p0, p1, delta))

SeqDiv(q, p0, p1, d) ==
  /\ Idle
  /\ MemoryCall(KvSeqDiv(kv, q, p0, p1, d))

-----------------------------------------------------------------------------
(* decode()                                                                *)

\* the batches without positions of their own: init() continues each sequence
\* after its last position in the memory
MemMin == [q \in Seqs |-> SeqPosMin(kv.cells[StreamOf(q)], q)]
MemMax == [q \in Seqs |-> SeqPosMax(kv.cells[StreamOf(q)], q)]

Batch(ids) ==
  LET pos == B!AutoPos(ids, [q \in Seqs |-> MemMax[q] + 1])
  IN  [i \in DOMAIN ids |-> [seq_id |-> ids[i], pos |-> pos[i]]]

\* those that init() accepts
Batches ==
  {b \in {Batch(ids) : ids \in UNION {[1 .. n -> Lists] : n \in 1 .. MaxTokens}} :
     /\ \A i \in DOMAIN b : b[i].pos <= MaxPos
     /\ B!InitBatchOK(b, MemMin, MemMax)}

\* memory_update and init_batch; when there is no slot and an update is still
\* pending, once more
Attempt(b, ok1, ok2) ==
  LET Planned(m, p) == [m |-> [m EXCEPT !.kv = p.kv], infos |-> p.infos]
      Once(m)       == Planned(m, Prepare(m.kv, b))
      Again(first)  == IF first.infos # <<>> \/ ~ HasShift(first.m.kv) THEN first
                       ELSE Once(Update(first.m, ok2))
  IN  Again(Once(Update(Memory, ok1)))

DecodeBegin(b, ok1, ok2) ==
  /\ \E a \in {Attempt(b, ok1, ok2)} :
       /\ kv' = a.m.kv
       /\ sc_info' = a.m.sc_info
       /\ kmem' = LiveK(a.m.kmem, a.m.kv, <<>>)
       /\ vmem' = LiveV(a.m.vmem, a.m.kv)
       /\ \/ a.infos # <<>> /\ ctx' = [b |-> b, infos |-> a.infos] /\ ret' = "none"
          \/ a.infos = <<>> /\ ctx' = NoCtx /\ ret' = "no_slot"

\* the cells of a slot, with the position of the token that goes there
Targets(b, info) ==
  UNION {{<<e.strm, e.idxs[k], b[e.toks[k]].pos>> : k \in DOMAIN e.idxs} : e \in Range(info)}

\* cpy_k: the K rows of the cells T are written
WriteK(km, T) ==
  [s \in Streams |-> [i \in Idx |->
     IF \E x \in T : x[1] = s /\ x[2] = i THEN (CHOOSE x \in T : x[1] = s /\ x[2] = i)[3]
     ELSE km[s][i]]]

\* the cells T get new tokens, which are in no row yet
NewV(vm, T) == [r \in Rows |-> {x \in vm[r] : x = Zero \/ \A y \in T : x # <<y[1], y[2]>>}]

\* cpy_v: the V rows of the cells T are written
WriteV(vm, pool, T) ==
  [r \in Rows |->
     LET new == {<<y[1], y[2]>> : y \in {z \in T : VRow(pool, z[1], z[2]) = r}}
     IN  IF new = {} THEN vm[r] ELSE new]

\* mctx->apply(): apply_ubatch and pg_alloc_for_sinfo
Applied(rank) == PgAlloc(ApplyUbatch(kv, ctx.b, Head(ctx.infos)), Head(ctx.infos), rank)

\* the rows after the ubatch has been applied with metadata k, and computed
Computed(k, T) == [k |-> WriteK(kmem, T), v |-> WriteV(NewV(vmem, T), k.pool, T)]

UbatchDone(rank) ==
  /\ ~ Idle
  /\ \E k \in {Applied(rank)} : \E m \in {Computed(k, Targets(ctx.b, Head(ctx.infos)))} :
       kv' = k /\ kmem' = LiveK(m.k, k, <<>>) /\ vmem' = LiveV(m.v, k)
  /\ ctx' = IF Len(ctx.infos) = 1 THEN NoCtx ELSE [ctx EXCEPT !.infos = Tail(@)]
  /\ ret' = "none"
  /\ UNCHANGED sc_info

\* the tokens of the ubatch in progress
UbatchToks == UNION {{ctx.b[j] : j \in Range(e.toks)} : e \in Range(Head(ctx.infos))}

\* mutant: the first position of the ubatch is left
RemoveUbatchAfter(k, toks) ==
  LET One(m, q) == LET P == {t.pos : t \in {u \in toks : u.seq_id[1] = q}}
                   IN  IF P = {} THEN m ELSE KvSeqRm(m, q, Min(P) + 1, Inf)
  IN  FoldLeft(One, k, SeqIds)

\* "remove all positions of that ubatch from the memory module"
RemoveUbatch(k, toks) ==
  LET One(m, q) == LET P == {t.pos : t \in {u \in toks : u.seq_id[1] = q}}
                   IN  IF P = {} THEN m ELSE KvSeqRm(m, q, Min(P), Inf)
  IN  FoldLeft(One, k, SeqIds)

\* the graph fails or is aborted, before or after it has written
UbatchFails(rank) ==
  LET T == Targets(ctx.b, Head(ctx.infos))
  IN  /\ ~ Idle
      /\ \E k \in {Applied(rank)} : \E d \in {RemoveUbatch(k, UbatchToks)} :
           /\ kv' = d
           /\ \E m \in {Computed(k, T), [k |-> kmem, v |-> NewV(vmem, T)]} :
                kmem' = LiveK(m.k, d, <<>>) /\ vmem' = LiveV(m.v, d)
      /\ ctx' = NoCtx
      /\ ret' = "failed"
      /\ UNCHANGED sc_info

Oks == IF "shift" \in Failures /\ HasShift(kv) THEN BOOLEAN ELSE {TRUE}

Ranks == IF Budget = 0 THEN {[lp \in Pages |-> lp]}
         ELSE {r \in [Pages -> 1 .. NPages] : \A lp, m \in Pages : lp # m => r[lp] # r[m]}

Decode ==
  \/ Idle /\ \E b \in Batches, ok1, ok2 \in Oks : DecodeBegin(b, ok1, ok2)
  \/ \E rank \in Ranks : UbatchDone(rank) \/ ("ubatch" \in Failures /\ UbatchFails(rank))

Next ==
  \/ "clear" \in Calls    /\ \E data \in BOOLEAN : Clear(data)
  \/ "seq_rm" \in Calls   /\ \E q \in Seqs, r \in Ranges : SeqRm(q, r[1], r[2])
  \/ "rm_any" \in Calls   /\ \E r \in Ranges : SeqRmAny(r[1], r[2])
  \/ "seq_cp" \in Calls   /\ \E q, d \in Seqs, r \in Ranges : SeqCpSame(q, d, r[1], r[2])
  \/ "seq_cp" \in Calls   /\ \E q, d \in Seqs : SeqCpCross(q, d)
  \/ "seq_keep" \in Calls /\ \E q \in Seqs : SeqKeep(q)
  \/ "seq_add" \in Calls  /\ \E q \in Seqs, r \in Ranges, delta \in Deltas :
                               SeqAdd(q, r[1], r[2], delta)
  \/ "seq_div" \in Calls  /\ \E q \in Seqs, r \in Ranges, d \in Divisors :
                               SeqDiv(q, r[1], r[2], d)
  \/ Decode

Spec == Init /\ [][Next]_vars

-----------------------------------------------------------------------------
Used(k, s) == k.cells[s].used

\* Through all calls of the memory API, the dry run of prepare() and failed
\* ubatches, the indexes of the cells (used, seq_pos) stay exact; seq_pos_min and
\* seq_pos_max, from which the next positions are taken, are read from them.
CellsConsistent == \A s \in Streams : ConsistentCells(kv.cells[s])

\* Once the pending stream copies are done, attention reads for every non-empty
\* cell the V row that was written for its token.
ReadsOwnV ==
  LET vm == CopyV(vmem, sc_info)
  IN  \A s \in Streams : \A i \in Used(kv, s) : <<s, i>> \in vm[VRow(kv.pool, s, i)]

\* Once the pending copies and shifts are done, the rotation of the K row of
\* every non-empty cell is the one of the position of the cell.
KRotated ==
  LET km == CopyK(kmem, sc_info)
  IN  \A s \in Streams : \A i \in Used(kv, s) :
        km[s][i] + kv.cells[s].shift[i] = kv.cells[s].pos[i]

\* While a decode is in progress its ubatches are computed with the K rows
\* rotated to the positions of their cells: nothing is pending any more ("handle
\* any pending shifts/copies").
NoShiftInDecode ==
  ~ Idle => \A s \in Streams : \A i \in Used(kv, s) : kmem[s][i] = kv.cells[s].pos[i]

\* the positions that batch b gives to sequence q
PosOf(b, q) == {t.pos : t \in {u \in Range(b) : q \in Range(u.seq_id)}}

\* the next position of sequence q that is decoded: in the ubatches still to do, or
\* after them
NextPos(q) ==
  LET toks == UNION {UNION {Range(e.toks) : e \in Range(info)} : info \in Range(ctx.infos)}
      P    == {ctx.b[j].pos : j \in {k \in toks : q \in Range(ctx.b[k].seq_id)}}
  IN  IF P = {} THEN SeqPosMax(kv.cells[StreamOf(q)], q) + 1 ELSE Min(P)

\* The cells planned on the dry run may be taken when their ubatch is applied,
\* although the earlier ubatches of the decode, and what they and the dry run
\* purged, came between: each is empty, or holds a position of one sequence to
\* which no token still to be decoded attends.
PlanUsable ==
  ~ Idle => \A e \in Range(Head(ctx.infos)) : \A i \in Range(e.idxs) :
              LET c == kv.cells[e.strm]
              IN  IsEmpty(c, i) \/ \E q \in Seqs : /\ c.seq[i] = {q}
                                                   /\ IsMaskedSwa(c.pos[i], NextPos(q))

SameTokens(k, l) ==
  \A s \in Streams : /\ k.cells[s].pos = l.cells[s].pos
                     /\ k.cells[s].seq = l.cells[s].seq

\* Planning a decode changes no cell, whether it succeeds or not: prepare()
\* restores "the cells to their original state".
PrepareRestores ==
  [][(ret' = "no_slot" \/ (Idle /\ ctx' # NoCtx)) => SameTokens(kv, kv')]_vars

\* When a ubatch fails, no cell is left for its tokens ("remove all positions of
\* that ubatch from the memory module").
FailedUbatchGone ==
  [][ret' = "failed" =>
       \A t \in UbatchToks : \A q \in Range(t.seq_id) :
         SeqPosMax(kv'.cells[StreamOf(q)], q) < t.pos]_vars

\* the positions of sequence q that the step takes away
Lost(q) == SeqPosKeys(kv.cells[StreamOf(q)], q) \ SeqPosKeys(kv'.cells[StreamOf(q)], q)

\* the last position of sequence q once batch b is decoded
LastPos(b, q) == Max({SeqPosMax(kv.cells[StreamOf(q)], q)} \cup PosOf(b, q))

\* With a sliding window, applying a ubatch overwrites and purges only positions
\* that no token still to be decoded attends to, although its cells were chosen on the
\* dry run, before the earlier ubatches; and planning a batch loses only positions
\* that the token after the batch does not attend to (the tokens of the batch may:
\* what the dry run purges is not put back).
WindowKept ==
  [][\A q \in Seqs : \A p \in Lost(q) :
       /\ ~ Idle => IsMaskedSwa(p, NextPos(q))
       /\ Idle /\ ctx' # NoCtx => IsMaskedSwa(p, LastPos(ctx'.b, q) + 1)]_vars
==============================================================================
