------------------------------ MODULE TallocOps ------------------------------
(***************************************************************************)
(* The dynamic tensor allocator of ggml (ggml_dyn_tallocr in               *)
(* src/ggml/src/ggml-alloc.c), which plans where the tensors of a graph    *)
(* go.  Its state is the sequence of its chunks [free, max]: the free      *)
(* blocks [offset, size] in the order of their addresses, and the largest  *)
(* address in use so far, which becomes the size of the chunk's buffer.    *)
(***************************************************************************)
EXTENDS Integers, Sequences, SequencesExt, FiniteSetsExt

CONSTANTS
  Alignment,      \* of the buffer type
  MaxChunkSize,   \* max_chunk_size
  MaxChunks,      \* GGML_VBUFFER_MAX_CHUNKS
  Endless         \* SIZE_MAX/2, the space of the last chunk

ASSUME TallocAssumption ==
  /\ Alignment \in Nat \ {0} /\ MaxChunkSize \in Nat \ {0} /\ MaxChunks \in Nat \ {0}
  /\ Endless \in Nat /\ Endless % Alignment = 0 /\ MaxChunkSize % Alignment = 0

\* aligned_offset(NULL, size, alignment)
Padded(size) == ((size + Alignment - 1) \div Alignment) * Alignment

Block(offset, size) == [offset |-> offset, size |-> size]
End(b) == b.offset + b.size

\* ggml_dyn_tallocr_insert_block: before the first block that is not below it
InsertBlock(free, b) ==
  LET below == Cardinality({i \in DOMAIN free : free[i].offset < b.offset})
  IN  InsertAt(free, below + 1, b)

\* ggml_dyn_tallocr_new_chunk
NewChunk(chunks, size) ==
  [free |-> <<Block(0, IF Len(chunks) = MaxChunks - 1 THEN Endless
                       ELSE Max({size, MaxChunkSize}))>>,
   max  |-> 0]

\* the blocks of a chunk, but the last, that are large enough
Fitting(chunk, size) == {i \in 1 .. Len(chunk.free) - 1 : chunk.free[i].size >= size}

\* the smallest of them, the last if several are
BestFit(chunk, fits) ==
  CHOOSE i \in fits : \A j \in fits :
    \/ chunk.free[i].size < chunk.free[j].size
    \/ chunk.free[i].size = chunk.free[j].size /\ i >= j

\* reuse_factor of the last block of a chunk: the space of the chunk already in use
\* once that is left over
ReuseFactor(chunk, size) == chunk.max - Last(chunk.free).offset - size

LastBlockFits(chunk, size) == chunk.free # <<>> /\ Last(chunk.free).size >= size

\* a chunk is better than another if it has to grow less, or leaves over less
BetterReuse(r, q) == IF r >= 0 THEN q < 0 \/ r < q ELSE q < 0 /\ r > q

\* the first of the chunks whose last block leaves over least
BestReuse(chunks, size, cands) ==
  CHOOSE c \in cands : \A d \in cands \ {c} :
    LET r == ReuseFactor(chunks[c], size)
        q == ReuseFactor(chunks[d], size)
    IN  BetterReuse(r, q) \/ (r = q /\ c < d)

\* where ggml_dyn_tallocr_alloc puts size bytes, as <<chunk, block>>; a new chunk is
\* the one after the last
FindBlock(chunks, size) ==
  LET fit  == {c \in DOMAIN chunks : Fitting(chunks[c], size) # {}}
      last == {c \in DOMAIN chunks : LastBlockFits(chunks[c], size)}
  IN  IF fit # {} THEN <<Max(fit), BestFit(chunks[Max(fit)], Fitting(chunks[Max(fit)], size))>>
      ELSE IF last # {}
        THEN LET c == BestReuse(chunks, size, last) IN <<c, Len(chunks[c].free)>>
      ELSE <<Len(chunks) + 1, 1>>

\* the chunk once size bytes are taken from its block i
TakeFrom(chunk, i, size) ==
  LET b == chunk.free[i] IN
  [free |-> IF b.size = size THEN RemoveAt(chunk.free, i)
            ELSE [chunk.free EXCEPT ![i] = Block(b.offset + size, b.size - size)],
   max  |-> Max({chunk.max, b.offset + size})]

\* the chunks among which ggml_dyn_tallocr_alloc takes the block at <<c, i>>
WithChunk(chunks, c, size) ==
  IF c > Len(chunks) THEN Append(chunks, NewChunk(chunks, size)) ELSE chunks

\* a mutant of FreeBlock: a block that grows is not joined with the next
FreeBlockNoJoin(free, b) ==
  LET before == {i \in DOMAIN free : End(free[i]) = b.offset}
      after  == {i \in DOMAIN free : End(b) = free[i].offset}
  IN  IF before # {}
        THEN LET i == Min(before)
             IN  [free EXCEPT ![i] = Block(free[i].offset, free[i].size + b.size)]
      ELSE IF after # {}
        THEN LET i == Min(after)
             IN  [free EXCEPT ![i] = Block(b.offset, free[i].size + b.size)]
      ELSE InsertBlock(free, b)

\* ggml_dyn_tallocr_free_bytes: the block grows a neighbour, or joins both, or is new
FreeBlock(free, b) ==
  LET before == {i \in DOMAIN free : End(free[i]) = b.offset}
      after  == {i \in DOMAIN free : End(b) = free[i].offset}
  IN  IF before # {}
        THEN LET i    == Min(before)
                 next == i + 1 \in after
                 size == free[i].size + b.size + IF next THEN free[i + 1].size ELSE 0
                 kept == IF next THEN RemoveAt(free, i + 1) ELSE free
             IN  [kept EXCEPT ![i] = Block(free[i].offset, size)]
      ELSE IF after # {}
        THEN LET i == Min(after)
             IN  [free EXCEPT ![i] = Block(b.offset, free[i].size + b.size)]
      ELSE InsertBlock(free, b)

FreeBytes(chunks, addr, size) ==
  [chunks EXCEPT ![addr.chunk].free = FreeBlock(@, Block(addr.offset, Padded(size)))]
==============================================================================
