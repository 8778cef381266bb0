--------------------------- MODULE VPagePoolProofs ---------------------------
(***************************************************************************)
(* Proofs about the V block pool, for any number of streams and pages and  *)
(* any budget, and about the splitting of a batch into the ubatches that   *)
(* are stored on its pages, for any batch and n_ubatch.                    *)
(*                                                                         *)
(* A split method takes unused tokens only, and none twice: its loops over *)
(* the batch are recursive functions, and what they collect is shown for   *)
(* the first token at which it would fail (LeastNumber).                   *)
(***************************************************************************)
EXTENDS VPagePool, BatchSplit, FiniteSetTheorems, SequenceTheorems, WellFoundedInduction, TLAPS

\* The form of BlocksConserved that the operations are shown to preserve: no
\* block is twice on the stack, no two pages share a block, no mapped block is
\* on the stack, and every block is somewhere.
Conserved(p) ==
  /\ \A i, j \in 1 .. Len(p.free) : p.free[i] = p.free[j] => i = j
  /\ \A s, t \in Streams, lp, lq \in Pages :
       p.table[s][lp] # NoBlock /\ p.table[s][lp] = p.table[t][lq]
         => s = t /\ lp = lq
  /\ \A i \in 1 .. Len(p.free), s \in Streams, lp \in Pages :
       p.free[i] # p.table[s][lp]
  /\ \A b \in Blocks : \/ \E i \in 1 .. Len(p.free) : p.free[i] = b
                       \/ \E s \in Streams, lp \in Pages : p.table[s][lp] = b

\* The block count is a natural number, and -1 is no block.
LEMMA NBlocksNat ==
  /\ NBlocks \in Nat
  /\ NBlocks = NPages * NStream + NStream - 1
  /\ NoBlock \notin Blocks
<1>1. NPages * NStream \in Nat
  BY NStreamAssumption, NPagesAssumption
<1>2. NBlocks = NPages * NStream + NStream - 1
  BY NStreamAssumption, NPagesAssumption DEF NBlocks
<1>3. NBlocks \in Nat
  BY <1>1, <1>2, NStreamAssumption
<1>4. NoBlock \notin Blocks
  BY <1>3 DEF Blocks, NoBlock
<1>. QED  BY <1>2, <1>3, <1>4

\* The constructor and clear() set up the pool with every block on the stack.
LEMMA ResetPoolOK == ResetPool \in Pools /\ Conserved(ResetPool)
<1>. DEFINE f == [i \in 1 .. NBlocks |-> NBlocks + 1 - i]
            t == [s \in Streams |-> [lp \in Pages |-> NoBlock]]
<1>1. \A i \in 1 .. NBlocks : f[i] = NBlocks + 1 - i
  OBVIOUS
<1>2. f \in [1 .. NBlocks -> Blocks]
  BY NBlocksNat DEF Blocks
<1>3. f \in Seq(Blocks) /\ Len(f) = NBlocks
  BY <1>2, NBlocksNat
<1>4. t \in [Streams -> [Pages -> Blocks \cup {NoBlock}]]
  OBVIOUS
<1>5. ResetPool = [table |-> t, free |-> f]
  BY DEF ResetPool
<1>6. ResetPool \in Pools
  BY <1>3, <1>4, <1>5 DEF Pools
<1>7. /\ ResetPool.free = f
      /\ \A s \in Streams, lp \in Pages : ResetPool.table[s][lp] = NoBlock
  BY <1>5
<1>. HIDE DEF f, t
<1>8. \A b \in Blocks : \E i \in 1 .. NBlocks : f[i] = b
  <2>1. TAKE b \in Blocks
  <2>2. NBlocks + 1 - b \in 1 .. NBlocks
    BY NBlocksNat DEF Blocks
  <2>3. f[NBlocks + 1 - b] = b
    BY <1>1, <2>2, NBlocksNat DEF Blocks
  <2>. QED  BY <2>2, <2>3
<1>9. \A i, j \in 1 .. NBlocks : f[i] = f[j] => i = j
  BY <1>1, NBlocksNat
<1>10. \A i \in 1 .. NBlocks : f[i] # NoBlock
  BY <1>2, NBlocksNat
<1>. QED  BY <1>3, <1>6, <1>7, <1>8, <1>9, <1>10 DEF Conserved

\* Pushing the block of a mapped page and unmapping the page keeps every block
\* accounted for (try_free_page and eviction).
LEMMA FreePageOK ==
  ASSUME NEW p \in Pools, Conserved(p),
         NEW s \in Streams, NEW lp \in Mapped(p, s)
  PROVE  /\ FreePage(p, s, lp) \in Pools
         /\ Conserved(FreePage(p, s, lp))
         /\ FreePage(p, s, lp).free # <<>>
         /\ Mapped(FreePage(p, s, lp), s) = Mapped(p, s) \ {lp}
         /\ \A r \in Streams \ {s} : Mapped(FreePage(p, s, lp), r) = Mapped(p, r)
<1>. DEFINE b == p.table[s][lp]
            q == FreePage(p, s, lp)
            n == Len(p.free)
            tb == [p.table EXCEPT ![s] = [@ EXCEPT ![lp] = NoBlock]]
            fr == Append(p.free, b)
<1>0. lp \in Pages /\ b # NoBlock /\ b \in Blocks
  BY DEF Mapped, Pools
<1>1. p.free \in Seq(Blocks) /\ n \in Nat
  BY DEF Pools
<1>2. /\ fr \in Seq(Blocks)
      /\ Len(fr) = n + 1
      /\ \A i \in 1 .. n : fr[i] = p.free[i]
      /\ fr[n + 1] = b
  BY <1>0, <1>1
<1>3. /\ tb \in [Streams -> [Pages -> Blocks \cup {NoBlock}]]
      /\ \A r \in Streams, lq \in Pages :
           tb[r][lq] = IF r = s /\ lq = lp THEN NoBlock ELSE p.table[r][lq]
  BY <1>0 DEF Pools
<1>4. q = [p EXCEPT !.free = fr, !.table = tb]
  BY DEF FreePage, Pools
<1>. HIDE DEF tb, fr
<1>5. q \in Pools /\ q.free = fr /\ q.table = tb
  BY <1>2, <1>3, <1>4, Zenon DEF Pools
<1>. HIDE DEF q
<1>6. Conserved(q)
  <2>1. \A i, j \in 1 .. Len(q.free) : q.free[i] = q.free[j] => i = j
    BY <1>0, <1>1, <1>2, <1>5, SMTT(30) DEF Conserved
  <2>2. \A r, t \in Streams, lq, lr \in Pages :
          q.table[r][lq] # NoBlock /\ q.table[r][lq] = q.table[t][lr]
            => r = t /\ lq = lr
    BY <1>3, <1>5 DEF Conserved
  <2>3. \A i \in 1 .. Len(q.free), r \in Streams, lq \in Pages :
          q.free[i] # q.table[r][lq]
    <3>1. TAKE i \in 1 .. Len(q.free), r \in Streams, lq \in Pages
    <3>2. q.free[i] \in Blocks
      BY <1>2, <1>5
    <3>3. q.free[i] # NoBlock
      BY <3>2, NBlocksNat
    <3>4. CASE i \in 1 .. n
      BY <3>3, <3>4, <1>2, <1>3, <1>5 DEF Conserved
    <3>5. CASE i = n + 1
      BY <3>3, <3>5, <1>0, <1>2, <1>3, <1>5, SMTT(30) DEF Conserved
    <3>. QED  BY <3>4, <3>5, <1>1, <1>2, <1>5
  <2>4. \A c \in Blocks : \/ \E i \in 1 .. Len(q.free) : q.free[i] = c
                          \/ \E r \in Streams, lq \in Pages : q.table[r][lq] = c
    <3>1. TAKE c \in Blocks
    <3>2. n + 1 \in 1 .. Len(q.free) /\ 1 .. n \subseteq 1 .. Len(q.free)
      BY <1>1, <1>2, <1>5
    <3>3. CASE c = b
      BY <3>2, <3>3, <1>2, <1>5
    <3>4. CASE c # b
      <4>1. CASE \E i \in 1 .. n : p.free[i] = c
        BY <4>1, <3>2, <1>2, <1>5
      <4>2. CASE \E r \in Streams, lq \in Pages : p.table[r][lq] = c
        BY <4>2, <3>4, <1>3, <1>5
      <4>. QED  BY <4>1, <4>2 DEF Conserved
    <3>. QED  BY <3>3, <3>4
  <2>. QED  BY <2>1, <2>2, <2>3, <2>4 DEF Conserved
<1>7. q.free # <<>>
  BY <1>1, <1>2, <1>5
<1>8. /\ Mapped(q, s) = Mapped(p, s) \ {lp}
      /\ \A r \in Streams \ {s} : Mapped(q, r) = Mapped(p, r)
  BY <1>3, <1>5 DEF Mapped
<1>. QED  BY <1>5, <1>6, <1>7, <1>8 DEF q

\* Popping a block for an unmapped page keeps every block accounted for.
LEMMA TakeBlockOK ==
  ASSUME NEW p \in Pools, Conserved(p), p.free # <<>>,
         NEW s \in Streams, NEW lp \in Pages \ Mapped(p, s)
  PROVE  /\ TakeBlock(p, s, lp) \in Pools
         /\ Conserved(TakeBlock(p, s, lp))
         /\ Mapped(TakeBlock(p, s, lp), s) = Mapped(p, s) \cup {lp}
         /\ \A r \in Streams \ {s} : Mapped(TakeBlock(p, s, lp), r) = Mapped(p, r)
<1>. DEFINE n == Len(p.free)
            b == p.free[n]
            q == TakeBlock(p, s, lp)
            tb == [p.table EXCEPT ![s] = [@ EXCEPT ![lp] = b]]
            fr == SubSeq(p.free, 1, n - 1)
<1>0. p.table[s][lp] = NoBlock
  BY DEF Mapped
<1>1. p.free \in Seq(Blocks) /\ n \in Nat \ {0} /\ b \in Blocks /\ b # NoBlock
  <2>1. p.free \in Seq(Blocks)
    BY DEF Pools
  <2>2. n \in Nat \ {0}
    BY <2>1, EmptySeq
  <2>3. b \in Blocks
    BY <2>1, <2>2, ElementOfSeq
  <2>. QED  BY <2>1, <2>2, <2>3, NBlocksNat
<1>2. /\ fr \in Seq(Blocks)
      /\ Len(fr) = n - 1
      /\ \A i \in 1 .. n - 1 : fr[i] = p.free[i]
  BY <1>1
<1>3. /\ tb \in [Streams -> [Pages -> Blocks \cup {NoBlock}]]
      /\ \A r \in Streams, lq \in Pages :
           tb[r][lq] = IF r = s /\ lq = lp THEN b ELSE p.table[r][lq]
  BY <1>1 DEF Pools
<1>4. q = [p EXCEPT !.table = tb, !.free = fr]
  BY DEF TakeBlock, Pools
<1>. HIDE DEF tb, fr
<1>5. q \in Pools /\ q.free = fr /\ q.table = tb
  BY <1>2, <1>3, <1>4, Zenon DEF Pools
<1>. HIDE DEF q
<1>6. Conserved(q)
  <2>0. 1 .. Len(q.free) = 1 .. n - 1 /\ 1 .. n - 1 \subseteq 1 .. n /\ n \in 1 .. n
    BY <1>1, <1>2, <1>5
  <2>1. \A i, j \in 1 .. Len(q.free) : q.free[i] = q.free[j] => i = j
    BY <2>0, <1>2, <1>5, SMTT(30) DEF Conserved
  <2>2. \A r, t \in Streams, lq, lr \in Pages :
          q.table[r][lq] # NoBlock /\ q.table[r][lq] = q.table[t][lr]
            => r = t /\ lq = lr
    <3>1. \A r \in Streams, lq \in Pages : p.table[r][lq] # b
      BY <2>0 DEF Conserved
    <3>. QED  BY <3>1, <1>3, <1>5, SMTT(30) DEF Conserved
  <2>3. \A i \in 1 .. Len(q.free), r \in Streams, lq \in Pages :
          q.free[i] # q.table[r][lq]
    <3>1. \A i \in 1 .. n - 1 : p.free[i] # b
      BY <2>0, <1>1 DEF Conserved
    <3>. QED  BY <3>1, <2>0, <1>2, <1>3, <1>5, SMTT(30) DEF Conserved
  <2>4. \A c \in Blocks : \/ \E i \in 1 .. Len(q.free) : q.free[i] = c
                          \/ \E r \in Streams, lq \in Pages : q.table[r][lq] = c
    <3>1. TAKE c \in Blocks
    <3>2. CASE c = b
      BY <3>2, <1>3, <1>5
    <3>3. CASE c # b /\ \E i \in 1 .. n : p.free[i] = c
      <4>1. PICK i \in 1 .. n : p.free[i] = c
        BY <3>3
      <4>2. i \in 1 .. n - 1
        BY <4>1, <3>3, <1>1
      <4>. QED  BY <4>1, <4>2, <2>0, <1>2, <1>5, SMTT(30)
    <3>4. CASE \E r \in Streams, lq \in Pages : p.table[r][lq] = c
      <4>1. PICK r \in Streams, lq \in Pages : p.table[r][lq] = c
        BY <3>4
      <4>2. ~ (r = s /\ lq = lp)
        BY <4>1, <1>0, NBlocksNat
      <4>. QED  BY <4>1, <4>2, <1>3, <1>5
    <3>. QED  BY <3>2, <3>3, <3>4 DEF Conserved
  <2>. QED  BY <2>1, <2>2, <2>3, <2>4 DEF Conserved
<1>7. /\ Mapped(q, s) = Mapped(p, s) \cup {lp}
      /\ \A r \in Streams \ {s} : Mapped(q, r) = Mapped(p, r)
  BY <1>1, <1>3, <1>5 DEF Mapped
<1>. QED  BY <1>5, <1>6, <1>7 DEF q

\* There are more blocks than pages to map: with a page unmapped, the mapped
\* pages cannot hold all blocks (pigeonhole), so the stack is not empty.
LEMMA BlocksSuffice ==
  ASSUME NEW p \in Pools, Conserved(p),
         NEW s \in Streams, NEW lp \in Pages \ Mapped(p, s)
  PROVE  p.free # <<>>
<1>. SUFFICES ASSUME p.free = <<>>  PROVE FALSE
  OBVIOUS
<1>. DEFINE D == (Streams \X Pages) \ {<<s, lp>>}
            home == [b \in Blocks |->
                       CHOOSE sp \in D : p.table[sp[1]][sp[2]] = b]
<1>1. \A b \in Blocks : \E sp \in D : p.table[sp[1]][sp[2]] = b
  <2>1. TAKE b \in Blocks
  <2>2. PICK r \in Streams, lq \in Pages : p.table[r][lq] = b
    BY DEF Conserved
  <2>3. p.table[s][lp] = NoBlock
    BY DEF Mapped
  <2>4. <<r, lq>> # <<s, lp>>
    BY <2>2, <2>3, NBlocksNat
  <2>5. <<r, lq>> \in D
    BY <2>4, SMTT(30)
  <2>. QED  BY <2>2, <2>5
<1>2. \A b \in Blocks : home[b] \in D /\ p.table[home[b][1]][home[b][2]] = b
  BY <1>1, ZenonT(30)
<1>3. home \in [Blocks -> D]
  BY <1>2, Zenon
<1>4. /\ IsFiniteSet(Streams \X Pages)
      /\ Cardinality(Streams \X Pages) = NStream * NPages
  <2>1. IsFiniteSet(Streams) /\ Cardinality(Streams) = NStream
    <3>1. NStream \in Nat \ {0} /\ 0 \in Int /\ NStream - 1 \in Int
      BY NStreamAssumption
    <3>2. /\ IsFiniteSet(0 .. NStream - 1)
          /\ Cardinality(0 .. NStream - 1) = IF 0 > NStream - 1 THEN 0 ELSE (NStream - 1) - 0 + 1
      BY <3>1, FS_Interval, Zenon
    <3>3. (IF 0 > NStream - 1 THEN 0 ELSE (NStream - 1) - 0 + 1) = NStream
      BY <3>1
    <3>. QED  BY <3>2, <3>3 DEF Streams
  <2>2. IsFiniteSet(Pages) /\ Cardinality(Pages) = NPages
    <3>1. NPages \in Nat \ {0} /\ 0 \in Int /\ NPages - 1 \in Int
      BY NPagesAssumption
    <3>2. /\ IsFiniteSet(0 .. NPages - 1)
          /\ Cardinality(0 .. NPages - 1) = IF 0 > NPages - 1 THEN 0 ELSE (NPages - 1) - 0 + 1
      BY <3>1, FS_Interval, Zenon
    <3>3. (IF 0 > NPages - 1 THEN 0 ELSE (NPages - 1) - 0 + 1) = NPages
      BY <3>1
    <3>. QED  BY <3>2, <3>3 DEF Pages
  <2>. QED  BY <2>1, <2>2, FS_Product
<1>5. IsFiniteSet(D) /\ Cardinality(D) = NStream * NPages - 1
  <2>1. <<s, lp>> \in Streams \X Pages
    OBVIOUS
  <2>. QED  BY <2>1, <1>4, FS_RemoveElement, ZenonT(30)
<1>6. IsFiniteSet(Blocks) /\ Cardinality(Blocks) = NBlocks
  BY FS_Interval, NBlocksNat DEF Blocks
<1>7. Cardinality(D) < Cardinality(Blocks)
  <2>1. NStream * NPages = NPages * NStream /\ NPages * NStream \in Nat
    BY NStreamAssumption, NPagesAssumption
  <2>. QED  BY <2>1, <1>5, <1>6, NBlocksNat, NStreamAssumption
<1>. HIDE DEF D, home
<1>8. PICK b, c \in Blocks : b # c /\ home[b] = home[c]
  BY <1>3, <1>5, <1>6, <1>7, FS_PigeonHole, SMTT(30)
<1>. QED  BY <1>2, <1>8

\* One cell of pg_alloc_for_sinfo keeps every block accounted for, maps the
\* cell's page, and unmaps at most the page chosen for eviction.
LEMMA AllocPageOK ==
  ASSUME NEW p \in Pools, Conserved(p),
         NEW s \in Streams, NEW lp \in Pages,
         NEW evict \in Mapped(p, s) \cup {NoPage}
  PROVE  LET q == AllocPage(p, s, lp, evict)
         IN  /\ q \in Pools
             /\ Conserved(q)
             /\ Mapped(q, s) = IF lp \in Mapped(p, s) THEN Mapped(p, s)
                               ELSE (Mapped(p, s) \ {evict}) \cup {lp}
             /\ \A r \in Streams \ {s} : Mapped(q, r) = Mapped(p, r)
<1>. DEFINE q == AllocPage(p, s, lp, evict)
<1>0. NoPage \notin Pages
  BY NPagesAssumption DEF NoPage, Pages
<1>1. CASE lp \in Mapped(p, s)
  <2>1. q = p
    BY <1>1 DEF AllocPage, Mapped
  <2>. QED  BY <2>1, <1>1
<1>2. CASE lp \notin Mapped(p, s) /\ evict = NoPage
  <2>1. q = TakeBlock(p, s, lp)
    BY <1>2 DEF AllocPage, Mapped
  <2>2. p.free # <<>>
    BY <1>2, BlocksSuffice
  <2>3. Mapped(p, s) \ {evict} = Mapped(p, s)
    BY <1>0, <1>2 DEF Mapped
  <2>. QED  BY <1>2, <2>1, <2>2, <2>3, TakeBlockOK
<1>3. CASE lp \notin Mapped(p, s) /\ evict # NoPage
  <2>. DEFINE e == FreePage(p, s, evict)
  <2>1. q = TakeBlock(e, s, lp)
    BY <1>3 DEF AllocPage, Mapped
  <2>2. /\ e \in Pools /\ Conserved(e) /\ e.free # <<>>
        /\ Mapped(e, s) = Mapped(p, s) \ {evict}
        /\ \A r \in Streams \ {s} : Mapped(e, r) = Mapped(p, r)
    BY <1>3, FreePageOK
  <2>. HIDE DEF e, q
  <2>3. lp \in Pages \ Mapped(e, s)
    BY <1>3, <2>2
  <2>4. /\ q \in Pools /\ Conserved(q)
        /\ Mapped(q, s) = Mapped(e, s) \cup {lp}
        /\ \A r \in Streams \ {s} : Mapped(q, r) = Mapped(e, r)
    BY <2>1, <2>2, <2>3, TakeBlockOK
  <2>5. /\ q \in Pools /\ Conserved(q)
        /\ Mapped(q, s) = (Mapped(p, s) \ {evict}) \cup {lp}
        /\ \A r \in Streams \ {s} : Mapped(q, r) = Mapped(p, r)
    BY <2>2, <2>4
  <2>. QED  BY <2>5, <1>3 DEF q
<1>. QED  BY <1>1, <1>2, <1>3

\* The inductive invariant: besides the conservation of blocks, the pages of the
\* slot visited so far are mapped while pg_alloc_for_sinfo runs.
IInv ==
  /\ TypeOK
  /\ Conserved(pool)
  /\ todo # {} => current_batch_pages \ todo \subseteq Mapped(pool, strm)

\* What a step of pg_alloc_for_sinfo does to the mapped pages.
LEMMA AllocStepOK ==
  ASSUME IInv, NEW lp \in Pages, AllocStep(lp)
  PROVE  /\ pool' \in Pools /\ Conserved(pool')
         /\ \E evict \in Mapped(pool, strm) \cup {NoPage} :
              /\ Mapped(pool', strm) =
                   IF lp \in Mapped(pool, strm) THEN Mapped(pool, strm)
                   ELSE (Mapped(pool, strm) \ {evict}) \cup {lp}
              /\ evict = NoPage => Evictable(pool, strm, current_batch_pages) = {}
              /\ evict # NoPage => evict \notin current_batch_pages
         /\ \A r \in Streams \ {strm} : Mapped(pool', r) = Mapped(pool, r)
<1>1. PICK evict \in Pages \cup {NoPage} :
        /\ IF Evictable(pool, strm, current_batch_pages) = {}
           THEN evict = NoPage
           ELSE evict \in Evictable(pool, strm, current_batch_pages)
        /\ pool' = AllocPage(pool, strm, lp, evict)
  BY DEF AllocStep
<1>2. /\ evict # NoPage => evict \in Mapped(pool, strm) \ current_batch_pages
      /\ evict = NoPage => Evictable(pool, strm, current_batch_pages) = {}
  <2>1. NoPage \notin Pages
    BY NPagesAssumption DEF NoPage, Pages
  <2>2. Evictable(pool, strm, current_batch_pages) \subseteq Mapped(pool, strm) \ current_batch_pages
    BY DEF Evictable
  <2>3. Mapped(pool, strm) \subseteq Pages
    BY DEF Mapped
  <2>. QED  BY <1>1, <2>1, <2>2, <2>3
<1>3. /\ pool \in Pools /\ Conserved(pool) /\ strm \in Streams
      /\ evict \in Mapped(pool, strm) \cup {NoPage}
  BY <1>2 DEF IInv, TypeOK
<1>4. /\ pool' \in Pools /\ Conserved(pool')
      /\ Mapped(pool', strm) = IF lp \in Mapped(pool, strm) THEN Mapped(pool, strm)
                               ELSE (Mapped(pool, strm) \ {evict}) \cup {lp}
      /\ \A r \in Streams \ {strm} : Mapped(pool', r) = Mapped(pool, r)
  BY <1>1, <1>3, AllocPageOK
<1>. QED  BY <1>2, <1>3, <1>4, ZenonT(30)

LEMMA InitOK == Init => IInv
<1>1. 0 \in Streams
  BY NStreamAssumption DEF Streams
<1>. QED  BY <1>1, ResetPoolOK DEF Init, IInv, TypeOK

LEMMA StepOK == IInv /\ [Next]_vars => IInv'
<1>. SUFFICES ASSUME IInv, [Next]_vars  PROVE IInv'
  OBVIOUS
<1>. USE DEF IInv, TypeOK
<1>1. CASE Clear
  BY <1>1, ResetPoolOK DEF Clear, Idle
<1>2. ASSUME NEW s \in Streams, NEW lp \in Pages, Release(s, lp)
      PROVE  IInv'
  <2>1. lp \in Mapped(pool, s) /\ pool' = FreePage(pool, s, lp)
    BY <1>2 DEF Release
  <2>2. pool' \in Pools /\ Conserved(pool')
    BY <2>1, FreePageOK
  <2>. QED  BY <1>2, <2>2 DEF Release, Idle
<1>3. ASSUME NEW s \in Streams, NEW B \in SUBSET Pages, AllocBegin(s, B)
      PROVE  IInv'
  BY <1>3 DEF AllocBegin, Mapped
<1>4. ASSUME NEW lp \in Pages, AllocStep(lp)
      PROVE  IInv'
  <2>1. /\ lp \in todo /\ todo' = todo \ {lp}
        /\ strm' = strm /\ current_batch_pages' = current_batch_pages
    BY <1>4 DEF AllocStep
  <2>2. PICK evict \in Mapped(pool, strm) \cup {NoPage} :
          /\ Mapped(pool', strm) =
               IF lp \in Mapped(pool, strm) THEN Mapped(pool, strm)
               ELSE (Mapped(pool, strm) \ {evict}) \cup {lp}
          /\ evict # NoPage => evict \notin current_batch_pages
    BY <1>4, AllocStepOK
  <2>3. NoPage \notin Pages
    BY NPagesAssumption DEF NoPage, Pages
  <2>4. current_batch_pages \ todo' \subseteq Mapped(pool', strm)
    BY <2>1, <2>2, <2>3
  <2>5. pool' \in Pools /\ Conserved(pool')
    BY <1>4, AllocStepOK
  <2>. QED  BY <2>1, <2>4, <2>5 DEF Mapped
<1>5. CASE UNCHANGED vars
  BY <1>5 DEF vars, Mapped, Conserved
<1>. QED  BY <1>1, <1>2, <1>3, <1>4, <1>5 DEF Next

\* The invariant implies what the runs check.
LEMMA ConservedImplies ==
  IInv => BlocksConserved /\ NeverOutOfBlocks
<1>. SUFFICES ASSUME IInv  PROVE BlocksConserved /\ NeverOutOfBlocks
  OBVIOUS
<1>1. pool \in Pools /\ Conserved(pool)
  BY DEF IInv, TypeOK
<1>2. BlocksConserved
  <2>1. SUFFICES ASSUME NEW b \in Blocks
        PROVE  \/ /\ \E i \in 1 .. Len(pool.free) : Depths(pool, b) = {i}
                  /\ Where(pool, b) = {}
               \/ /\ \E sp \in Streams \X Pages : Where(pool, b) = {sp}
                  /\ Depths(pool, b) = {}
    BY DEF BlocksConserved
  <2>2. CASE \E i \in 1 .. Len(pool.free) : pool.free[i] = b
    <3>1. PICK i \in 1 .. Len(pool.free) : pool.free[i] = b
      BY <2>2
    <3>2. Depths(pool, b) = {i}
      BY <3>1, <1>1 DEF Conserved, Depths
    <3>3. Where(pool, b) = {}
      BY <3>1, <1>1 DEF Conserved, Where
    <3>. QED  BY <3>2, <3>3
  <2>3. CASE \E s \in Streams, lp \in Pages : pool.table[s][lp] = b
    <3>1. PICK s \in Streams, lp \in Pages : pool.table[s][lp] = b
      BY <2>3
    <3>2. b # NoBlock
      BY NBlocksNat
    <3>3. \A r \in Streams, lq \in Pages : pool.table[r][lq] = b => r = s /\ lq = lp
      BY <3>1, <3>2, <1>1 DEF Conserved
    <3>4. Where(pool, b) = {<<s, lp>>}
      BY <3>1, <3>3 DEF Where
    <3>5. Depths(pool, b) = {}
      BY <3>1, <1>1 DEF Conserved, Depths
    <3>. QED  BY <3>4, <3>5, Zenon
  <2>. QED  BY <2>2, <2>3, <1>1 DEF Conserved
<1>3. NeverOutOfBlocks
  BY <1>1, BlocksSuffice DEF NeverOutOfBlocks, Mapped
<1>. QED  BY <1>2, <1>3

\* Whatever pages are released, allocated and evicted, every block stays
\* accounted for exactly once and pg_alloc_for_sinfo never runs out of blocks.
THEOREM PoolSafe == Spec => [](TypeOK /\ BlocksConserved /\ NeverOutOfBlocks)
<1>1. IInv => TypeOK
  BY DEF IInv
<1>. QED  BY InitOK, StepOK, ConservedImplies, <1>1, PTL DEF Spec

\* The assertion "out of physical blocks" of pg_alloc_for_sinfo never fails, for any
\* number of streams and pages and any budget.
THEOREM BlocksAlwaysSuffice == Spec => []NeverOutOfBlocks
  BY PoolSafe, PTL

\* No step of pg_alloc_for_sinfo takes a page away from its own slot.
THEOREM SlotAlwaysMapped == Spec => SlotMapped
<1>1. IInv /\ [Next]_vars =>
        [todo # {} /\ todo' = {} => current_batch_pages \subseteq Mapped(pool', strm)]_vars
  <2>. SUFFICES ASSUME IInv, Next, todo # {}, todo' = {}
       PROVE  current_batch_pages \subseteq Mapped(pool', strm)
    OBVIOUS
  <2>1. PICK lp \in Pages : AllocStep(lp)
    BY DEF Next, Clear, Release, AllocBegin, Idle
  <2>2. PICK evict \in Mapped(pool, strm) \cup {NoPage} :
          /\ Mapped(pool', strm) =
               IF lp \in Mapped(pool, strm) THEN Mapped(pool, strm)
               ELSE (Mapped(pool, strm) \ {evict}) \cup {lp}
          /\ evict # NoPage => evict \notin current_batch_pages
    BY <2>1, AllocStepOK
  <2>3. NoPage \notin Pages
    BY NPagesAssumption DEF NoPage, Pages
  <2>4. todo = {lp}
    BY <2>1 DEF AllocStep
  <2>. QED  BY <2>2, <2>3, <2>4 DEF IInv, TypeOK
<1>. QED  BY InitOK, StepOK, <1>1, PTL DEF Spec, SlotMapped

\* A stream outgrows the budget only by the pages of one slot.
THEOREM BudgetKept == Spec => BudgetStep
<1>. DEFINE Grows(s) == /\ Budget > 0
                        /\ Cardinality(Mapped(pool', s)) > Cardinality(Mapped(pool, s))
            Allowed(s) == \/ Cardinality(Mapped(pool', s)) <= Budget
                          \/ Mapped(pool', s) \subseteq current_batch_pages
<1>1. IInv /\ [Next]_vars => [\A s \in Streams : Grows(s) => Allowed(s)]_vars
  <2>. SUFFICES ASSUME IInv, Next, NEW s \in Streams, Grows(s)
       PROVE  Allowed(s)
    OBVIOUS
  <2>0. /\ \A p : IsFiniteSet(Mapped(p, s)) /\ Cardinality(Mapped(p, s)) \in Nat
    <3>1. IsFiniteSet(Pages)
      BY FS_Interval, NPagesAssumption DEF Pages
    <3>2. \A p : Mapped(p, s) \in SUBSET Pages
      BY DEF Mapped
    <3>3. \A p : IsFiniteSet(Mapped(p, s))
      BY <3>1, <3>2, FS_Subset
    <3>. QED  BY <3>3, FS_CardinalityType
  <2>1. CASE Clear
    <3>1. Mapped(pool', s) = {}
      BY <2>1 DEF Clear, Mapped, ResetPool
    <3>. QED  BY <3>1
  <2>2. ASSUME NEW r \in Streams, NEW lp \in Pages, Release(r, lp)
        PROVE  Allowed(s)
    <3>1. lp \in Mapped(pool, r) /\ pool' = FreePage(pool, r, lp)
      BY <2>2 DEF Release
    <3>2. pool \in Pools /\ Conserved(pool)
      BY DEF IInv, TypeOK
    <3>3. Mapped(pool', s) \in SUBSET Mapped(pool, s)
      BY <3>1, <3>2, FreePageOK
    <3>4. Cardinality(Mapped(pool', s)) <= Cardinality(Mapped(pool, s))
      BY <3>3, <2>0, FS_Subset
    <3>. QED  BY <3>4, <2>0
  <2>3. ASSUME NEW r \in Streams, NEW B \in SUBSET Pages, AllocBegin(r, B)
        PROVE  Allowed(s)
    BY <2>0, <2>3 DEF AllocBegin
  <2>4. ASSUME NEW lp \in Pages, AllocStep(lp)
        PROVE  Allowed(s)
    <3>. DEFINE M == Mapped(pool, s)
                N == Mapped(pool', s)
    <3>0. lp \in current_batch_pages /\ strm \in Streams
      BY <2>4 DEF AllocStep, IInv, TypeOK
    <3>1. s = strm
      BY <2>0, <2>4, AllocStepOK, SMTT(30)
    <3>2. PICK evict \in M \cup {NoPage} :
            /\ N = IF lp \in M THEN M ELSE (M \ {evict}) \cup {lp}
            /\ evict = NoPage => Evictable(pool, s, current_batch_pages) = {}
      BY <3>1, <2>4, AllocStepOK
    <3>3. lp \notin M
      BY <2>0, <3>2
    <3>4. IsFiniteSet(M) /\ Cardinality(M) \in Nat
      BY <2>0
    <3>5. CASE evict # NoPage
      <4>1. /\ IsFiniteSet(M \ {evict})
            /\ Cardinality(M \ {evict}) = Cardinality(M) - 1
        BY <3>2, <3>4, <3>5, FS_RemoveElement, SMTT(30)
      <4>. DEFINE K == M \ {evict}
      <4>2. Cardinality(K \cup {lp}) = Cardinality(M)
        <5>1. lp \notin K
          BY <3>3
        <5>. HIDE DEF K
        <5>2. Cardinality(K \cup {lp}) = Cardinality(K) + 1
          BY <5>1, <4>1, FS_AddElement, Zenon DEF K
        <5>3. Cardinality(K) = Cardinality(M) - 1
          BY <4>1 DEF K
        <5>. QED  BY <5>2, <5>3, <3>4
      <4>. QED  BY <4>2, <3>2, <3>3, <3>4, SMTT(30)
    <3>6. CASE evict = NoPage
      <4>1. N = M \cup {lp}
        <5>1. NoPage \notin M
          BY NPagesAssumption DEF NoPage, Pages, Mapped
        <5>. QED  BY <5>1, <3>2, <3>3, <3>6
      <4>2. Cardinality(N) = Cardinality(M) + 1
        BY <4>1, <3>3, <3>4, FS_AddElement, SMTT(30)
      <4>3. CASE Cardinality(M) >= Budget
        BY <4>1, <4>3, <3>0, <3>2, <3>6 DEF Evictable
      <4>4. CASE ~ (Cardinality(M) >= Budget)
        BY <4>2, <4>4, <3>4, BudgetAssumption
      <4>. QED  BY <4>3, <4>4
    <3>. QED  BY <3>5, <3>6
  <2>. QED  BY <2>1, <2>2, <2>3, <2>4 DEF Next
<1>. QED  BY InitOK, StepOK, <1>1, PTL DEF Spec, BudgetStep

-----------------------------------------------------------------------------
(* The splits of a batch.                                                  *)

\* A non-empty set of natural numbers has a least element.
LEMMA LeastNumber ==
  ASSUME NEW T \in SUBSET Nat, T # {}
  PROVE  \E n \in T : \A m \in T : n <= m
<1> DEFINE R == OpToRel(<, Nat)
<1>1. \A m, n \in Nat : m < n => <<m, n>> \in R
  BY DEF OpToRel
<1>2. PICK n \in T : \A m \in T : ~ (<<m, n>> \in R)
  BY NatLessThanWellFounded, WFMin, Zenon
<1> HIDE DEF R
<1>3. \A m \in T : ~ (m < n)
  BY <1>1, <1>2, Zenon
<1> QED BY <1>3

\* What the loop that collects the tokens of T has after n tokens.
Collected(g, T, n) ==
  g = [i \in 0 .. n |-> IF i = 0 THEN <<>> ELSE IF i \in T THEN Append(g[i - 1], i) ELSE g[i - 1]]

\* The loop collects something, however long the batch.
LEMMA CollectedExists ==
  ASSUME NEW T, NEW N \in Nat
  PROVE  \E g : Collected(g, T, N)
<1> DEFINE Bad == {n \in Nat : ~ \E g : Collected(g, T, n)}
<1> SUFFICES ASSUME Bad # {} PROVE FALSE
  OBVIOUS
<1>1. Bad \in SUBSET Nat
  OBVIOUS
<1> HIDE DEF Bad
<1>2. PICK n \in Bad : \A m \in Bad : n <= m
  BY <1>1, LeastNumber, Zenon
<1>3. n \in Nat /\ ~ \E g : Collected(g, T, n)
  BY <1>1, <1>2 DEF Bad
<1>4. CASE n = 0
  <2> DEFINE g == [k \in 0 .. 0 |-> <<>>]
  <2>1. \A k \in 0 .. 0 : k = 0
    OBVIOUS
  <2>2. Collected(g, T, 0)
    BY <2>1 DEF Collected
  <2> QED BY <1>3, <1>4, <2>2
<1>5. CASE n # 0
  <2>1. n - 1 \in Nat /\ n - 1 \notin Bad
    BY <1>2, <1>3, <1>5
  <2>2. PICK g : Collected(g, T, n - 1)
    BY <2>1 DEF Bad
  <2> DEFINE step(h, k) == IF k = 0 THEN <<>> ELSE IF k \in T THEN Append(h[k - 1], k) ELSE h[k - 1]
             f == [k \in 0 .. n |-> IF k = n THEN step(g, n) ELSE g[k]]
  <2>3. \A k \in 0 .. n - 1 : g[k] = step(g, k)
    BY <2>2, Zenon DEF Collected
  <2>4. \A k \in 0 .. n : k # 0 => k - 1 \in 0 .. n /\ k - 1 # n
    BY <1>3
  <2>5. \A k \in 0 .. n : k # n => k \in 0 .. n - 1
    BY <1>3
  <2>6. ASSUME NEW k \in 0 .. n PROVE f[k] = step(f, k)
    <3>1. k # 0 => f[k - 1] = g[k - 1]
      BY <2>4
    <3>2. step(f, k) = step(g, k)
      BY <3>1
    <3>3. f[k] = step(g, k)
      BY <2>3, <2>5
    <3> QED BY <3>2, <3>3
  <2>7. f = [k \in 0 .. n |-> step(f, k)]
    <3> HIDE DEF step
    <3>1. f = [k \in 0 .. n |-> f[k]]
      OBVIOUS
    <3> HIDE DEF f
    <3> QED BY <2>6, <3>1, Zenon
  <2>8. Collected(f, T, n)
    <3> HIDE DEF f
    <3> QED BY <2>7, Zenon DEF Collected
  <2> QED BY <1>3, <2>8
<1> QED BY <1>4, <1>5

\* A list of tokens in the order of the batch.
Ordered(s, T) == /\ s \in Seq(Nat)
                 /\ \A x \in DOMAIN s : s[x] \in T
                 /\ \A x, y \in DOMAIN s : x < y => s[x] < s[y]

\* A later token at the end of such a list.
LEMMA OrderedAppend ==
  ASSUME NEW T, NEW s, Ordered(s, T), NEW i \in Nat, i \in T, \A x \in DOMAIN s : s[x] < i
  PROVE  Ordered(Append(s, i), T)
<1> DEFINE t == Append(s, i)
<1>1. s \in Seq(Nat) /\ DOMAIN s = 1 .. Len(s) /\ Len(s) \in Nat
  BY DEF Ordered
<1>2. /\ t \in Seq(Nat) /\ DOMAIN t = 1 .. Len(s) + 1
      /\ \A x \in 1 .. Len(s) : t[x] = s[x]
      /\ t[Len(s) + 1] = i
  BY <1>1
<1> HIDE DEF t
<1>3. \A x \in DOMAIN t : t[x] \in T
  <2>1. \A x \in DOMAIN t : x \in DOMAIN s \/ x = Len(s) + 1
    BY <1>1, <1>2
  <2> QED BY <1>1, <1>2, <2>1 DEF Ordered
<1>4. ASSUME NEW x \in DOMAIN t, NEW y \in DOMAIN t, x < y PROVE t[x] < t[y]
  <2>1. x \in DOMAIN s /\ t[x] = s[x]
    BY <1>1, <1>2, <1>4
  <2>2. CASE y = Len(s) + 1
    BY <1>2, <2>1, <2>2
  <2>3. CASE y # Len(s) + 1
    <3>1. y \in DOMAIN s /\ t[y] = s[y]
      BY <1>1, <1>2, <2>3
    <3> QED BY <1>4, <2>1, <3>1 DEF Ordered
  <2> QED BY <2>2, <2>3
<1> QED BY <1>2, <1>3, <1>4 DEF Ordered, t

\* No token is twice in such a list.
LEMMA OrderedOnce ==
  ASSUME NEW T, NEW s, Ordered(s, T), NEW x \in DOMAIN s, NEW y \in DOMAIN s, s[x] = s[y]
  PROVE  x = y
<1>1. x \in Nat /\ y \in Nat /\ s[x] \in Nat /\ s[y] \in Nat
  BY DEF Ordered
<1>2. ~ (x < y) /\ ~ (y < x)
  BY <1>1 DEF Ordered
<1> QED BY <1>1, <1>2

\* A list of tokens of T among the first n, with one if there is one.
Fine(s, n, T) == /\ Ordered(s, T)
                 /\ \A x \in DOMAIN s : s[x] <= n
                 /\ \A i \in T : i <= n => s # <<>>

\* The next token joins the list or not.
LEMMA FineStep ==
  ASSUME NEW T \in SUBSET (Nat \ {0}), NEW n \in Nat \ {0}, NEW p, Fine(p, n - 1, T),
         NEW s, \/ n \in T /\ s = Append(p, n)
                \/ (n \in T => p # <<>>) /\ s = p
  PROVE  Fine(s, n, T)
<1>1. /\ Ordered(p, T) /\ \A x \in DOMAIN p : p[x] <= n - 1
      /\ \A i \in T : i <= n - 1 => p # <<>>
  BY Zenon DEF Fine
<1>2. p \in Seq(Nat) /\ \A x \in DOMAIN p : p[x] \in Nat
  BY <1>1 DEF Ordered
<1>3. CASE n \in T /\ s = Append(p, n)
  <2>1. \A x \in DOMAIN p : p[x] < n
    BY <1>1, <1>2
  <2>2. Ordered(s, T)
    BY <1>1, <1>3, <2>1, OrderedAppend
  <2>3. (\A x \in DOMAIN s : s[x] <= n) /\ s # <<>>
    <3> DEFINE t == Append(p, n)
    <3>1. /\ DOMAIN t = 1 .. Len(p) + 1 /\ DOMAIN p = 1 .. Len(p) /\ Len(p) \in Nat
          /\ \A x \in 1 .. Len(p) : t[x] = p[x]
          /\ t[Len(p) + 1] = n
      BY <1>2
    <3> HIDE DEF t
    <3>2. ASSUME NEW x \in DOMAIN t PROVE t[x] <= n
      BY <1>2, <2>1, <3>1
    <3>3. t # <<>>
      BY <3>1
    <3> QED BY <1>3, <3>2, <3>3 DEF t
  <2> QED BY <2>2, <2>3, Zenon DEF Fine
<1>4. CASE (n \in T => p # <<>>) /\ s = p
  <2>1. \A x \in DOMAIN p : p[x] <= n
    BY <1>1, <1>2
  <2>2. \A i \in T : i <= n => i <= n - 1 \/ i = n
    OBVIOUS
  <2> QED BY <1>1, <1>4, <2>1, <2>2, Zenon DEF Fine
<1> QED BY <1>3, <1>4, Zenon

\* The empty list, before the first token.
LEMMA FineInit ==
  ASSUME NEW T \in SUBSET (Nat \ {0})
  PROVE  Fine(<<>>, 0, T)
<1>1. <<>> \in Seq(Nat) /\ DOMAIN <<>> = {} /\ \A i \in T : ~ (i <= 0)
  OBVIOUS
<1> QED BY <1>1, Zenon DEF Fine, Ordered

\* InOrder lists tokens of T, and all there are when there is one.
LEMMA InOrderFacts ==
  ASSUME NEW X, NEW b \in Seq(X), NEW T \in SUBSET DOMAIN b
  PROVE  Ordered(InOrder(b, T), T) /\ (T # {} => InOrder(b, T) # <<>>)
<1> DEFINE N == Len(b)
           g == CHOOSE f : Collected(f, T, N)
<1>1. N \in Nat /\ DOMAIN b = 1 .. N
  OBVIOUS
<1>2. InOrder(b, T) = g[N]
  BY DEF InOrder, Collected
<1>3. Collected(g, T, N)
  BY <1>1, CollectedExists, SMTT(30)
<1> HIDE DEF g, N
<1>4. g[0] = <<>> /\ \A k \in 1 .. N : g[k] = IF k \in T THEN Append(g[k - 1], k) ELSE g[k - 1]
  <2>1. \A k \in 0 .. N : g[k] = IF k = 0 THEN <<>> ELSE IF k \in T THEN Append(g[k - 1], k) ELSE g[k - 1]
    BY <1>3, Zenon DEF Collected
  <2>2. 0 \in 0 .. N /\ \A k \in 1 .. N : k \in 0 .. N /\ k # 0
    BY <1>1
  <2> QED BY <2>1, <2>2, Zenon
<1> DEFINE Bad == {n \in 0 .. N : ~ Fine(g[n], n, T)}
<1>5. Bad = {}
  <2> SUFFICES ASSUME Bad # {} PROVE FALSE
    OBVIOUS
  <2>0. T \in SUBSET (Nat \ {0})
    BY <1>1
  <2>1. Bad \in SUBSET Nat
    BY <1>1
  <2> HIDE DEF Bad
  <2>2. PICK n \in Bad : \A m \in Bad : n <= m
    BY <2>1, LeastNumber, Zenon
  <2>3. n \in 0 .. N /\ ~ Fine(g[n], n, T)
    BY <2>2 DEF Bad
  <2>4. n # 0
    BY <1>4, <2>0, <2>3, FineInit, Zenon
  <2>5. n \in 1 .. N /\ n - 1 \in 0 .. N /\ ~ (n <= n - 1) /\ n \in Nat \ {0}
    BY <1>1, <2>3, <2>4
  <2>6. n - 1 \notin Bad
    BY <2>2, <2>5, Zenon
  <2>7. Fine(g[n - 1], n - 1, T)
    BY <2>5, <2>6 DEF Bad
  <2>8. \/ n \in T /\ g[n] = Append(g[n - 1], n)
        \/ (n \in T => g[n - 1] # <<>>) /\ g[n] = g[n - 1]
    BY <1>4, <2>5, Zenon
  <2> QED BY <2>0, <2>3, <2>5, <2>7, <2>8, FineStep, Zenon
<1>6. N \in 0 .. N /\ \A i \in T : i <= N
  BY <1>1
<1>7. Fine(g[N], N, T)
  BY <1>5, <1>6, Zenon
<1> QED BY <1>2, <1>6, <1>7, Zenon DEF Fine

\* The first token that is not used, and the tokens from there on.
LEMMA SplitSimpleOK ==
  ASSUME NEW X, NEW b \in Seq(X), NEW n \in Nat \ {0}, NEW m \in 0 .. Len(b)
  PROVE  \/ SplitSimple(b, 1 .. m, n) = NoUbatch /\ m = Len(b)
         \/ \E k \in 1 .. Len(b) - m :
              SplitSimple(b, 1 .. m, n) = [idxs |-> [j \in 1 .. k |-> m + j], n_seqs |-> k]
<1> DEFINE U == Unused(b, 1 .. m)
           N == Len(b)
<1>1. N \in Nat /\ m \in 0 .. N /\ U = m + 1 .. N
  BY DEF Unused
<1>2. CASE m = N
  <2>1. U = {}
    BY <1>1, <1>2
  <2> QED BY <1>2, <2>1 DEF SplitSimple
<1>3. CASE m # N
  <2> DEFINE k == Min({n, N - (m + 1) + 1})
  <2>1. U # {} /\ Min(U) = m + 1
    <3>1. m + 1 \in U /\ \A y \in U : m + 1 =< y
      BY <1>1, <1>3
    <3>2. \A x \in U : (\A y \in U : x =< y) => x = m + 1
      BY <1>1, <3>1
    <3> HIDE DEF U
    <3> QED BY <3>1, <3>2 DEF Min
  <2>2. k \in {n, N - (m + 1) + 1} /\ \A y \in {n, N - (m + 1) + 1} : k =< y
    <3> DEFINE P == {n, N - (m + 1) + 1}
    <3>1. \E x \in P : \A y \in P : x =< y
      BY <1>1
    <3> HIDE DEF P
    <3>2. Min(P) \in P /\ \A y \in P : Min(P) =< y
      BY <3>1, Zenon DEF Min
    <3> QED BY <3>2 DEF P
  <2>3. SplitSimple(b, 1 .. m, n) = [idxs |-> [j \in 1 .. k |-> (m + 1) + j - 1], n_seqs |-> k]
    <3> HIDE DEF U
    <3>1. SplitSimple(b, 1 .. m, n) = [idxs |-> [j \in 1 .. Min({n, N - Min(U) + 1}) |-> Min(U) + j - 1],
                                       n_seqs |-> Min({n, N - Min(U) + 1})]
      BY <2>1, Zenon DEF SplitSimple, U
    <3> QED BY <2>1, <3>1
  <2> HIDE DEF k
  <2>4. k \in 1 .. N - m
    BY <1>1, <1>3, <2>2
  <2>5. \A j \in 1 .. k : (m + 1) + j - 1 = m + j
    BY <1>1, <2>4
  <2>6. [j \in 1 .. k |-> (m + 1) + j - 1] = [j \in 1 .. k |-> m + j]
    BY <2>5
  <2> QED BY <2>3, <2>4, <2>6
<1> QED BY <1>2, <1>3, Zenon

\* The j-th of m lists of r elements each, one after the other.
LEMMA PlaceInLists ==
  ASSUME NEW r \in Nat \ {0}, NEW m \in Nat, NEW j \in 1 .. r * m
  PROVE  /\ ((j - 1) \div r) + 1 \in 1 .. m
         /\ ((j - 1) % r) + 1 \in 1 .. r
         /\ j = r * ((j - 1) \div r) + ((j - 1) % r) + 1
<1> DEFINE q == (j - 1) \div r
           t == (j - 1) % r
<1>0. r * m \in Nat /\ j - 1 \in Nat /\ j - 1 < r * m
  OBVIOUS
<1>1. q \in Int /\ t \in 0 .. r - 1 /\ j - 1 = r * q + t
  BY <1>0
<1> HIDE DEF q, t
<1>2. r * q \in Int
  BY <1>1
<1>3. q >= 0
  <2> SUFFICES ASSUME q <= -1 PROVE FALSE
    BY <1>1
  <2>1. r * q <= r * (-1)
    BY <1>1
  <2> QED BY <1>0, <1>1, <1>2, <2>1
<1>4. q < m
  <2> SUFFICES ASSUME m <= q PROVE FALSE
    BY <1>1
  <2>1. r * m <= r * q
    BY <1>1
  <2> QED BY <1>0, <1>1, <1>2, <2>1
<1>5. j = r * q + t + 1
  BY <1>0, <1>1, <1>2
<1> QED BY <1>1, <1>3, <1>4, <1>5 DEF q, t

\* m lists of r elements have the length r.
LEMMA ListLength ==
  ASSUME NEW r \in Nat \ {0}, NEW m \in Nat \ {0}
  PROVE  r * m \in Nat \ {0} /\ (r * m) \div m = r
<1> DEFINE q == (r * m) \div m
           t == (r * m) % m
<1>0. r * m \in Nat \ {0}
  OBVIOUS
<1>1. q \in Int /\ t \in 0 .. m - 1 /\ r * m = m * q + t
  BY <1>0
<1> HIDE DEF q, t
<1>2. m * q \in Int /\ m * r \in Int /\ r * m = m * r
  BY <1>1
<1>3. ~ (q < r)
  <2> SUFFICES ASSUME q <= r - 1 PROVE FALSE
    BY <1>1
  <2>1. m * q <= m * (r - 1)
    BY <1>1
  <2>2. m * (r - 1) = m * r - m
    OBVIOUS
  <2> QED BY <1>1, <1>2, <2>1, <2>2
<1>4. ~ (r < q)
  <2> SUFFICES ASSUME r + 1 <= q PROVE FALSE
    BY <1>1
  <2>1. m * (r + 1) <= m * q
    BY <1>1
  <2>2. m * (r + 1) = m * r + m
    OBVIOUS
  <2> QED BY <1>1, <1>2, <2>1, <2>2
<1> QED BY <1>0, <1>1, <1>3, <1>4 DEF q

\* A batch as init() leaves it.
IsBatch(b) == /\ b \in Seq([seq_id : Seq(Seqs), pos : Int])
              /\ \A i \in DOMAIN b : b[i].seq_id # <<>>

\* The tokens of a batch have sequences.
LEMMA BatchFacts ==
  ASSUME NEW b, IsBatch(b)
  PROVE  /\ Len(b) \in Nat /\ DOMAIN b = 1 .. Len(b)
         /\ \A i \in DOMAIN b : /\ SeqSet(b[i]) \in SUBSET Seqs /\ SeqSet(b[i]) # {}
                                /\ b[i].seq_id \in Seq(Seqs) /\ b[i].seq_id[1] \in SeqSet(b[i])
<1>1. /\ Len(b) \in Nat /\ DOMAIN b = 1 .. Len(b)
      /\ \A i \in DOMAIN b : b[i].seq_id \in Seq(Seqs) /\ b[i].seq_id # <<>>
  <2>1. b \in Seq([seq_id : Seq(Seqs), pos : Int])
    BY DEF IsBatch
  <2>2. Len(b) \in Nat /\ DOMAIN b = 1 .. Len(b)
    BY <2>1
  <2>3. \A i \in DOMAIN b : b[i] \in [seq_id : Seq(Seqs), pos : Int]
    <3>1. ASSUME NEW T, NEW s \in Seq(T), NEW i \in DOMAIN s PROVE s[i] \in T
      OBVIOUS
    <3> QED BY <2>1, <3>1, Zenon
  <2>4. \A i \in DOMAIN b : b[i].seq_id \in Seq(Seqs)
    BY <2>3
  <2> QED BY <2>2, <2>4, Zenon DEF IsBatch
<1>2. ASSUME NEW q \in Seq(Seqs), q # <<>> PROVE Range(q) \in SUBSET Seqs /\ q[1] \in Range(q)
  BY <1>2 DEF Range
<1> QED BY <1>1, <1>2, Zenon DEF SeqSet

\* One token in the loop over the sequence sets.
SetStep(b, used_, n, sq, acc, i) ==
  IF Joins(b, used_, n, sq, acc, i)
  THEN [sets |-> Append(acc.sets, SeqSet(b[i])), last |-> b[i].seq_id[1]] ELSE acc

\* What this loop has after N tokens.
SetsLoop(g, b, used_, n, sq, N) ==
  g = [i \in 0 .. N |-> IF i = 0 THEN [sets |-> <<>>, last |-> -1]
                        ELSE SetStep(b, used_, n, sq, g[i - 1], i)]

\* The loop has a result, however long the batch.
LEMMA SetsLoopExists ==
  ASSUME NEW b, NEW us, NEW nu, NEW sq, NEW N \in Nat
  PROVE  \E g : SetsLoop(g, b, us, nu, sq, N)
<1> DEFINE Bad == {n \in Nat : ~ \E g : SetsLoop(g, b, us, nu, sq, n)}
<1> SUFFICES ASSUME Bad # {} PROVE FALSE
  OBVIOUS
<1>1. Bad \in SUBSET Nat
  OBVIOUS
<1> HIDE DEF Bad
<1>2. PICK n \in Bad : \A m \in Bad : n <= m
  BY <1>1, LeastNumber, Zenon
<1>3. n \in Nat /\ ~ \E g : SetsLoop(g, b, us, nu, sq, n)
  BY <1>1, <1>2 DEF Bad
<1> DEFINE first == [sets |-> <<>>, last |-> -1]
           step(h, k) == IF k = 0 THEN first ELSE SetStep(b, us, nu, sq, h[k - 1], k)
<1>4. CASE n = 0
  <2> DEFINE g == [k \in 0 .. 0 |-> first]
  <2>1. \A k \in 0 .. 0 : k = 0
    OBVIOUS
  <2>2. SetsLoop(g, b, us, nu, sq, 0)
    <3> HIDE DEF first
    <3>1. g = [k \in 0 .. 0 |-> step(g, k)]
      BY <2>1
    <3> QED BY <3>1, Zenon DEF SetsLoop, first
  <2> QED BY <1>3, <1>4, <2>2
<1>5. CASE n # 0
  <2>1. n - 1 \in Nat /\ n - 1 \notin Bad
    BY <1>2, <1>3, <1>5
  <2>2. PICK g : SetsLoop(g, b, us, nu, sq, n - 1)
    BY <2>1 DEF Bad
  <2> DEFINE f == [k \in 0 .. n |-> IF k = n THEN step(g, n) ELSE g[k]]
  <2>3. \A k \in 0 .. n - 1 : g[k] = step(g, k)
    BY <2>2, Zenon DEF SetsLoop
  <2>4. \A k \in 0 .. n : k # 0 => k - 1 \in 0 .. n /\ k - 1 # n
    BY <1>3
  <2>5. \A k \in 0 .. n : k # n => k \in 0 .. n - 1
    BY <1>3
  <2> HIDE DEF first
  <2>6. ASSUME NEW k \in 0 .. n PROVE f[k] = step(f, k)
    <3>1. k # 0 => f[k - 1] = g[k - 1]
      BY <2>4
    <3>2. step(f, k) = step(g, k)
      BY <3>1
    <3>3. f[k] = step(g, k)
      BY <2>3, <2>5, SMTT(30)
    <3> QED BY <3>2, <3>3
  <2>7. f = [k \in 0 .. n |-> step(f, k)]
    <3> HIDE DEF step
    <3>1. f = [k \in 0 .. n |-> f[k]]
      OBVIOUS
    <3> HIDE DEF f
    <3> QED BY <2>6, <3>1, Zenon
  <2>8. SetsLoop(f, b, us, nu, sq, n)
    <3> HIDE DEF f
    <3> QED BY <2>7, Zenon DEF SetsLoop, first
  <2> QED BY <1>3, <2>8
<1> QED BY <1>4, <1>5

\* What holds of the sequence sets chosen among the first i tokens.
SetsOK(b, us, sq, i, acc) ==
  /\ acc.sets \in Seq(SUBSET Seqs)
  /\ \A k \in DOMAIN acc.sets : \E j \in Unused(b, us) : SeqSet(b[j]) = acc.sets[k]
  /\ \A k, l \in DOMAIN acc.sets : k # l => acc.sets[k] \cap acc.sets[l] = {}
  /\ \A j \in Unused(b, us) : j <= i => acc.sets # <<>>
  /\ sq => \E a \in Int : /\ \A k \in DOMAIN acc.sets : acc.sets[k] = {a + k - 1}
                          /\ acc.sets # <<>> => acc.last = a + Len(acc.sets) - 1

\* Without coupled sequences a token has one sequence.
LEMMA NotCoupled ==
  ASSUME NEW b, IsBatch(b), ~ HasCpl(b), NEW i \in DOMAIN b
  PROVE  b[i].seq_id = <<b[i].seq_id[1]>> /\ SeqSet(b[i]) = {b[i].seq_id[1]}
<1> DEFINE q == b[i].seq_id
<1>1. q \in Seq(Seqs) /\ q # <<>>
  BY BatchFacts, Zenon DEF IsBatch
<1>2. \A k : k \notin 2 .. Len(q)
  <2> SUFFICES ASSUME NEW k \in 2 .. Len(q) PROVE FALSE
    OBVIOUS
  <2>1. <<q[k], q[1]>> \in Coupled(b)
    BY DEF Coupled
  <2> QED BY <2>1 DEF HasCpl
<1> HIDE DEF q
<1>3. Len(q) = 1
  <2>1. Len(q) \in Nat /\ Len(q) # 0
    BY <1>1
  <2>2. Len(q) >= 2 => 2 \in 2 .. Len(q)
    BY <2>1
  <2>3. ~ (Len(q) >= 2)
    BY <1>2, <2>2, Zenon
  <2>4. \A m \in Nat : m # 0 /\ ~ (m >= 2) => m = 1
    OBVIOUS
  <2> QED BY <2>1, <2>3, <2>4, Zenon
<1>4. q = <<q[1]>> /\ Range(q) = {q[1]}
  BY <1>1, <1>3 DEF Range
<1> QED BY <1>4 DEF SeqSet, q

\* One more token in the loop over the sequence sets.
LEMMA SetStepOK ==
  ASSUME NEW b, IsBatch(b), NEW us \in SUBSET DOMAIN b, NEW nu \in Nat, NEW sq \in BOOLEAN,
         sq => ~ HasCpl(b), Seqs \subseteq Nat,
         NEW i \in DOMAIN b, NEW acc, SetsOK(b, us, sq, i - 1, acc)
  PROVE  SetsOK(b, us, sq, i, SetStep(b, us, nu, sq, acc, i))
<1> DEFINE S == SeqSet(b[i])
           id == b[i].seq_id[1]
<1>0. /\ DOMAIN b = 1 .. Len(b) /\ Len(b) \in Nat /\ i \in Nat
      /\ S \in SUBSET Seqs /\ S # {} /\ id \in Nat
      /\ \A j \in Unused(b, us) : j \in Nat
  <2>1. /\ DOMAIN b = 1 .. Len(b) /\ Len(b) \in Nat
        /\ S \in SUBSET Seqs /\ S # {} /\ id \in S
    BY BatchFacts, Zenon
  <2>2. i \in Nat /\ \A j \in Unused(b, us) : j \in Nat
    BY <2>1 DEF Unused
  <2>3. id \in Nat
    BY <2>1, Zenon
  <2> QED BY <2>1, <2>2, <2>3, Zenon
<1>1. CASE Joins(b, us, nu, sq, acc, i)
  <2> DEFINE t == Append(acc.sets, S)
             n == Len(acc.sets)
  <2>1. SetStep(b, us, nu, sq, acc, i) = [sets |-> t, last |-> id]
    BY <1>1 DEF SetStep
  <2>2. /\ i \in Unused(b, us)
        /\ \A k \in DOMAIN acc.sets : acc.sets[k] \cap S = {}
        /\ sq => acc.sets = <<>> \/ id = acc.last + 1
    BY <1>1 DEF Joins, Unused, NextId
  <2>3. acc.sets \in Seq(SUBSET Seqs)
    BY DEF SetsOK
  <2> HIDE DEF S, id
  <2>4. /\ t \in Seq(SUBSET Seqs) /\ DOMAIN t = 1 .. n + 1 /\ DOMAIN acc.sets = 1 .. n /\ n \in Nat
        /\ \A k \in 1 .. n : t[k] = acc.sets[k]
        /\ t[n + 1] = S /\ Len(t) = n + 1
    BY <1>0, <2>3
  <2> HIDE DEF t, n
  <2>5. \A k \in DOMAIN t : (k \in DOMAIN acc.sets /\ t[k] = acc.sets[k]) \/ (k = n + 1 /\ t[k] = S)
    <3>1. \A k \in 1 .. n + 1 : k \in 1 .. n \/ k = n + 1
      BY <2>4
    <3> QED BY <2>4, <3>1, Zenon
  <2>6. \A k \in DOMAIN t : \E j \in Unused(b, us) : SeqSet(b[j]) = t[k]
    BY <2>2, <2>5, Zenon DEF SetsOK, S
  <2>7. \A k, l \in DOMAIN t : k # l => t[k] \cap t[l] = {}
    <3>1. \A k \in DOMAIN acc.sets : S \cap acc.sets[k] = {}
      BY <2>2
    <3> QED BY <2>2, <2>5, <3>1, Zenon DEF SetsOK
  <2>8. t # <<>>
    BY <2>4
  <2>9. ASSUME sq PROVE \E a \in Int : /\ \A k \in DOMAIN t : t[k] = {a + k - 1}
                                       /\ id = a + Len(t) - 1
    <3>1. S = {id}
      BY <2>9, NotCoupled DEF S, id
    <3>2. CASE acc.sets = <<>>
      <4>1. n = 0
        BY <3>2 DEF n
      <4>2. \A k \in DOMAIN t : t[k] = {id + k - 1}
        BY <1>0, <2>4, <3>1, <4>1, SMTT(30)
      <4>3. id \in Int /\ id = id + Len(t) - 1
        BY <1>0, <2>4, <4>1, SMTT(30)
      <4> QED BY <4>2, <4>3
    <3>3. CASE acc.sets # <<>>
      <4>1. PICK a \in Int : /\ \A k \in DOMAIN acc.sets : acc.sets[k] = {a + k - 1}
                             /\ acc.last = a + n - 1
        BY <2>9, <3>3, SMTT(30) DEF SetsOK, n
      <4>2. id = a + (n + 1) - 1
        BY <2>2, <2>4, <2>9, <3>3, <4>1, SMTT(30)
      <4>3. \A k \in DOMAIN t : t[k] = {a + k - 1}
        BY <2>5, <3>1, <4>1, <4>2, SMTT(30)
      <4> QED BY <2>4, <4>2, <4>3, SMTT(30)
    <3> QED BY <3>2, <3>3
  <2>10. SetsOK(b, us, sq, i, [sets |-> t, last |-> id])
    BY <2>4, <2>6, <2>7, <2>8, <2>9, Zenon DEF SetsOK
  <2> QED BY <2>1, <2>10
<1>2. CASE ~ Joins(b, us, nu, sq, acc, i)
  <2>1. SetStep(b, us, nu, sq, acc, i) = acc
    BY <1>2, SMTT(30) DEF SetStep
  <2>2. i \in Unused(b, us) => acc.sets # <<>>
    <3> SUFFICES ASSUME i \in Unused(b, us), acc.sets = <<>> PROVE FALSE
      OBVIOUS
    <3>1. Len(acc.sets) = 0 /\ DOMAIN acc.sets = {}
      OBVIOUS
    <3> QED BY <1>2, <3>1 DEF Joins, Unused
  <2>3. \A j \in Unused(b, us) : j <= i => j = i \/ j <= i - 1
    BY <1>0
  <2>4. \A j \in Unused(b, us) : j <= i => acc.sets # <<>>
    BY <2>2, <2>3, Zenon DEF SetsOK
  <2> QED BY <2>1, <2>4, Zenon DEF SetsOK
<1> QED BY <1>1, <1>2

\* The sequence sets of the next ubatch are those of tokens still unused, no
\* two share a sequence, and there is one if a token is left.
LEMMA EqualSetsOK ==
  ASSUME NEW b, IsBatch(b), NEW us \in SUBSET DOMAIN b, NEW nu \in Nat, NEW sq \in BOOLEAN,
         sq => ~ HasCpl(b), Seqs \subseteq Nat
  PROVE  \E acc : acc.sets = EqualSets(b, us, nu, sq) /\ SetsOK(b, us, sq, Len(b), acc)
<1> DEFINE N == Len(b)
           g == CHOOSE f : SetsLoop(f, b, us, nu, sq, N)
<1>1. N \in Nat /\ DOMAIN b = 1 .. N
  BY BatchFacts
<1>2. EqualSets(b, us, nu, sq) = g[N].sets
  BY DEF EqualSets, SetsLoop, SetStep
<1>3. SetsLoop(g, b, us, nu, sq, N)
  <2>1. \E f : SetsLoop(f, b, us, nu, sq, N)
    BY <1>1, SetsLoopExists
  <2> QED BY <2>1, Zenon
<1> HIDE DEF g, N
<1> DEFINE first == [sets |-> <<>>, last |-> -1]
           fine(n) == SetsOK(b, us, sq, n, g[n])
           Bad == {n \in 0 .. N : ~ fine(n)}
<1>4. g[0] = first /\ \A k \in 1 .. N : g[k] = SetStep(b, us, nu, sq, g[k - 1], k)
  <2>1. \A k \in 0 .. N : g[k] = IF k = 0 THEN first ELSE SetStep(b, us, nu, sq, g[k - 1], k)
    BY <1>3, Zenon DEF SetsLoop
  <2>2. 0 \in 0 .. N /\ \A k \in 1 .. N : k \in 0 .. N /\ k # 0
    BY <1>1
  <2> HIDE DEF first
  <2> QED BY <2>1, <2>2, Zenon
<1>5. Bad = {}
  <2> SUFFICES ASSUME Bad # {} PROVE FALSE
    OBVIOUS
  <2>1. Bad \in SUBSET Nat
    BY <1>1
  <2> HIDE DEF Bad
  <2>2. PICK n \in Bad : \A m \in Bad : n <= m
    BY <2>1, LeastNumber, Zenon
  <2>3. n \in 0 .. N /\ ~ fine(n)
    BY <2>2 DEF Bad
  <2>4. n # 0
    <3>1. /\ first.sets = <<>> /\ <<>> \in Seq(SUBSET Seqs) /\ DOMAIN <<>> = {}
          /\ \A j \in Unused(b, us) : ~ (j <= 0)
          /\ 0 \in Int
      BY <1>1 DEF Unused
    <3>2. SetsOK(b, us, sq, 0, first)
      <4> HIDE DEF first
      <4> QED BY <3>1, Zenon DEF SetsOK
    <3> QED BY <1>4, <2>3, <3>2, SMTT(30)
  <2>5. n \in 1 .. N /\ n - 1 \in 0 .. N /\ ~ (n <= n - 1)
    BY <1>1, <2>3, <2>4
  <2>6. n - 1 \notin Bad
    BY <2>2, <2>5, Zenon
  <2>7. fine(n - 1)
    BY <2>5, <2>6 DEF Bad
  <2>8. SetsOK(b, us, sq, n, SetStep(b, us, nu, sq, g[n - 1], n))
    BY <1>1, <2>5, <2>7, SetStepOK, Zenon
  <2>9. g[n] = SetStep(b, us, nu, sq, g[n - 1], n)
    BY <1>4, <2>5, Zenon
  <2> QED BY <2>3, <2>8, <2>9, Zenon
<1>6. N \in 0 .. N
  BY <1>1
<1>7. fine(N)
  BY <1>5, <1>6, Zenon
<1> QED BY <1>2, <1>7, Zenon DEF N

\* A ubatch of unused tokens, none twice.
Fresh(b, us, s) == /\ s \in Seq(Unused(b, us)) /\ s # <<>>
                   /\ \A x, y \in DOMAIN s : s[x] = s[y] => x = y

\* The sequences of the ubatch u, one for each of its lists, are an interval.
Contiguous(b, u) ==
  \A x \in DOMAIN u.idxs :
    b[u.idxs[x]].seq_id = <<b[u.idxs[1]].seq_id[1] + (x - 1) \div (Len(u.idxs) \div u.n_seqs)>>

\* The number of rounds is positive, and every list has a token for each.
LEMMA RoundsOK ==
  ASSUME NEW b, NEW us, NEW nu \in Nat, NEW ss, Len(ss) \in Nat \ {0},
         \A k \in DOMAIN ss : Len(TokensOf(b, us, ss[k])) \in Nat \ {0}
  PROVE  /\ EqualRounds(b, us, nu, ss) \in Nat \ {0}
         /\ \A k \in DOMAIN ss : EqualRounds(b, us, nu, ss) <= Len(TokensOf(b, us, ss[k]))
<1> DEFINE fit == Max({1, nu \div Len(ss)})
           L == {Len(TokensOf(b, us, ss[k])) : k \in DOMAIN ss}
           P == {fit} \cup L
<1>1. fit \in Nat \ {0}
  <2> DEFINE Q == {1, nu \div Len(ss)}
  <2>1. nu \div Len(ss) \in Int
    OBVIOUS
  <2>2. \E x \in Q : \A y \in Q : x >= y
    BY <2>1
  <2> HIDE DEF Q
  <2>3. Max(Q) \in Q /\ \A y \in Q : Max(Q) >= y
    BY <2>2, Zenon DEF Max
  <2> QED BY <2>1, <2>3 DEF Q
<1> HIDE DEF fit
<1>2. P \in SUBSET (Nat \ {0}) /\ P # {} /\ \A k \in DOMAIN ss : Len(TokensOf(b, us, ss[k])) \in P
  BY <1>1
<1>3. EqualRounds(b, us, nu, ss) = Min(P)
  BY DEF EqualRounds, fit
<1> HIDE DEF P
<1>4. P \in SUBSET Nat
  BY <1>2
<1>5. \E x \in P : \A y \in P : x <= y
  BY <1>2, <1>4, LeastNumber, Zenon
<1>6. Min(P) \in P /\ \A y \in P : Min(P) <= y
  BY <1>5, Zenon DEF Min
<1> QED BY <1>2, <1>3, <1>6, Zenon

\* A function on 1 .. m is a sequence of m elements.
LEMMA FunctionIsSeq ==
  ASSUME NEW V, NEW m \in Nat \ {0}, NEW f \in [1 .. m -> V]
  PROVE  f \in Seq(V) /\ Len(f) = m /\ f # <<>>
<1>1. f \in Seq(V) /\ DOMAIN f = 1 .. m
  OBVIOUS
<1>2. Len(f) = m
  BY <1>1
<1> QED BY <1>1, <1>2

\* The first r tokens of each of the sequence sets ss, one after the other.
Lists(b, us, ss, r) ==
  [j \in 1 .. r * Len(ss) |-> TokensOf(b, us, ss[((j - 1) \div r) + 1])[((j - 1) % r) + 1]]

\* Disjoint sequence sets of unused tokens, with r tokens at least each.
ListSets(b, us, ss, r) ==
  /\ ss \in Seq(SUBSET Seqs) /\ ss # <<>>
  /\ \A k \in DOMAIN ss : \E j \in Unused(b, us) : SeqSet(b[j]) = ss[k]
  /\ \A k, l \in DOMAIN ss : k # l => ss[k] \cap ss[l] = {}
  /\ r \in Nat \ {0} /\ \A k \in DOMAIN ss : r <= Len(TokensOf(b, us, ss[k]))

\* The x-th token of s has the sequence set of its list.
InLists(b, ss, r, s) ==
  \A x \in 1 .. r * Len(ss) : /\ ((x - 1) \div r) + 1 \in DOMAIN ss
                              /\ SeqSet(b[s[x]]) = ss[((x - 1) \div r) + 1]

\* The lists of unused tokens, one for each sequence set, r tokens of each.
LEMMA ListsOK ==
  ASSUME NEW b, IsBatch(b), NEW us \in SUBSET DOMAIN b, NEW ss, NEW r, ListSets(b, us, ss, r)
  PROVE  /\ Fresh(b, us, Lists(b, us, ss, r))
         /\ Len(Lists(b, us, ss, r)) = r * Len(ss)
         /\ DOMAIN Lists(b, us, ss, r) = 1 .. r * Len(ss)
         /\ InLists(b, ss, r, Lists(b, us, ss, r))
<1>a. /\ ss \in Seq(SUBSET Seqs) /\ ss # <<>>
      /\ \A k \in DOMAIN ss : \E j \in Unused(b, us) : SeqSet(b[j]) = ss[k]
      /\ \A k, l \in DOMAIN ss : k # l => ss[k] \cap ss[l] = {}
      /\ r \in Nat \ {0} /\ \A k \in DOMAIN ss : r <= Len(TokensOf(b, us, ss[k]))
  BY Zenon DEF ListSets
<1> USE <1>a
<1> DEFINE N == Len(ss)
           idxs == Lists(b, us, ss, r)
           q(j) == ((j - 1) \div r) + 1
           t(j) == ((j - 1) % r) + 1
           tok(k) == TokensOf(b, us, ss[k])
           T(k) == {i \in Unused(b, us) : SeqSet(b[i]) = ss[k]}
<1>0. N \in Nat \ {0} /\ DOMAIN ss = 1 .. N
  OBVIOUS
<1>1. ASSUME NEW k \in DOMAIN ss PROVE Ordered(tok(k), T(k)) /\ 1 .. r \subseteq DOMAIN tok(k)
  <2>1. T(k) \in SUBSET DOMAIN b
    BY DEF Unused
  <2>2. Ordered(tok(k), T(k))
    BY <2>1, InOrderFacts DEF TokensOf, IsBatch
  <2>3. tok(k) \in Seq(Nat) /\ r <= Len(tok(k))
    BY <2>2 DEF Ordered
  <2> HIDE DEF tok
  <2>4. 1 .. r \subseteq DOMAIN tok(k)
    BY <2>3
  <2> QED BY <2>2, <2>4
<1>2. ASSUME NEW j \in 1 .. r * N
      PROVE  q(j) \in DOMAIN ss /\ t(j) \in 1 .. r /\ j = r * (q(j) - 1) + t(j)
  <2>1. /\ ((j - 1) \div r) + 1 \in 1 .. N
        /\ ((j - 1) % r) + 1 \in 1 .. r
        /\ j = r * ((j - 1) \div r) + ((j - 1) % r) + 1
    BY <1>0, PlaceInLists, Zenon
  <2> DEFINE d == (j - 1) \div r
             m == (j - 1) % r
  <2>2. d + 1 \in 1 .. N /\ m + 1 \in 1 .. r /\ j = r * d + m + 1 /\ d \in Int /\ m \in Int
    BY <2>1
  <2> HIDE DEF d, m
  <2>3. (d + 1) - 1 = d /\ r * d \in Int
    BY <2>2
  <2>4. j = r * ((d + 1) - 1) + (m + 1)
    BY <2>2, <2>3
  <2> QED BY <1>0, <2>2, <2>4 DEF d, m
<1>3. DOMAIN idxs = 1 .. r * N /\ \A j \in 1 .. r * N : idxs[j] = tok(q(j))[t(j)]
  BY Zenon DEF Lists
<1>4. r * N \in Nat \ {0}
  BY <1>0
<1>10. \A V : (\A j \in 1 .. r * N : idxs[j] \in V) => idxs \in [1 .. r * N -> V]
  BY Zenon DEF Lists
<1> HIDE DEF q, t, tok, T, N, idxs
<1>5. ASSUME NEW j \in 1 .. r * N
      PROVE  /\ idxs[j] \in Unused(b, us) /\ SeqSet(b[idxs[j]]) = ss[q(j)]
  <2>1. t(j) \in DOMAIN tok(q(j)) /\ Ordered(tok(q(j)), T(q(j)))
    BY <1>1, <1>2, Zenon
  <2>2. idxs[j] \in T(q(j))
    BY <1>3, <2>1, Zenon DEF Ordered
  <2> QED BY <2>2 DEF T
<1>6. ASSUME NEW x \in 1 .. r * N, NEW y \in 1 .. r * N, idxs[x] = idxs[y] PROVE x = y
  <2>1. ss[q(x)] = ss[q(y)] /\ q(x) \in DOMAIN ss /\ q(y) \in DOMAIN ss
    BY <1>2, <1>5, <1>6, Zenon
  <2>2. ss[q(x)] # {}
    BY <2>1, BatchFacts, Zenon DEF Unused
  <2>3. q(x) = q(y)
    <3>1. q(x) # q(y) => ss[q(x)] \cap ss[q(x)] = {}
      BY <2>1, Zenon
    <3> QED BY <2>2, <3>1
  <2>4. /\ t(x) \in DOMAIN tok(q(x)) /\ t(y) \in DOMAIN tok(q(x))
        /\ Ordered(tok(q(x)), T(q(x)))
        /\ tok(q(x))[t(x)] = tok(q(x))[t(y)]
    BY <1>1, <1>2, <1>3, <1>6, <2>3, Zenon
  <2>5. t(x) = t(y)
    BY <2>4, OrderedOnce, Zenon
  <2> QED BY <1>2, <2>3, <2>5, Zenon
<1>7. idxs \in Seq(Unused(b, us)) /\ Len(idxs) = r * N /\ idxs # <<>>
  <2>1. idxs \in [1 .. r * N -> Unused(b, us)]
    BY <1>5, <1>10, Zenon
  <2> QED BY <1>4, <2>1, FunctionIsSeq, Zenon
<1>8. Fresh(b, us, idxs)
  BY <1>3, <1>6, <1>7, Zenon DEF Fresh
<1>9. \A x \in 1 .. r * N : q(x) \in DOMAIN ss /\ SeqSet(b[idxs[x]]) = ss[q(x)]
  BY <1>2, <1>5, Zenon
<1>11. InLists(b, ss, r, idxs)
  BY <1>9, Zenon DEF InLists, N, q
<1> QED BY <1>3, <1>7, <1>8, <1>11, Zenon DEF N, idxs

\* split_equal takes unused tokens, none twice, and finds some while there are
\* any; a sequential split takes sequences with consecutive ids.
LEMMA SplitEqualOK ==
  ASSUME NEW b, IsBatch(b), NEW us \in SUBSET DOMAIN b, NEW nu \in Nat, NEW sq \in BOOLEAN,
         Seqs \subseteq Nat
  PROVE  \/ /\ SplitEqual(b, us, nu, sq) = NoUbatch
            /\ Unused(b, us) = {} \/ (sq /\ HasCpl(b))
         \/ \E s : \E m \in Nat \ {0} :
              /\ SplitEqual(b, us, nu, sq) = [idxs |-> s, n_seqs |-> m]
              /\ Fresh(b, us, s)
              /\ sq => ~ HasCpl(b) /\ Contiguous(b, [idxs |-> s, n_seqs |-> m])
<1>1. CASE (sq /\ HasCpl(b)) \/ Unused(b, us) = {}
  BY <1>1, Zenon DEF SplitEqual
<1>2. CASE ~ ((sq /\ HasCpl(b)) \/ Unused(b, us) = {})
  <2> DEFINE ss == EqualSets(b, us, nu, sq)
             r == EqualRounds(b, us, nu, ss)
             toks == [k \in DOMAIN ss |-> TokensOf(b, us, ss[k])]
             idxs == Lists(b, us, ss, r)
  <2>1. SplitEqual(b, us, nu, sq) =
          [idxs |-> [j \in 1 .. r * Len(ss) |-> toks[((j - 1) \div r) + 1][((j - 1) % r) + 1]], n_seqs |-> Len(ss)]
    BY <1>2, Zenon DEF SplitEqual
  <2>2. PICK acc : acc.sets = ss /\ SetsOK(b, us, sq, Len(b), acc)
    BY <1>2, EqualSetsOK, Zenon
  <2> HIDE DEF ss
  <2>3. /\ ss \in Seq(SUBSET Seqs)
        /\ \A k \in DOMAIN ss : \E j \in Unused(b, us) : SeqSet(b[j]) = ss[k]
        /\ \A k, l \in DOMAIN ss : k # l => ss[k] \cap ss[l] = {}
        /\ sq => \E a \in Int : \A k \in DOMAIN ss : ss[k] = {a + k - 1}
    BY <2>2, Zenon DEF SetsOK
  <2>4. ss # <<>>
    <3>1. PICK j : j \in Unused(b, us)
      BY <1>2
    <3>2. j <= Len(b)
      BY <3>1, BatchFacts, SMTT(30) DEF Unused
    <3> QED BY <2>2, <3>1, <3>2, Zenon DEF SetsOK
  <2>5. Len(ss) \in Nat \ {0} /\ DOMAIN ss = 1 .. Len(ss)
    BY <2>3, <2>4
  <2>6. ASSUME NEW k \in DOMAIN ss PROVE Len(TokensOf(b, us, ss[k])) \in Nat \ {0}
    <3> DEFINE T == {i \in Unused(b, us) : SeqSet(b[i]) = ss[k]}
               tk == TokensOf(b, us, ss[k])
    <3>1. T \in SUBSET DOMAIN b /\ T # {}
      BY <2>3 DEF Unused
    <3>2. Ordered(tk, T) /\ tk # <<>>
      BY <3>1, InOrderFacts, Zenon DEF TokensOf, IsBatch
    <3> HIDE DEF tk
    <3>3. Len(tk) \in Nat \ {0}
      BY <3>2 DEF Ordered
    <3> QED BY <3>3 DEF tk
  <2>7. r \in Nat \ {0} /\ \A k \in DOMAIN ss : r <= Len(TokensOf(b, us, ss[k]))
    BY <2>5, <2>6, RoundsOK, Zenon
  <2> HIDE DEF r
  <2>8. /\ Fresh(b, us, idxs) /\ Len(idxs) = r * Len(ss) /\ DOMAIN idxs = 1 .. r * Len(ss)
        /\ \A x \in 1 .. r * Len(ss) : /\ ((x - 1) \div r) + 1 \in DOMAIN ss
                                       /\ SeqSet(b[idxs[x]]) = ss[((x - 1) \div r) + 1]
    <3>1. ListSets(b, us, ss, r)
      BY <2>3, <2>4, <2>7, Zenon DEF ListSets
    <3>2. /\ Fresh(b, us, idxs) /\ Len(idxs) = r * Len(ss) /\ DOMAIN idxs = 1 .. r * Len(ss)
          /\ InLists(b, ss, r, idxs)
      BY <3>1, ListsOK, Zenon
    <3> HIDE DEF idxs
    <3> QED BY <3>2, Zenon DEF InLists
  <2>9. SplitEqual(b, us, nu, sq) = [idxs |-> idxs, n_seqs |-> Len(ss)]
    <3>1. ASSUME NEW j \in 1 .. r * Len(ss)
          PROVE  toks[((j - 1) \div r) + 1] = TokensOf(b, us, ss[((j - 1) \div r) + 1])
      BY <2>8, Zenon
    <3> HIDE DEF toks
    <3>2. [j \in 1 .. r * Len(ss) |-> toks[((j - 1) \div r) + 1][((j - 1) % r) + 1]] = idxs
      BY <3>1, Zenon DEF Lists
    <3> QED BY <2>1, <3>2, Zenon
  <2> HIDE DEF idxs
  <2>10. ASSUME sq PROVE Contiguous(b, [idxs |-> idxs, n_seqs |-> Len(ss)])
    <3>1. PICK a \in Int : \A k \in DOMAIN ss : ss[k] = {a + k - 1}
      BY <2>3, <2>10, Zenon
    <3>2. r * Len(ss) \in Nat \ {0} /\ (r * Len(ss)) \div Len(ss) = r
      BY <2>5, <2>7, ListLength, Zenon
    <3>3. ASSUME NEW x \in 1 .. r * Len(ss)
          PROVE  /\ b[idxs[x]].seq_id = <<a + (((x - 1) \div r) + 1) - 1>>
                 /\ (x - 1) \div r \in Int
      <4>1. idxs[x] \in DOMAIN b
        <5>1. idxs \in Seq(Unused(b, us))
          BY <2>8, Zenon DEF Fresh
        <5>2. idxs[x] \in Unused(b, us)
          BY <2>8, <5>1
        <5> QED BY <5>2 DEF Unused
      <4>2. ss[((x - 1) \div r) + 1] = {a + (((x - 1) \div r) + 1) - 1}
        BY <2>8, <3>1, Zenon
      <4>3. /\ b[idxs[x]].seq_id = <<b[idxs[x]].seq_id[1]>>
            /\ {b[idxs[x]].seq_id[1]} = {a + (((x - 1) \div r) + 1) - 1}
        BY <1>2, <2>8, <2>10, <4>1, <4>2, NotCoupled, Zenon
      <4>4. b[idxs[x]].seq_id[1] = a + (((x - 1) \div r) + 1) - 1
        BY <4>3
      <4>5. (x - 1) \div r \in Int
        BY <2>7, <3>2
      <4> QED BY <4>3, <4>4, <4>5, Zenon
    <3>4. ASSUME NEW x \in 1 .. r * Len(ss) PROVE b[idxs[x]].seq_id = <<a + (x - 1) \div r>>
      <4>1. ASSUME NEW d \in Int PROVE a + (d + 1) - 1 = a + d
        OBVIOUS
      <4> QED BY <3>3, <4>1, Zenon
    <3>5. (1 - 1) \div r = 0 /\ 1 \in 1 .. r * Len(ss)
      BY <2>7, <3>2
    <3>6. b[idxs[1]].seq_id[1] = a
      <4>1. b[idxs[1]].seq_id = <<a + 0>>
        BY <3>4, <3>5, Zenon
      <4> QED BY <4>1
    <3>7. /\ [idxs |-> idxs, n_seqs |-> Len(ss)].idxs = idxs
          /\ [idxs |-> idxs, n_seqs |-> Len(ss)].n_seqs = Len(ss)
      OBVIOUS
    <3>8. Len(idxs) \div Len(ss) = r
      BY <2>8, <3>2, Zenon
    <3>9. ASSUME NEW x \in DOMAIN idxs
          PROVE  b[idxs[x]].seq_id = <<b[idxs[1]].seq_id[1] + (x - 1) \div (Len(idxs) \div Len(ss))>>
      BY <2>8, <3>4, <3>6, <3>8, Zenon
    <3> QED BY <3>7, <3>9, Zenon DEF Contiguous
  <2>11. sq => ~ HasCpl(b)
    BY <1>2, Zenon
  <2> QED BY <2>5, <2>8, <2>9, <2>10, <2>11, Zenon
<1> QED BY <1>1, <1>2, Zenon

\* One token in split_seq.
TakeStep(b, used_, n, acc, i) ==
  IF /\ i \notin used_ /\ Len(acc) < n
     /\ acc = <<>> \/ SeqSet(b[i]) \subseteq SeqSet(b[acc[Len(acc)]])
  THEN Append(acc, i) ELSE acc

\* What split_seq has after N tokens.
Taken(g, b, used_, n, N) ==
  g = [i \in 0 .. N |-> IF i = 0 THEN <<>> ELSE TakeStep(b, used_, n, g[i - 1], i)]

\* It has something, however long the batch.
LEMMA TakenExists ==
  ASSUME NEW b, NEW us, NEW nu, NEW N \in Nat
  PROVE  \E g : Taken(g, b, us, nu, N)
<1> DEFINE Bad == {n \in Nat : ~ \E g : Taken(g, b, us, nu, n)}
<1> SUFFICES ASSUME Bad # {} PROVE FALSE
  OBVIOUS
<1>1. Bad \in SUBSET Nat
  OBVIOUS
<1> HIDE DEF Bad
<1>2. PICK n \in Bad : \A m \in Bad : n <= m
  BY <1>1, LeastNumber, Zenon
<1>3. n \in Nat /\ ~ \E g : Taken(g, b, us, nu, n)
  BY <1>1, <1>2 DEF Bad
<1> DEFINE first == <<>>
           step(h, k) == IF k = 0 THEN first ELSE TakeStep(b, us, nu, h[k - 1], k)
<1>4. CASE n = 0
  <2> DEFINE g == [k \in 0 .. 0 |-> first]
  <2>1. \A k \in 0 .. 0 : k = 0
    OBVIOUS
  <2>2. Taken(g, b, us, nu, 0)
    <3> HIDE DEF first
    <3>1. g = [k \in 0 .. 0 |-> step(g, k)]
      BY <2>1
    <3> QED BY <3>1, Zenon DEF Taken, first
  <2> QED BY <1>3, <1>4, <2>2
<1>5. CASE n # 0
  <2>1. n - 1 \in Nat /\ n - 1 \notin Bad
    BY <1>2, <1>3, <1>5, SMTT(30)
  <2>2. PICK g : Taken(g, b, us, nu, n - 1)
    BY <2>1 DEF Bad
  <2> DEFINE f == [k \in 0 .. n |-> IF k = n THEN step(g, n) ELSE g[k]]
  <2>3. \A k \in 0 .. n - 1 : g[k] = step(g, k)
    BY <2>2, Zenon DEF Taken
  <2>4. \A k \in 0 .. n : k # 0 => k - 1 \in 0 .. n /\ k - 1 # n
    BY <1>3
  <2>5. \A k \in 0 .. n : k # n => k \in 0 .. n - 1
    BY <1>3
  <2> HIDE DEF first
  <2>6. ASSUME NEW k \in 0 .. n PROVE f[k] = step(f, k)
    <3>1. k # 0 => f[k - 1] = g[k - 1]
      BY <2>4
    <3>2. step(f, k) = step(g, k)
      BY <3>1
    <3>3. f[k] = step(g, k)
      BY <2>3, <2>5, SMTT(30)
    <3> QED BY <3>2, <3>3
  <2>7. f = [k \in 0 .. n |-> step(f, k)]
    <3> HIDE DEF step
    <3>1. f = [k \in 0 .. n |-> f[k]]
      OBVIOUS
    <3> HIDE DEF f
    <3> QED BY <2>6, <3>1, Zenon
  <2>8. Taken(f, b, us, nu, n)
    <3> HIDE DEF f
    <3> QED BY <2>7, Zenon DEF Taken, first
  <2> QED BY <1>3, <2>8
<1> QED BY <1>4, <1>5

\* split_seq takes unused tokens, none twice, and finds one while there is one.
LEMMA SplitSeqOK ==
  ASSUME NEW b, IsBatch(b), NEW us \in SUBSET DOMAIN b, NEW nu \in Nat \ {0}
  PROVE  \/ SplitSeq(b, us, nu) = NoUbatch /\ Unused(b, us) = {}
         \/ \E s : SplitSeq(b, us, nu) = [idxs |-> s, n_seqs |-> 1] /\ Fresh(b, us, s)
<1> DEFINE N == Len(b)
           T == Unused(b, us)
           g == CHOOSE f : Taken(f, b, us, nu, N)
<1>1. N \in Nat /\ DOMAIN b = 1 .. N /\ T \in SUBSET DOMAIN b
  BY BatchFacts DEF Unused
<1>2. SplitSeq(b, us, nu) = IF g[N] = <<>> THEN NoUbatch ELSE [idxs |-> g[N], n_seqs |-> 1]
  BY DEF SplitSeq, Taken, TakeStep
<1>3. Taken(g, b, us, nu, N)
  <2>1. \E f : Taken(f, b, us, nu, N)
    BY <1>1, TakenExists
  <2> QED BY <2>1, Zenon
<1> HIDE DEF g, N, T
<1>4. g[0] = <<>> /\ \A k \in 1 .. N : g[k] = TakeStep(b, us, nu, g[k - 1], k)
  <2>1. \A k \in 0 .. N : g[k] = IF k = 0 THEN <<>> ELSE TakeStep(b, us, nu, g[k - 1], k)
    BY <1>3, Zenon DEF Taken
  <2>2. 0 \in 0 .. N /\ \A k \in 1 .. N : k \in 0 .. N /\ k # 0
    BY <1>1
  <2> QED BY <2>1, <2>2, Zenon
<1> DEFINE Bad == {n \in 0 .. N : ~ Fine(g[n], n, T)}
<1>5. Bad = {}
  <2> SUFFICES ASSUME Bad # {} PROVE FALSE
    OBVIOUS
  <2>0. T \in SUBSET (Nat \ {0})
    BY <1>1
  <2>1. Bad \in SUBSET Nat
    BY <1>1
  <2> HIDE DEF Bad
  <2>2. PICK n \in Bad : \A m \in Bad : n <= m
    BY <2>1, LeastNumber, Zenon
  <2>3. n \in 0 .. N /\ ~ Fine(g[n], n, T)
    BY <2>2 DEF Bad
  <2>4. n # 0
    BY <1>4, <2>0, <2>3, FineInit, Zenon
  <2>5. n \in 1 .. N /\ n - 1 \in 0 .. N /\ ~ (n <= n - 1) /\ n \in Nat \ {0}
    BY <1>1, <2>3, <2>4
  <2>6. n - 1 \notin Bad
    BY <2>2, <2>5, Zenon
  <2>7. Fine(g[n - 1], n - 1, T)
    BY <2>5, <2>6 DEF Bad
  <2>8. \/ n \in T /\ g[n] = Append(g[n - 1], n)
        \/ (n \in T => g[n - 1] # <<>>) /\ g[n] = g[n - 1]
    <3> DEFINE p == g[n - 1]
    <3>1. g[n] = TakeStep(b, us, nu, p, n)
      BY <1>4, <2>5, Zenon
    <3>2. n \in T <=> n \notin us
      BY <1>1, <2>5 DEF T, Unused
    <3>3. p = <<>> => Len(p) < nu
      OBVIOUS
    <3> HIDE DEF p
    <3>4. (n \in T /\ g[n] = Append(p, n)) \/ ((n \in T => p # <<>>) /\ g[n] = p)
      BY <3>1, <3>2, <3>3, Zenon DEF TakeStep
    <3> QED BY <3>4, Zenon DEF p
  <2> QED BY <2>0, <2>3, <2>5, <2>7, <2>8, FineStep, Zenon
<1>6. N \in 0 .. N /\ \A i \in T : i <= N
  BY <1>1
<1>7. Fine(g[N], N, T)
  BY <1>5, <1>6, Zenon
<1>8. CASE g[N] = <<>>
  <2>1. T = {}
    BY <1>6, <1>7, <1>8, Zenon DEF Fine
  <2> QED BY <1>2, <1>8, <2>1, Zenon DEF T
<1>9. CASE g[N] # <<>>
  <2> DEFINE s == g[N]
  <2>1. Ordered(s, T)
    BY <1>7, Zenon DEF Fine
  <2> HIDE DEF s
  <2>2. \A x, y \in DOMAIN s : s[x] = s[y] => x = y
    BY <2>1, OrderedOnce, Zenon
  <2>3. s \in Seq(T)
    BY <2>1 DEF Ordered
  <2>4. Fresh(b, us, s)
    BY <1>9, <2>2, <2>3, Zenon DEF Fresh, T, s
  <2> QED BY <1>2, <1>9, <2>4, Zenon DEF s
<1> QED BY <1>8, <1>9, Zenon

\* split_simple takes the tokens after the first m, which are used.
LEMMA SimpleUbatch ==
  ASSUME NEW b, IsBatch(b), NEW m \in 0 .. Len(b), NEW k \in 1 .. Len(b) - m, NEW s,
         DOMAIN s = 1 .. k, \A j \in 1 .. k : s[j] = m + j, s \in Seq(Nat)
  PROVE  Fresh(b, 1 .. m, s) /\ (1 .. m) \cup Range(s) = 1 .. m + k /\ m + k \in 0 .. Len(b)
<1>1. Len(b) \in Nat /\ DOMAIN b = 1 .. Len(b)
  BY BatchFacts
<1>2. m \in Nat /\ k \in Nat \ {0} /\ m + k \in 0 .. Len(b)
  BY <1>1
<1>4. \A j \in 1 .. k : m + j \in Unused(b, 1 .. m)
  BY <1>1, <1>2 DEF Unused
<1>6. s \in Seq(Unused(b, 1 .. m)) /\ s # <<>>
  <2>1. ASSUME NEW V, NEW q \in Seq(Nat), \A j \in DOMAIN q : q[j] \in V PROVE q \in Seq(V)
    BY <2>1
  <2>2. \A j \in DOMAIN s : s[j] \in Unused(b, 1 .. m)
    BY <1>4, Zenon
  <2>3. s # <<>>
    BY <1>2
  <2> QED BY <2>1, <2>2, <2>3, Zenon
<1>7. \A x, y \in DOMAIN s : s[x] = s[y] => x = y
  BY <1>2
<1>8. Range(s) = m + 1 .. m + k
  <2>1. \A i \in m + 1 .. m + k : i - m \in 1 .. k /\ i = m + (i - m)
    BY <1>2
  <2>2. \A j \in 1 .. k : m + j \in m + 1 .. m + k
    BY <1>2
  <2>3. Range(s) = {s[j] : j \in 1 .. k}
    BY Zenon DEF Range
  <2> QED BY <2>1, <2>2, <2>3
<1>9. (1 .. m) \cup (m + 1 .. m + k) = 1 .. m + k
  BY <1>2
<1> QED BY <1>2, <1>6, <1>7, <1>8, <1>9, Zenon DEF Fresh

\* The inductive invariant of the splits.
SplitInv ==
  /\ batch \in Batches /\ mode \in Modes
  /\ used \in SUBSET DOMAIN batch
  /\ out \in Seq([idxs : Seq(used), n_seqs : Nat])
  /\ \A k, l \in DOMAIN out : \A x \in DOMAIN out[k].idxs, y \in DOMAIN out[l].idxs :
       out[k].idxs[x] = out[l].idxs[y] => k = l /\ x = y
  /\ mode = "simple" => \E m \in 0 .. Len(batch) : used = 1 .. m
  /\ mode = "equal_seq" /\ HasCpl(batch) => used = {}
  /\ mode = "equal_seq" => \A k \in DOMAIN out : Contiguous(batch, out[k])
  /\ done => used = DOMAIN batch \/ (mode = "equal_seq" /\ HasCpl(batch))

\* What a split method returns.
LEMMA NextUbatchOK ==
  ASSUME SplitInv
  PROVE  \/ /\ NextUbatch = NoUbatch
            /\ used = DOMAIN batch \/ (mode = "equal_seq" /\ HasCpl(batch))
         \/ \E s : \E m \in Nat \ {0} :
              /\ NextUbatch = [idxs |-> s, n_seqs |-> m]
              /\ Fresh(batch, used, s)
              /\ mode = "simple" => \E l \in 0 .. Len(batch) : used \cup Range(s) = 1 .. l
              /\ mode = "equal_seq" => ~ HasCpl(batch) /\ Contiguous(batch, [idxs |-> s, n_seqs |-> m])
<1>1. /\ IsBatch(batch) /\ used \in SUBSET DOMAIN batch /\ NUbatch \in Nat \ {0} /\ NUbatch \in Nat
      /\ Seqs \subseteq Nat /\ TRUE \in BOOLEAN /\ FALSE \in BOOLEAN
  BY BatchesAssumption, NUbatchAssumption, Zenon DEF SplitInv, IsBatch
<1>2. Unused(batch, used) = {} => used = DOMAIN batch
  BY <1>1, Zenon DEF Unused
<1>3. mode \in {"simple", "equal", "equal_seq", "seq"}
  BY ModesAssumption DEF SplitInv
<1>4. CASE mode = "simple"
  <2>1. NextUbatch = SplitSimple(batch, used, NUbatch)
    BY <1>4 DEF NextUbatch
  <2>2. PICK m \in 0 .. Len(batch) : used = 1 .. m
    BY <1>4, Zenon DEF SplitInv
  <2>3. batch \in Seq([seq_id : Seq(Seqs), pos : Int]) /\ DOMAIN batch = 1 .. Len(batch)
    BY <1>1, BatchFacts, Zenon DEF IsBatch
  <2>4. \/ SplitSimple(batch, 1 .. m, NUbatch) = NoUbatch /\ m = Len(batch)
        \/ \E k \in 1 .. Len(batch) - m :
             SplitSimple(batch, 1 .. m, NUbatch) = [idxs |-> [j \in 1 .. k |-> m + j], n_seqs |-> k]
    BY <1>1, <2>3, SplitSimpleOK, Zenon
  <2>5. CASE SplitSimple(batch, 1 .. m, NUbatch) = NoUbatch /\ m = Len(batch)
    BY <2>1, <2>2, <2>3, <2>5, Zenon
  <2>6. ASSUME NEW k \in 1 .. Len(batch) - m,
               SplitSimple(batch, 1 .. m, NUbatch) = [idxs |-> [j \in 1 .. k |-> m + j], n_seqs |-> k]
        PROVE  \E s : \E n \in Nat \ {0} :
                 /\ NextUbatch = [idxs |-> s, n_seqs |-> n]
                 /\ Fresh(batch, used, s)
                 /\ \E l \in 0 .. Len(batch) : used \cup Range(s) = 1 .. l
    <3> DEFINE s == [j \in 1 .. k |-> m + j]
    <3>1. k \in Nat \ {0}
      BY BatchFacts, <1>1
    <3>2. Fresh(batch, 1 .. m, s) /\ (1 .. m) \cup Range(s) = 1 .. m + k /\ m + k \in 0 .. Len(batch)
      <4>1. DOMAIN s = 1 .. k /\ (\A j \in 1 .. k : s[j] = m + j) /\ s \in Seq(Nat)
        BY <3>1
      <4> HIDE DEF s
      <4> QED BY <1>1, <4>1, SimpleUbatch
    <3>3. NextUbatch = [idxs |-> s, n_seqs |-> k]
      BY <2>1, <2>2, <2>6, Zenon
    <3> HIDE DEF s
    <3> QED BY <2>2, <3>1, <3>2, <3>3, Zenon
  <2>7. mode # "equal_seq"
    BY <1>4
  <2> QED BY <1>4, <2>4, <2>5, <2>6, <2>7, Zenon
<1>5. CASE mode = "equal"
  <2>1. NextUbatch = SplitEqual(batch, used, NUbatch, FALSE) /\ mode # "simple" /\ mode # "equal_seq"
    BY <1>5 DEF NextUbatch
  <2> QED BY <1>1, <1>2, <2>1, SplitEqualOK, Zenon
<1>6. CASE mode = "equal_seq"
  <2>1. NextUbatch = SplitEqual(batch, used, NUbatch, TRUE) /\ mode # "simple"
    BY <1>6 DEF NextUbatch
  <2> QED BY <1>1, <1>2, <1>6, <2>1, SplitEqualOK, Zenon
<1>7. CASE mode = "seq"
  <2>1. /\ NextUbatch = SplitSeq(batch, used, NUbatch) /\ mode # "simple" /\ mode # "equal_seq"
        /\ 1 \in Nat \ {0}
    BY <1>7 DEF NextUbatch
  <2> QED BY <1>1, <1>2, <2>1, SplitSeqOK, Zenon
<1> QED BY <1>3, <1>4, <1>5, <1>6, <1>7, Zenon

\* The couplings are those of the batch.
LEMMA SameBatch ==
  ASSUME batch' = batch
  PROVE  HasCpl(batch)' <=> HasCpl(batch)
<1>1. Coupled(batch)' = Coupled(batch)
  BY DEF Coupled
<1> QED BY <1>1 DEF HasCpl

\* A call that finds a ubatch: its tokens are unused, hence in no earlier one.
LEMMA SplitStep ==
  ASSUME SplitInv, Split
  PROVE  SplitInv'
<1>1. PICK s : \E m \in Nat \ {0} :
              /\ NextUbatch = [idxs |-> s, n_seqs |-> m]
              /\ Fresh(batch, used, s)
              /\ mode = "simple" => \E l \in 0 .. Len(batch) : used \cup Range(s) = 1 .. l
              /\ mode = "equal_seq" => ~ HasCpl(batch) /\ Contiguous(batch, [idxs |-> s, n_seqs |-> m])
  BY NextUbatchOK, Zenon DEF Split
<1>2. PICK m \in Nat \ {0} :
              /\ NextUbatch = [idxs |-> s, n_seqs |-> m]
              /\ Fresh(batch, used, s)
              /\ mode = "simple" => \E l \in 0 .. Len(batch) : used \cup Range(s) = 1 .. l
              /\ mode = "equal_seq" => ~ HasCpl(batch) /\ Contiguous(batch, [idxs |-> s, n_seqs |-> m])
  BY <1>1, Zenon
<1> DEFINE u == [idxs |-> s, n_seqs |-> m]
<1>3. /\ used' = used \cup Range(s) /\ out' = Append(out, u)
      /\ batch' = batch /\ mode' = mode /\ done' = done /\ ~ done
  <2>1. u.idxs = s
    OBVIOUS
  <2> HIDE DEF u
  <2>2. NextUbatch = u
    BY <1>2, Zenon DEF u
  <2> QED BY <2>1, <2>2 DEF Split
<1>4. /\ s \in Seq(Unused(batch, used)) /\ \A x, y \in DOMAIN s : s[x] = s[y] => x = y
  BY <1>2, Zenon DEF Fresh
<1>5. \A x \in DOMAIN s : s[x] \in Range(s) /\ s[x] \notin used /\ s[x] \in DOMAIN batch
  BY <1>4 DEF Range, Unused
<1>6. used' \in SUBSET DOMAIN batch' /\ s \in Seq(used') /\ used \in SUBSET used'
  <2>1. used \in SUBSET DOMAIN batch
    BY Zenon DEF SplitInv
  <2>2. Range(s) \in SUBSET DOMAIN batch
    BY <1>5 DEF Range
  <2>3. s \in Seq(used')
    BY <1>3, <1>4, <1>5
  <2> QED BY <1>3, <2>1, <2>2, <2>3, SMTT(30)
<1> DEFINE N == Len(out)
           X == [idxs : Seq(used'), n_seqs : Nat]
<1>7. out \in Seq(X) /\ \A k \in DOMAIN out : out[k].idxs \in Seq(used)
  <2>1. out \in Seq([idxs : Seq(used), n_seqs : Nat])
    BY Zenon DEF SplitInv
  <2>2. \A q \in Seq(used) : q \in Seq(used')
    BY <1>6
  <2>3. [idxs : Seq(used), n_seqs : Nat] \subseteq X
    BY <2>2
  <2>4. \A k \in DOMAIN out : out[k] \in [idxs : Seq(used), n_seqs : Nat]
    <3>1. ASSUME NEW S, NEW q \in Seq(S), NEW k \in DOMAIN q PROVE q[k] \in S
      OBVIOUS
    <3> QED BY <2>1, <3>1, Zenon
  <2>5. ASSUME NEW S, NEW V, S \subseteq V, NEW q \in Seq(S) PROVE q \in Seq(V)
    BY <2>5
  <2>6. out \in Seq(X)
    BY <2>1, <2>3, <2>5, Zenon
  <2>7. \A k \in DOMAIN out : out[k].idxs \in Seq(used)
    BY <2>4
  <2> QED BY <2>6, <2>7
<1>8. u \in X /\ u.idxs = s
  BY <1>6
<1> HIDE DEF u, X
<1>9. /\ out' \in Seq(X) /\ N \in Nat /\ DOMAIN out = 1 .. N /\ DOMAIN out' = 1 .. N + 1
      /\ \A k \in 1 .. N : out'[k] = out[k]
      /\ out'[N + 1] = u
  BY <1>3, <1>7, <1>8
<1> HIDE DEF N
<1>10. \A k \in DOMAIN out' : (k \in DOMAIN out /\ out'[k] = out[k]) \/ (k = N + 1 /\ out'[k] = u)
  <2>1. \A k \in 1 .. N + 1 : k \in 1 .. N \/ k = N + 1
    BY <1>9
  <2> QED BY <1>9, <2>1, Zenon
<1>11. \A k \in DOMAIN out : \A x \in DOMAIN out[k].idxs : out[k].idxs[x] \in used
  BY <1>7
<1>12. ASSUME NEW k \in DOMAIN out', NEW l \in DOMAIN out', NEW x \in DOMAIN out'[k].idxs,
              NEW y \in DOMAIN out'[l].idxs, out'[k].idxs[x] = out'[l].idxs[y]
       PROVE  k = l /\ x = y
  <2>1. CASE out'[k] = out[k] /\ k \in DOMAIN out /\ out'[l] = out[l] /\ l \in DOMAIN out
    <3>1. \A v \in DOMAIN out[k].idxs, w \in DOMAIN out[l].idxs :
            out[k].idxs[v] = out[l].idxs[w] => k = l /\ v = w
      BY <2>1, Zenon DEF SplitInv
    <3>2. /\ x \in DOMAIN out[k].idxs /\ y \in DOMAIN out[l].idxs
          /\ out[k].idxs[x] = out[l].idxs[y]
      BY <1>12, <2>1
    <3> QED BY <3>1, <3>2
  <2>2. CASE out'[k] = out[k] /\ k \in DOMAIN out /\ out'[l] = u
    BY <1>5, <1>8, <1>11, <1>12, <2>2, Zenon
  <2>3. CASE out'[k] = u /\ out'[l] = out[l] /\ l \in DOMAIN out
    BY <1>5, <1>8, <1>11, <1>12, <2>3, Zenon
  <2>4. CASE out'[k] = u /\ k = N + 1 /\ out'[l] = u /\ l = N + 1
    BY <1>4, <1>8, <1>12, <2>4, Zenon
  <2> QED BY <1>10, <2>1, <2>2, <2>3, <2>4, Zenon
<1>13. mode = "equal_seq" => \A k \in DOMAIN out' : Contiguous(batch, out'[k])
  BY <1>2, <1>10, Zenon DEF SplitInv, u
<1> QED
  <2>1. batch' \in Batches /\ mode' \in Modes
    BY <1>3, Zenon DEF SplitInv
  <2>2. mode' = "simple" => \E l \in 0 .. Len(batch') : used' = 1 .. l
    BY <1>2, <1>3, Zenon
  <2>6. HasCpl(batch)' <=> HasCpl(batch)
    BY <1>3, SameBatch, Zenon
  <2>3. ~ (mode' = "equal_seq" /\ HasCpl(batch)') /\ ~ done'
    BY <1>2, <1>3, <2>6, Zenon
  <2>4. mode' = "equal_seq" => \A k \in DOMAIN out' : Contiguous(batch, out[k])'
    BY <1>3, <1>13, Zenon DEF Contiguous
  <2>5. out' \in Seq([idxs : Seq(used'), n_seqs : Nat])
    BY <1>9, Zenon DEF X
  <2> QED BY <1>6, <1>12, <2>1, <2>2, <2>3, <2>4, <2>5, Zenon DEF SplitInv

\* Every step of the splits keeps the invariant.
LEMMA SplitInvNext ==
  ASSUME SplitInv, [SplitNext]_splitVars
  PROVE  SplitInv'
<1>1. CASE Split
  BY <1>1, SplitStep, Zenon
<1>2. CASE SplitEnds
  <2>1. NextUbatch = NoUbatch /\ batch' = batch /\ mode' = mode /\ used' = used /\ out' = out
    BY <1>2 DEF SplitEnds
  <2>2. used = DOMAIN batch \/ (mode = "equal_seq" /\ HasCpl(batch))
    <3>1. ASSUME NEW s, NEW m \in Nat \ {0} PROVE [idxs |-> s, n_seqs |-> m] # NoUbatch
      BY DEF NoUbatch
    <3> QED BY <2>1, <3>1, NextUbatchOK, Zenon
  <2>3. HasCpl(batch)' <=> HasCpl(batch)
    BY <2>1, SameBatch, Zenon
  <2>4. \A k \in DOMAIN out : Contiguous(batch, out[k])' <=> Contiguous(batch, out[k])
    BY <2>1, Zenon DEF Contiguous
  <2>5. used' = DOMAIN batch' \/ (mode' = "equal_seq" /\ HasCpl(batch)')
    BY <2>1, <2>2, <2>3, Zenon
  <2> QED BY <2>1, <2>3, <2>4, <2>5 DEF SplitInv
<1>3. CASE UNCHANGED splitVars
  <2>1. batch' = batch /\ mode' = mode /\ used' = used /\ out' = out /\ done' = done
    BY <1>3 DEF splitVars
  <2>2. HasCpl(batch)' <=> HasCpl(batch)
    BY <2>1, SameBatch, Zenon
  <2>3. \A k \in DOMAIN out : Contiguous(batch, out[k])' <=> Contiguous(batch, out[k])
    BY <2>1, Zenon DEF Contiguous
  <2> QED BY <2>1, <2>2, <2>3 DEF SplitInv
<1> QED BY <1>1, <1>2, <1>3, Zenon DEF SplitNext

\* No split begins with a token used.
LEMMA SplitInvInit ==
  ASSUME SplitInit
  PROVE  SplitInv
<1>1. batch \in Batches /\ mode \in Modes /\ used = {} /\ out = <<>> /\ ~ done
  BY Zenon DEF SplitInit
<1>2. IsBatch(batch)
  BY <1>1, BatchesAssumption, Zenon DEF IsBatch
<1>3. 0 \in 0 .. Len(batch) /\ {} = 1 .. 0
  BY <1>2, BatchFacts
<1>4. <<>> \in Seq([idxs : Seq(used), n_seqs : Nat]) /\ DOMAIN <<>> = {}
  OBVIOUS
<1>5. {} \in SUBSET DOMAIN batch
  OBVIOUS
<1> QED BY <1>1, <1>3, <1>4, <1>5, Zenon DEF SplitInv

\* Every token of a batch is in exactly one ubatch: no split method returns a
\* token twice, and when it returns an empty ubatch all tokens are used, or none
\* because a sequential split met coupled sequences.
THEOREM TokensSplitOnce == SplitSpec => []EachTokenOnce
<1>1. SplitInv => EachTokenOnce
  BY Zenon DEF SplitInv, EachTokenOnce
<1> QED BY <1>1, SplitInvInit, SplitInvNext, PTL DEF SplitSpec

\* The sequences of a ubatch that split_equal made sequentially are an interval.
THEOREM SplitStreamsContiguous == SplitSpec => []StreamsContiguous
<1>1. SplitInv => StreamsContiguous
  BY Zenon DEF SplitInv, StreamsContiguous, Contiguous
<1> QED BY <1>1, SplitInvInit, SplitInvNext, PTL DEF SplitSpec
==============================================================================
