---------------------------- MODULE GraphSegments ----------------------------
(***************************************************************************)
(* Where the threads of a graph may be between two barriers, for the       *)
(* proofs about ThreadPool.                                                *)
(*                                                                         *)
(* The barriers cut the walk of a graph into segments.  The segment        *)
(* (k, m, h) begins, if h = 0, at node k and skips the nodes up to node m, *)
(* the next that is not a "nop" (or the end of the graph); if h = 1 it     *)
(* begins in the middle of the mul_mat k = m, with its chunks.  `pos' maps *)
(* a thread to its position [pc, node, half, cur], pc "chunks", "next" or  *)
(* "done" being the barrier that it has come to; n is the number of        *)
(* threads, ab the node to stop at, cc the next chunk, and dn the parts    *)
(* computed.                                                               *)
(***************************************************************************)
EXTENDS GraphPlan, Integers, FiniteSets, TLAPS

Nodes == [kind : NodeKinds, chunks : Nat]
Barriers == {"chunks", "next", "done"}
Positions == [pc : {"node", "part", "setchunk", "fetch", "opdone"} \cup Barriers,
              node : Nat, half : {0, 1}, cur : Nat]

At(pc, node, half, cur) == [pc |-> pc, node |-> node, half |-> half, cur |-> cur]

Bounds(g, k, m, h) ==
  /\ k \in 1 .. Len(g) + 1 /\ m \in k .. Len(g) + 1 /\ h \in 0 .. 1
  /\ \A j \in k .. m - 1 : g[j].kind = "nop"
  /\ m <= Len(g) => g[m].kind # "nop"
  /\ h = 1 => m = k /\ m <= Len(g) /\ g[m].kind = "mul_mat"

\* the threads stop where the segment begins
Halted(k, h, ab) == h = 0 /\ ab = k

\* node m is computed, and is complete at the end of the segment
Completes(g, m, h) == m <= Len(g) /\ (h = 1 \/ g[m].kind = "split")

\* the phase of node m that the segment computes
Phase(g, m, h) == IF Completes(g, m, h) THEN 1 ELSE 0

\* the part that a thread is at or has taken is one of node m
PartOK(g, n, p, t, m, h, cc) ==
  /\ p.half = Phase(g, m, h)
  /\ IF h = 1 THEN p.cur < cc /\ p.cur < NChunks(g[m], n) ELSE p.cur = t

\* all chunks are taken
Exhausted(g, n, m, h, cc) == h = 1 => NChunks(g[m], n) <= cc

\* thread t is at position p in segment (k, m, h)
InSegment(g, n, p, t, k, m, h, ab, cc) ==
  \/ /\ p.pc = "node" /\ h = 0 /\ p.node \in k .. m
     /\ ab = k => p.node = k
  \/ p.pc = "done" /\ Halted(k, h, ab) /\ p.node = k
  \/ /\ ~ Halted(k, h, ab)
     /\ \/ p.pc = "part" /\ m <= Len(g) /\ p.node = m /\ PartOK(g, n, p, t, m, h, cc)
        \/ p.pc = "setchunk" /\ m <= Len(g) /\ ~ Completes(g, m, h) /\ t = 0 /\ p.node = m
        \/ /\ p.pc = "chunks" /\ m <= Len(g) /\ ~ Completes(g, m, h) /\ p.node = m
           /\ t = 0 => cc = n
        \/ p.pc = "fetch" /\ h = 1 /\ p.node = m /\ p.half = 1
        \/ /\ Completes(g, m, h) /\ Exhausted(g, n, m, h, cc)
           /\ \/ p.pc = "opdone" /\ p.node = m
              \/ p.pc = "next" /\ p.node = m /\ m < Len(g)
              \/ p.pc \in {"node", "done"} /\ p.node = m + 1 /\ m = Len(g)
        \/ p.pc = "done" /\ p.node = m /\ m = Len(g) + 1

\* thread t has computed its part of node m
Through(p, m) == p.node > m \/ (p.node = m /\ p.pc \notin {"node", "part", "done"})

\* part number c of node m is computed
PartDone(n, pos, c, m, h, cc) ==
  IF h = 1 THEN c < cc /\ \A t \in 0 .. n - 1 : ~ (pos[t].pc = "part" /\ pos[t].cur = c)
  ELSE Through(pos[c], m)

IsDone(g, n, pos, k, m, h, cc, q) ==
  \/ q[1] < k
  \/ q[1] = k /\ q[2] < h
  \/ q[1] = m /\ q[2] = Phase(g, m, h) /\ PartDone(n, pos, q[3], m, h, cc)

Segment(g, n, pos, ab, cc, dn, k, m, h) ==
  /\ Bounds(g, k, m, h)
  /\ \A t \in 0 .. n - 1 : InSegment(g, n, pos[t], t, k, m, h, ab, cc)
  /\ ab \in {0, m + 1} \/ Halted(k, h, ab)
  /\ h = 1 => /\ n <= cc
              /\ \A t, u \in 0 .. n - 1 :
                   t # u /\ pos[t].pc = "part" /\ pos[u].pc = "part" => pos[t].cur # pos[u].cur
  /\ dn = {q \in AllParts(g, n) : IsDone(g, n, pos, k, m, h, cc, q)}

\* the state of a graph in progress
Walk(g, n, pos, ab, cc, dn) ==
  \E k, m \in 1 .. Len(g) + 1, h \in 0 .. 1 : Segment(g, n, pos, ab, cc, dn, k, m, h)

\* the parts computed are those of the first nodes
WholeNodes(g, n, dn) == \E N \in 0 .. Len(g) : dn = PartsUpTo(g, n, N)

\* a segment can begin at every node: there is a first node from there on to compute
Segmented(g) == \A a \in 1 .. Len(g) + 1 : \E m \in 1 .. Len(g) + 1 : Bounds(g, a, m, 0)

-----------------------------------------------------------------------------
(* The parts                                                                *)

IsPart(g, n, a, b, c) ==
  \/ g[a].kind = "split" /\ b = 1 /\ c < n
  \/ g[a].kind = "mul_mat" /\ b = 0 /\ c < n
  \/ g[a].kind = "mul_mat" /\ b = 1 /\ c < NChunks(g[a], n)

\* A thread has a chunk of its own: there are no fewer chunks than threads.
LEMMA ChunksType ==
  ASSUME NEW node \in Nodes, NEW n \in Nat
  PROVE  NChunks(node, n) \in Nat /\ n <= NChunks(node, n)
BY DEF NChunks, Nodes

\* The parts of the nodes of a graph, one by one.
LEMMA PartsShape ==
  ASSUME NEW g \in Seq(Nodes), NEW n \in Nat, NEW N \in 0 .. Len(g), NEW q
  PROVE  q \in PartsUpTo(g, n, N) <=>
           \E a \in 1 .. N, b \in 0 .. 1, c \in Nat : q = <<a, b, c>> /\ IsPart(g, n, a, b, c)
<1>1. ASSUME NEW a \in 1 .. N
      PROVE  q \in PartsOf(g, n, a) <=>
               \E b \in 0 .. 1, c \in Nat : q = <<a, b, c>> /\ IsPart(g, n, a, b, c)
  <2>0. g[a] \in Nodes
    OBVIOUS
  <2>1. g[a].kind \in NodeKinds
    BY <2>0 DEF Nodes
  <2>2. NChunks(g[a], n) \in Nat
    BY <2>0, ChunksType, Zenon
  <2>3. CASE g[a].kind = "nop"
    BY <2>3 DEF PartsOf, IsPart
  <2>4. CASE g[a].kind = "split"
    BY <2>4 DEF PartsOf, IsPart
  <2>5. CASE g[a].kind = "mul_mat"
    BY <2>2, <2>5 DEF PartsOf, IsPart
  <2> QED BY <2>1, <2>3, <2>4, <2>5 DEF NodeKinds
<1> QED BY <1>1 DEF PartsUpTo

\* The fields of a position.
LEMMA PositionType ==
  \A p \in Positions : p.node \in Nat /\ p.cur \in Nat /\ p.half \in {0, 1}
BY DEF Positions

\* The parts of all nodes.
LEMMA AllPartsShape ==
  ASSUME NEW g \in Seq(Nodes), NEW n \in Nat, NEW q
  PROVE  q \in AllParts(g, n) <=>
           \E a \in 1 .. Len(g), b \in 0 .. 1, c \in Nat :
             q = <<a, b, c>> /\ IsPart(g, n, a, b, c)
<1>1. Len(g) \in 0 .. Len(g)
  OBVIOUS
<1> QED BY <1>1, PartsShape, Zenon DEF AllParts

\* A segment that does not begin with chunks computes one part for each thread.
LEMMA OwnPart ==
  ASSUME NEW g \in Seq(Nodes), NEW n \in Nat, NEW m \in Nat,
         NEW q \in AllParts(g, n), q[1] = m, q[2] = Phase(g, m, 0)
  PROVE  q[3] \in 0 .. n - 1
<1>1. PICK a \in 1 .. Len(g), b \in 0 .. 1, c \in Nat : q = <<a, b, c>> /\ IsPart(g, n, a, b, c)
  BY AllPartsShape, Zenon
<1>2. a = m /\ b = Phase(g, m, 0) /\ c = q[3]
  BY <1>1
<1> QED BY <1>1, <1>2 DEF IsPart, Phase, Completes

-----------------------------------------------------------------------------
(* The steps inside a segment                                               *)

\* only thread t moves
Only(n, pos, new, t) == \A u \in 0 .. n - 1 : u # t => new[u] = pos[u]

\* thread t may move to position p without anything being computed
MayMove(g, n, pos, t, p, k, m, h, ab, cc) ==
  /\ InSegment(g, n, p, t, k, m, h, ab, cc)
  /\ h = 0 => (Through(p, m) <=> Through(pos[t], m))
  /\ h = 1 => p.pc # "part" /\ pos[t].pc # "part"

\* A thread that computes nothing may move on within the segment.
LEMMA MoveKeeps ==
  ASSUME NEW g \in Seq(Nodes), NEW n \in Nat \ {0},
         NEW pos \in [0 .. n - 1 -> Positions], NEW new \in [0 .. n - 1 -> Positions],
         NEW ab \in Nat, NEW cc \in Nat, NEW dn,
         NEW k, NEW m, NEW h, Segment(g, n, pos, ab, cc, dn, k, m, h),
         NEW t \in 0 .. n - 1, Only(n, pos, new, t),
         MayMove(g, n, pos, t, new[t], k, m, h, ab, cc)
  PROVE  Segment(g, n, new, ab, cc, dn, k, m, h)
<1>0. k \in Nat /\ m \in Nat /\ h \in 0 .. 1
  BY DEF Segment, Bounds
<1>1. \A u \in 0 .. n - 1 : InSegment(g, n, new[u], u, k, m, h, ab, cc)
  BY DEF Segment, MayMove, Only
<1>2. h = 1 => \A u, v \in 0 .. n - 1 :
        u # v /\ new[u].pc = "part" /\ new[v].pc = "part" => new[u].cur # new[v].cur
  BY DEF Segment, MayMove, Only
<1>3. \A q \in AllParts(g, n) :
        IsDone(g, n, new, k, m, h, cc, q) <=> IsDone(g, n, pos, k, m, h, cc, q)
  <2> SUFFICES ASSUME NEW q \in AllParts(g, n), q[1] = m, q[2] = Phase(g, m, h)
               PROVE  PartDone(n, new, q[3], m, h, cc) <=> PartDone(n, pos, q[3], m, h, cc)
    BY DEF IsDone
  <2>1. CASE h = 1
    BY <2>1, Zenon DEF PartDone, MayMove, Only
  <2>2. CASE h = 0
    <3>1. q[3] \in 0 .. n - 1
      BY <1>0, <2>2, OwnPart
    <3> QED BY <2>2, <3>1, SMTT(30) DEF PartDone, MayMove, Only
  <2> QED BY <1>0, <2>1, <2>2
<1>4. dn = {q \in AllParts(g, n) : IsDone(g, n, new, k, m, h, cc, q)}
  BY <1>3 DEF Segment
<1> QED BY <1>1, <1>2, <1>4 DEF Segment

\* The loop over the nodes: a thread goes on to the next node, to its part of a node, or
\* to the barrier at the end.
LEMMA NodeKeeps ==
  ASSUME NEW g \in Seq(Nodes), NEW n \in Nat \ {0},
         NEW pos \in [0 .. n - 1 -> Positions], NEW new \in [0 .. n - 1 -> Positions],
         NEW ab \in Nat, NEW cc \in Nat, NEW dn,
         Walk(g, n, pos, ab, cc, dn),
         NEW t \in 0 .. n - 1, Only(n, pos, new, t),
         pos[t].pc = "node",
         LET p == new[t]
             j == pos[t].node
         IN  IF j > Len(g) \/ ab = j THEN p.pc = "done" /\ p.node = j
             ELSE \/ g[j].kind = "nop" /\ p.pc = "node" /\ p.node = j + 1
                  \/ /\ g[j].kind # "nop"
                     /\ p.pc = "part" /\ p.node = j /\ p.cur = t
                     /\ p.half = IF g[j].kind = "split" THEN 1 ELSE 0
  PROVE  Walk(g, n, new, ab, cc, dn)
<1>1. PICK k \in 1 .. Len(g) + 1, m \in 1 .. Len(g) + 1, h \in 0 .. 1 :
        Segment(g, n, pos, ab, cc, dn, k, m, h)
  BY DEF Walk
<1> DEFINE j == pos[t].node
           p == new[t]
<1>0. pos[t] \in Positions /\ p \in Positions /\ j \in Nat /\ p.node \in Nat /\ Len(g) \in Nat
  <2>1. Len(g) \in Nat
    OBVIOUS
  <2> QED BY <2>1, PositionType, Zenon
<1>2. InSegment(g, n, pos[t], t, k, m, h, ab, cc) /\ Bounds(g, k, m, h)
      /\ (ab \in {0, m + 1} \/ Halted(k, h, ab))
  BY <1>1 DEF Segment
<1>3. \/ h = 0 /\ j \in k .. m /\ (ab = k => j = k)
      \/ ~ Halted(k, h, ab) /\ Completes(g, m, h) /\ Exhausted(g, n, m, h, cc) /\ j = m + 1 /\ m = Len(g)
  BY <1>2 DEF InSegment
<1>4. /\ InSegment(g, n, p, t, k, m, h, ab, cc)
      /\ h = 0 => (Through(p, m) <=> Through(pos[t], m))
      /\ p.pc = "part" => h = 0
  <2>1. CASE ~ Halted(k, h, ab) /\ Completes(g, m, h) /\ Exhausted(g, n, m, h, cc) /\ j = m + 1 /\ m = Len(g)
    BY <1>0, <1>2, <2>1 DEF InSegment, Through
  <2>2. CASE h = 0 /\ j \in k .. m /\ (ab = k => j = k)
    <3>1. CASE j > Len(g)
      BY <1>0, <1>2, <2>2, <3>1 DEF InSegment, Through, Halted
    <3>2. CASE j <= Len(g) /\ ab = j
      BY <1>0, <1>2, <2>2, <3>2, SMTT(30) DEF InSegment, Through, Halted
    <3>3. CASE j <= Len(g) /\ ab # j /\ g[j].kind = "nop"
      <4>1. j # m
        BY <1>0, <1>2, <3>3 DEF Bounds
      <4>2. p.pc = "node" /\ p.node = j + 1 /\ p.node \in k .. m /\ ab # k
        BY <1>0, <2>2, <3>3, <4>1, SMTT(30)
      <4>3. InSegment(g, n, p, t, k, m, h, ab, cc)
        BY <2>2, <4>2, Zenon DEF InSegment
      <4>4. ~ Through(p, m) /\ ~ Through(pos[t], m)
        BY <1>0, <2>2, <3>3, <4>2, SMTT(30) DEF Through
      <4> QED BY <4>2, <4>3, <4>4, Zenon
    <3>4. CASE j <= Len(g) /\ ab # j /\ g[j].kind # "nop"
      BY <1>0, <1>2, <2>2, <3>4, SMTT(30) DEF InSegment, Through, Halted, Bounds, PartOK, Phase, Completes
    <3> QED BY <1>0, <3>1, <3>2, <3>3, <3>4
  <2> QED BY <1>3, <2>1, <2>2
<1>5. MayMove(g, n, pos, t, p, k, m, h, ab, cc)
  BY <1>4 DEF MayMove
<1>6. Segment(g, n, new, ab, cc, dn, k, m, h)
  BY <1>1, <1>5, MoveKeeps, Zenon
<1> QED BY <1>6 DEF Walk

\* what the segment says of a position at a part
PartFacts(g, n, p, t, k, m, h, ab, cc) ==
  /\ k \in Nat /\ m \in 1 .. Len(g) /\ h \in 0 .. 1 /\ k <= m
  /\ g[m] \in Nodes /\ g[m].kind \in {"split", "mul_mat"}
  /\ h = 1 => m = k /\ g[m].kind = "mul_mat" /\ n <= cc
  /\ ~ Halted(k, h, ab) /\ p.node = m /\ PartOK(g, n, p, t, m, h, cc)
  /\ p.cur \in Nat /\ NChunks(g[m], n) \in Nat /\ n <= NChunks(g[m], n)
  /\ g[m].kind = "split" => NChunks(g[m], n) = n

\* A thread that is about to compute a part is at node m, and at one of its parts.
LEMMA AtPart ==
  ASSUME NEW g \in Seq(Nodes), NEW n \in Nat \ {0}, NEW pos \in [0 .. n - 1 -> Positions],
         NEW ab \in Nat, NEW cc \in Nat, NEW dn,
         NEW k, NEW m, NEW h, Segment(g, n, pos, ab, cc, dn, k, m, h),
         NEW t \in 0 .. n - 1, pos[t].pc = "part"
  PROVE  PartFacts(g, n, pos[t], t, k, m, h, ab, cc)
<1>1. Bounds(g, k, m, h) /\ InSegment(g, n, pos[t], t, k, m, h, ab, cc) /\ (h = 1 => n <= cc)
  BY DEF Segment
<1>2. m <= Len(g) /\ ~ Halted(k, h, ab) /\ pos[t].node = m /\ PartOK(g, n, pos[t], t, m, h, cc)
  BY <1>1 DEF InSegment
<1>3. /\ k \in Nat /\ m \in 1 .. Len(g) /\ h \in 0 .. 1 /\ k <= m /\ g[m].kind # "nop"
      /\ h = 1 => m = k /\ g[m].kind = "mul_mat"
  BY <1>1, <1>2 DEF Bounds
<1>4. g[m] \in Nodes
  BY <1>3
<1>5. g[m].kind \in NodeKinds
  BY <1>4 DEF Nodes
<1>6. NChunks(g[m], n) \in Nat /\ n <= NChunks(g[m], n)
  BY <1>4, ChunksType, Zenon
<1>7. g[m].kind = "split" => NChunks(g[m], n) = n
  BY DEF NChunks
<1>8. pos[t].cur \in Nat
  BY PositionType, Zenon
<1> QED BY <1>1, <1>2, <1>3, <1>4, <1>5, <1>6, <1>7, <1>8 DEF NodeKinds, PartFacts

\* thread t is about to compute a part that is due, and nobody else is
NextPart(g, n, pos, dn, t) ==
  LET p == <<pos[t].node, pos[t].half, pos[t].cur>>
  IN  /\ p \in AllParts(g, n) /\ p \notin dn
      /\ {q \in AllParts(g, n) : Precedes(q, p)} \subseteq dn
      /\ \A u \in 0 .. n - 1 : u # t /\ pos[u].pc = "part" =>
           <<pos[u].node, pos[u].half, pos[u].cur>> # p

\* A part that a thread is about to compute is one of the graph, is not computed yet, and
\* everything before it is.
LEMMA PartIsNext ==
  ASSUME NEW g \in Seq(Nodes), NEW n \in Nat \ {0}, NEW pos \in [0 .. n - 1 -> Positions],
         NEW ab \in Nat, NEW cc \in Nat, NEW dn, Walk(g, n, pos, ab, cc, dn),
         NEW t \in 0 .. n - 1, pos[t].pc = "part"
  PROVE  NextPart(g, n, pos, dn, t)
<1>1. PICK k \in 1 .. Len(g) + 1, m \in 1 .. Len(g) + 1, h \in 0 .. 1 :
        Segment(g, n, pos, ab, cc, dn, k, m, h)
  BY DEF Walk
<1> DEFINE c == pos[t].cur
           f == Phase(g, m, h)
<1>0. PartFacts(g, n, pos[t], t, k, m, h, ab, cc)
  BY <1>1, AtPart, Zenon
<1>2. /\ m \in 1 .. Len(g) /\ k <= m
      /\ g[m].kind \in {"split", "mul_mat"}
      /\ h = 1 => m = k /\ g[m].kind = "mul_mat"
      /\ pos[t].node = m /\ PartOK(g, n, pos[t], t, m, h, cc) /\ c \in Nat
  BY <1>0 DEF PartFacts
<1>3. pos[t].half = f /\ f \in {0, 1} /\ IsPart(g, n, m, f, c)
  BY <1>2 DEF PartOK, Phase, Completes, IsPart
<1>4. <<m, f, c>> \in AllParts(g, n)
  <2> HIDE DEF f, c
  <2>1. \E a \in 1 .. Len(g), b \in 0 .. 1, d \in Nat :
          <<m, f, c>> = <<a, b, d>> /\ IsPart(g, n, a, b, d)
    BY <1>2, <1>3
  <2> QED BY <2>1, AllPartsShape
<1>5. ~ IsDone(g, n, pos, k, m, h, cc, <<m, f, c>>)
  <2>1. h = 1 => f = 1
    BY <1>2 DEF Phase, Completes
  <2>2. ~ PartDone(n, pos, c, m, h, cc)
    BY <1>2, SMTT(30) DEF PartDone, Through, PartOK
  <2> HIDE DEF f, c
  <2> QED BY <1>2, <1>3, <2>1, <2>2 DEF IsDone
<1>6. ASSUME NEW q \in AllParts(g, n), Precedes(q, <<m, f, c>>)
      PROVE  IsDone(g, n, pos, k, m, h, cc, q)
  <2>1. PICK a \in 1 .. Len(g), b \in 0 .. 1, d \in Nat : q = <<a, b, d>> /\ IsPart(g, n, a, b, d)
    BY AllPartsShape, Zenon
  <2>2. CASE a < m
    <3>1. \A j \in k .. m - 1 : g[j].kind = "nop"
      BY <1>1 DEF Segment, Bounds
    <3>2. g[a].kind # "nop"
      BY <2>1, SMTT(30) DEF IsPart
    <3>3. a < k
      BY <2>2, <3>1, <3>2
    <3> QED BY <2>1, <3>3 DEF IsDone
  <2>3. CASE a = m /\ b < f
    <3>1. h = 1 /\ m = k /\ b < h
      BY <1>2, <1>3, <2>1, <2>3, SMTT(30) DEF IsPart, Phase, Completes
    <3> QED BY <2>1, <2>3, <3>1 DEF IsDone
  <2> QED BY <1>6, <2>1, <2>2, <2>3 DEF Precedes
<1>7. ASSUME NEW u \in 0 .. n - 1, u # t, pos[u].pc = "part"
      PROVE  <<pos[u].node, pos[u].half, pos[u].cur>> # <<m, f, c>>
  <2>1. PartFacts(g, n, pos[u], u, k, m, h, ab, cc)
    BY <1>1, <1>7, AtPart, Zenon
  <2> QED BY <1>1, <1>2, <1>7, <2>1, SMTT(30) DEF Segment, PartFacts, PartOK
<1>8. dn = {q \in AllParts(g, n) : IsDone(g, n, pos, k, m, h, cc, q)}
  BY <1>1 DEF Segment
<1> QED BY <1>2, <1>3, <1>4, <1>5, <1>6, <1>7, <1>8, Zenon DEF NextPart

\* A part is computed.
LEMMA PartKeeps ==
  ASSUME NEW g \in Seq(Nodes), NEW n \in Nat \ {0},
         NEW pos \in [0 .. n - 1 -> Positions], NEW new \in [0 .. n - 1 -> Positions],
         NEW ab \in Nat, NEW cc \in Nat, NEW dn, Walk(g, n, pos, ab, cc, dn),
         NEW t \in 0 .. n - 1, Only(n, pos, new, t),
         pos[t].pc = "part", new[t].node = pos[t].node, new[t].half = pos[t].half,
         new[t].pc = IF pos[t].half = 0 THEN IF t = 0 THEN "setchunk" ELSE "chunks"
                     ELSE IF NChunks(g[pos[t].node], n) <= n THEN "opdone" ELSE "fetch"
  PROVE  Walk(g, n, new, ab, cc, dn \cup {<<pos[t].node, pos[t].half, pos[t].cur>>})
<1>1. PICK k \in 1 .. Len(g) + 1, m \in 1 .. Len(g) + 1, h \in 0 .. 1 :
        Segment(g, n, pos, ab, cc, dn, k, m, h)
  BY DEF Walk
<1> DEFINE c == pos[t].cur
           f == Phase(g, m, h)
           part == <<pos[t].node, pos[t].half, pos[t].cur>>
<1>0. PartFacts(g, n, pos[t], t, k, m, h, ab, cc)
  BY <1>1, AtPart, Zenon
<1>2. /\ k \in Nat /\ m \in 1 .. Len(g) /\ h \in 0 .. 1 /\ k <= m
      /\ g[m] \in Nodes /\ g[m].kind \in {"split", "mul_mat"}
      /\ h = 1 => m = k /\ g[m].kind = "mul_mat" /\ n <= cc
      /\ ~ Halted(k, h, ab) /\ pos[t].node = m /\ PartOK(g, n, pos[t], t, m, h, cc)
      /\ c \in Nat /\ NChunks(g[m], n) \in Nat /\ n <= NChunks(g[m], n)
      /\ g[m].kind = "split" => NChunks(g[m], n) = n
  BY <1>0 DEF PartFacts
<1>3. part = <<m, f, c>> /\ f \in {0, 1} /\ (f = 1 <=> Completes(g, m, h)) /\ (h = 1 => f = 1)
  BY <1>2 DEF PartOK, Phase, Completes
<1>4. part \in AllParts(g, n)
  <2>1. NextPart(g, n, pos, dn, t)
    BY PartIsNext, Zenon
  <2> QED BY <2>1 DEF NextPart
<1>5. InSegment(g, n, new[t], t, k, m, h, ab, cc)
  <2>1. new[t].pc \in {"setchunk", "chunks"} =>
          ~ Completes(g, m, h) /\ (new[t].pc = "setchunk" <=> t = 0)
    BY <1>2, <1>3
  <2>2. new[t].pc = "fetch" => h = 1 /\ new[t].half = 1
    BY <1>2, <1>3, SMTT(30) DEF Completes
  <2>3. new[t].pc = "opdone" => Completes(g, m, h) /\ Exhausted(g, n, m, h, cc)
    BY <1>2, <1>3, SMTT(30) DEF Exhausted
  <2>4. new[t].pc \in {"setchunk", "chunks", "fetch", "opdone"} /\ new[t].node = m
    BY <1>2
  <2> QED BY <1>2, <2>1, <2>2, <2>3, <2>4, SMTT(30) DEF InSegment
<1>6. \A u \in 0 .. n - 1 : InSegment(g, n, new[u], u, k, m, h, ab, cc)
  BY <1>1, <1>5 DEF Segment, Only
<1>7. new[t].pc \notin {"part", "node", "done"}
  OBVIOUS
<1>8. h = 1 => \A u, v \in 0 .. n - 1 :
        u # v /\ new[u].pc = "part" /\ new[v].pc = "part" => new[u].cur # new[v].cur
  BY <1>1, <1>7 DEF Segment, Only
<1>9. ASSUME NEW q \in AllParts(g, n)
      PROVE  IsDone(g, n, new, k, m, h, cc, q) <=> IsDone(g, n, pos, k, m, h, cc, q) \/ q = part
  <2>1. PICK a \in 1 .. Len(g), b \in 0 .. 1, d \in Nat : q = <<a, b, d>> /\ IsPart(g, n, a, b, d)
    BY AllPartsShape, Zenon
  <2>2. CASE a = m /\ b = f
    <3>1. PartDone(n, new, d, m, h, cc) <=> PartDone(n, pos, d, m, h, cc) \/ d = c
      <4>1. CASE h = 1
        <5>1. c < cc
          BY <1>2, <4>1 DEF PartOK
        <5>2. \A u \in 0 .. n - 1 : u # t /\ pos[u].pc = "part" => pos[u].cur # c
          BY <1>1, <4>1 DEF Segment
        <5> QED BY <1>7, <4>1, <5>1, <5>2, Zenon DEF PartDone, Only
      <4>2. CASE h = 0
        <5>1. d \in 0 .. n - 1
          BY <2>1, <2>2, <4>2, OwnPart, SMTT(30)
        <5>2. c = t
          BY <1>2, <4>2 DEF PartOK
        <5>3. Through(new[t], m)
          BY <1>2, <1>7 DEF Through
        <5> QED BY <4>2, <5>1, <5>2, <5>3 DEF PartDone, Only
      <4> QED BY <4>1, <4>2
    <3>2. ~ (a < k) /\ ~ (a = k /\ b < h)
      BY <1>2, <1>3, <2>2
    <3>3. /\ IsDone(g, n, new, k, m, h, cc, q) <=> PartDone(n, new, d, m, h, cc)
          /\ IsDone(g, n, pos, k, m, h, cc, q) <=> PartDone(n, pos, d, m, h, cc)
      BY <2>1, <2>2, <3>2 DEF IsDone
    <3>4. q = part <=> d = c
      BY <1>3, <2>1, <2>2
    <3> QED BY <3>1, <3>3, <3>4
  <2>3. CASE ~ (a = m /\ b = f)
    BY <1>3, <2>1, <2>3, SMTT(30) DEF IsDone
  <2> QED BY <2>2, <2>3
<1>10. dn = {q \in AllParts(g, n) : IsDone(g, n, pos, k, m, h, cc, q)}
  BY <1>1 DEF Segment
<1>11. dn \cup {part} = {q \in AllParts(g, n) : IsDone(g, n, new, k, m, h, cc, q)}
  <2> HIDE DEF part
  <2> QED BY <1>4, <1>9, <1>10
<1>12. Segment(g, n, new, ab, cc, dn \cup {part}, k, m, h)
  BY <1>1, <1>6, <1>8, <1>11 DEF Segment
<1> QED BY <1>12, SMTT(30) DEF Walk

\* Thread 0 makes chunk n the next one, before any thread fetches one.
LEMMA SetChunkKeeps ==
  ASSUME NEW g \in Seq(Nodes), NEW n \in Nat \ {0},
         NEW pos \in [0 .. n - 1 -> Positions], NEW new \in [0 .. n - 1 -> Positions],
         NEW ab \in Nat, NEW cc \in Nat, NEW dn, Walk(g, n, pos, ab, cc, dn),
         NEW t \in 0 .. n - 1, Only(n, pos, new, t),
         pos[t].pc = "setchunk", new[t].pc = "chunks", new[t].node = pos[t].node
  PROVE  Walk(g, n, new, ab, n, dn)
<1>1. PICK k \in 1 .. Len(g) + 1, m \in 1 .. Len(g) + 1, h \in 0 .. 1 :
        Segment(g, n, pos, ab, cc, dn, k, m, h)
  BY DEF Walk
<1>2. InSegment(g, n, pos[t], t, k, m, h, ab, cc)
  BY <1>1 DEF Segment
<1>3. ~ Halted(k, h, ab) /\ m <= Len(g) /\ ~ Completes(g, m, h) /\ t = 0 /\ pos[t].node = m
  BY <1>2 DEF InSegment
<1>4. h = 0
  BY <1>3 DEF Completes
<1>5. \A u \in 0 .. n - 1 : InSegment(g, n, pos[u], u, k, m, h, ab, n)
  <2> SUFFICES ASSUME NEW u \in 0 .. n - 1
               PROVE  InSegment(g, n, pos[u], u, k, m, h, ab, n)
    OBVIOUS
  <2>1. InSegment(g, n, pos[u], u, k, m, h, ab, cc)
    BY <1>1 DEF Segment
  <2>2. u = 0 => pos[u].pc = "setchunk"
    BY <1>3
  <2> QED BY <1>3, <1>4, <2>1, <2>2 DEF InSegment, PartOK
<1>6. Segment(g, n, pos, ab, n, dn, k, m, h)
  BY <1>1, <1>4, <1>5 DEF Segment, IsDone, PartDone
<1>7. InSegment(g, n, new[t], t, k, m, h, ab, n)
  BY <1>3 DEF InSegment
<1>8. MayMove(g, n, pos, t, new[t], k, m, h, ab, n)
  BY <1>3, <1>4, <1>7 DEF MayMove, Through
<1>9. Segment(g, n, new, ab, n, dn, k, m, h)
  <2>1. n \in Nat
    OBVIOUS
  <2> QED BY <1>6, <1>8, <2>1, MoveKeeps, Zenon
<1> QED BY <1>9 DEF Walk

\* A thread fetches a chunk, or finds that there is none left.
LEMMA FetchKeeps ==
  ASSUME NEW g \in Seq(Nodes), NEW n \in Nat \ {0},
         NEW pos \in [0 .. n - 1 -> Positions], NEW new \in [0 .. n - 1 -> Positions],
         NEW ab \in Nat, NEW cc \in Nat, NEW dn, Walk(g, n, pos, ab, cc, dn),
         NEW t \in 0 .. n - 1, Only(n, pos, new, t),
         pos[t].pc = "fetch", new[t].node = pos[t].node, new[t].half = pos[t].half,
         new[t].cur = cc,
         new[t].pc = IF cc < NChunks(g[pos[t].node], n) THEN "part" ELSE "opdone"
  PROVE  Walk(g, n, new, ab, cc + 1, dn)
<1>1. PICK k \in 1 .. Len(g) + 1, m \in 1 .. Len(g) + 1, h \in 0 .. 1 :
        Segment(g, n, pos, ab, cc, dn, k, m, h)
  BY DEF Walk
<1>2. InSegment(g, n, pos[t], t, k, m, h, ab, cc) /\ Bounds(g, k, m, h)
  BY <1>1 DEF Segment
<1>3. ~ Halted(k, h, ab) /\ h = 1 /\ pos[t].node = m /\ pos[t].half = 1
  BY <1>2 DEF InSegment
<1>4. m = k /\ m \in 1 .. Len(g)
  BY <1>2, <1>3 DEF Bounds
<1>5. NChunks(g[m], n) \in Nat
  <2>1. g[m] \in Nodes
    BY <1>4
  <2> QED BY <2>1, ChunksType, Zenon
<1>6. Completes(g, m, h) /\ Phase(g, m, h) = 1
  BY <1>3, <1>4 DEF Completes, Phase
<1>7. ASSUME NEW u \in 0 .. n - 1, u # t
      PROVE  /\ InSegment(g, n, new[u], u, k, m, h, ab, cc + 1)
             /\ new[u].pc = "part" => new[u].cur < cc
             /\ new[u] = pos[u] /\ new[u].cur \in Nat
  <2>1. InSegment(g, n, pos[u], u, k, m, h, ab, cc) /\ pos[u] = new[u] /\ pos[u] \in Positions
    BY <1>1, <1>7, SMTT(30) DEF Segment, Only
  <2>2. pos[u].cur \in Nat
    BY <2>1, PositionType, Zenon
  <2> QED BY <1>3, <1>4, <1>5, <1>6, <2>1, <2>2, SMTT(30) DEF InSegment, PartOK, Exhausted
<1>8. InSegment(g, n, new[t], t, k, m, h, ab, cc + 1)
  BY <1>3, <1>4, <1>5, <1>6 DEF InSegment, PartOK, Exhausted
<1>9. \A u \in 0 .. n - 1 : InSegment(g, n, new[u], u, k, m, h, ab, cc + 1)
  BY <1>7, <1>8, Zenon
<1>10. \A u, v \in 0 .. n - 1 :
         u # v /\ new[u].pc = "part" /\ new[v].pc = "part" => new[u].cur # new[v].cur
  <2> SUFFICES ASSUME NEW u \in 0 .. n - 1, NEW v \in 0 .. n - 1, u # v,
                      new[u].pc = "part", new[v].pc = "part"
               PROVE  new[u].cur # new[v].cur
    BY Zenon
  <2>1. CASE u # t /\ v # t
    BY <1>1, <1>3, <1>7, <2>1, SMTT(30) DEF Segment
  <2>2. CASE u = t
    <3>1. new[v].cur < cc /\ new[v].cur \in Nat /\ new[u].cur = cc
      BY <1>7, <2>2, Zenon
    <3> QED BY <3>1
  <2>3. CASE v = t
    <3>1. new[u].cur < cc /\ new[u].cur \in Nat /\ new[v].cur = cc
      BY <1>7, <2>3, Zenon
    <3> QED BY <3>1
  <2> QED BY <2>1, <2>2, <2>3, Zenon
<1>11. \A q \in AllParts(g, n) :
         IsDone(g, n, new, k, m, h, cc + 1, q) <=> IsDone(g, n, pos, k, m, h, cc, q)
  <2> SUFFICES ASSUME NEW q \in AllParts(g, n), q[1] = m, q[2] = Phase(g, m, h)
               PROVE  PartDone(n, new, q[3], m, h, cc + 1) <=> PartDone(n, pos, q[3], m, h, cc)
    BY DEF IsDone
  <2>1. PICK a \in 1 .. Len(g), b \in 0 .. 1, d \in Nat : q = <<a, b, d>> /\ IsPart(g, n, a, b, d)
    BY AllPartsShape, Zenon
  <2>2. a = m /\ b = 1 /\ d = q[3]
    BY <1>6, <2>1
  <2>3. d < NChunks(g[m], n)
    BY <1>2, <1>3, <1>4, <2>1, <2>2 DEF IsPart, Bounds
  <2>4. CASE d < cc
    <3>1. ASSUME NEW u \in 0 .. n - 1
          PROVE  (new[u].pc = "part" /\ new[u].cur = d) <=> (pos[u].pc = "part" /\ pos[u].cur = d)
      <4>1. CASE u = t
        <5>1. pos[u].pc # "part" /\ new[u].cur # d
          BY <2>4, <4>1, SMTT(30)
        <5> QED BY <5>1, Zenon
      <4>2. CASE u # t
        BY <4>2, Zenon DEF Only
      <4> QED BY <4>1, <4>2, Zenon
    <3>2. d < cc + 1
      BY <2>4
    <3> QED BY <1>3, <2>2, <2>4, <3>1, <3>2, SMTT(30) DEF PartDone
  <2>5. CASE d >= cc
    <3>1. new[t].pc = "part"
      BY <1>3, <1>5, <2>3, <2>5
    <3>2. ~ (d < cc) /\ (d < cc + 1 => new[t].cur = d)
      BY <2>5
    <3>3. ~ PartDone(n, pos, d, m, h, cc)
      BY <1>3, <3>2, Zenon DEF PartDone
    <3>4. ~ PartDone(n, new, d, m, h, cc + 1)
      BY <1>3, <3>1, <3>2, Zenon DEF PartDone
    <3> QED BY <2>2, <3>3, <3>4, Zenon
  <2> QED BY <2>4, <2>5
<1>12. Segment(g, n, new, ab, cc + 1, dn, k, m, h)
  BY <1>1, <1>9, <1>10, <1>11, SMTT(30) DEF Segment
<1> QED BY <1>12 DEF Walk

\* A node is left, to the barrier before the next or to the end of the loop; thread 0 may
\* have all threads stop at the next node.
LEMMA OpDoneKeeps ==
  ASSUME NEW g \in Seq(Nodes), NEW n \in Nat \ {0},
         NEW pos \in [0 .. n - 1 -> Positions], NEW new \in [0 .. n - 1 -> Positions],
         NEW ab \in Nat, NEW cc \in Nat, NEW dn, Walk(g, n, pos, ab, cc, dn),
         NEW t \in 0 .. n - 1, Only(n, pos, new, t),
         pos[t].pc = "opdone", NEW next, next = ab \/ next = pos[t].node + 1,
         IF pos[t].node < Len(g) THEN new[t].pc = "next" /\ new[t].node = pos[t].node
         ELSE new[t].pc = "node" /\ new[t].node = pos[t].node + 1
  PROVE  Walk(g, n, new, next, cc, dn)
<1>1. PICK k \in 1 .. Len(g) + 1, m \in 1 .. Len(g) + 1, h \in 0 .. 1 :
        Segment(g, n, pos, ab, cc, dn, k, m, h)
  BY DEF Walk
<1>2. InSegment(g, n, pos[t], t, k, m, h, ab, cc) /\ Bounds(g, k, m, h)
  BY <1>1 DEF Segment
<1>3. /\ ~ Halted(k, h, ab) /\ pos[t].node = m
      /\ Completes(g, m, h) /\ Exhausted(g, n, m, h, cc)
  BY <1>2 DEF InSegment
<1>4. /\ m \in 1 .. Len(g) /\ k <= m /\ next \in Nat
      /\ ~ Halted(k, h, next) /\ next \in {0, m + 1} /\ (h = 0 => next # k)
  <2>1. m \in 1 .. Len(g) /\ k <= m
    BY <1>2, <1>3 DEF Bounds, Completes
  <2>2. ab \in {0, m + 1}
    BY <1>1, <1>3 DEF Segment
  <2>3. next \in {0, m + 1}
    BY <1>3, <2>2
  <2> QED BY <2>1, <2>3 DEF Halted
<1>5. \A u \in 0 .. n - 1 : InSegment(g, n, pos[u], u, k, m, h, next, cc)
  BY <1>1, <1>3, <1>4, SMTT(30) DEF Segment, InSegment
<1>6. Segment(g, n, pos, next, cc, dn, k, m, h)
  BY <1>1, <1>4, <1>5 DEF Segment
<1>7. /\ InSegment(g, n, new[t], t, k, m, h, next, cc)
      /\ Through(new[t], m) /\ Through(pos[t], m) /\ new[t].pc # "part"
  BY <1>3, <1>4 DEF InSegment, Through
<1>8. MayMove(g, n, pos, t, new[t], k, m, h, next, cc)
  BY <1>7 DEF MayMove
<1>9. Segment(g, n, new, next, cc, dn, k, m, h)
  BY <1>4, <1>6, <1>8, MoveKeeps, Zenon
<1> QED BY <1>9, SMTT(30) DEF Walk

-----------------------------------------------------------------------------
(* From one segment to the next                                             *)

\* The parts of the first N nodes are those with a number up to N.
LEMMA PrefixParts ==
  ASSUME NEW g \in Seq(Nodes), NEW n \in Nat, NEW N \in 0 .. Len(g)
  PROVE  PartsUpTo(g, n, N) = {q \in AllParts(g, n) : q[1] <= N}
<1>1. ASSUME NEW q \in PartsUpTo(g, n, N)
      PROVE  q \in AllParts(g, n) /\ q[1] <= N
  <2>1. PICK a \in 1 .. N, b \in 0 .. 1, c \in Nat : q = <<a, b, c>> /\ IsPart(g, n, a, b, c)
    BY PartsShape, Zenon
  <2>2. a \in 1 .. Len(g)
    OBVIOUS
  <2>3. q \in AllParts(g, n)
    BY <2>1, <2>2, AllPartsShape, Zenon
  <2> QED BY <2>1, <2>3
<1>2. ASSUME NEW q \in AllParts(g, n), q[1] <= N
      PROVE  q \in PartsUpTo(g, n, N)
  <2>1. PICK a \in 1 .. Len(g), b \in 0 .. 1, c \in Nat : q = <<a, b, c>> /\ IsPart(g, n, a, b, c)
    BY AllPartsShape, Zenon
  <2>2. a \in 1 .. N
    BY <1>2, <2>1
  <2> QED BY <2>1, <2>2, PartsShape, Zenon
<1> QED BY <1>1, <1>2

\* The nodes that a segment skips have no parts.
LEMMA NothingSkipped ==
  ASSUME NEW g \in Seq(Nodes), NEW n \in Nat, NEW k, NEW m, NEW h, Bounds(g, k, m, h),
         NEW q \in AllParts(g, n), q[1] < m
  PROVE  q[1] < k
<1>1. PICK a \in 1 .. Len(g), b \in 0 .. 1, c \in Nat : q = <<a, b, c>> /\ IsPart(g, n, a, b, c)
  BY AllPartsShape, Zenon
<1>2. a = q[1] /\ g[a].kind # "nop"
  BY <1>1 DEF IsPart
<1> QED BY <1>2 DEF Bounds

\* At the end of a segment that completes node m, exactly the nodes up to m are computed.
LEMMA SegmentEnds ==
  ASSUME NEW g \in Seq(Nodes), NEW n \in Nat \ {0}, NEW pos \in [0 .. n - 1 -> Positions],
         NEW ab \in Nat, NEW cc \in Nat, NEW dn,
         NEW k, NEW m, NEW h, Segment(g, n, pos, ab, cc, dn, k, m, h),
         Completes(g, m, h), Exhausted(g, n, m, h, cc),
         \A u \in 0 .. n - 1 : Through(pos[u], m) /\ pos[u].pc # "part"
  PROVE  dn = {q \in AllParts(g, n) : q[1] <= m}
<1>1. Bounds(g, k, m, h)
  BY DEF Segment
<1>2. k \in Nat /\ m \in 1 .. Len(g) /\ k <= m /\ h \in 0 .. 1 /\ Phase(g, m, h) = 1
  BY <1>1 DEF Bounds, Completes, Phase
<1>3. ASSUME NEW q \in AllParts(g, n)
      PROVE  IsDone(g, n, pos, k, m, h, cc, q) <=> q[1] <= m
  <2>1. PICK a \in 1 .. Len(g), b \in 0 .. 1, d \in Nat : q = <<a, b, d>> /\ IsPart(g, n, a, b, d)
    BY AllPartsShape, Zenon
  <2>2. CASE a < m
    <3>1. a < k
      BY <1>1, <2>1, <2>2, NothingSkipped
    <3> QED BY <1>2, <2>1, <2>2, <3>1 DEF IsDone
  <2>3. CASE a > m
    BY <1>2, <2>1, <2>3, SMTT(30) DEF IsDone
  <2>4. CASE a = m /\ h = 0
    <3>1. b = 1 /\ d \in 0 .. n - 1
      BY <2>1, <2>4 DEF IsPart, Completes
    <3>2. PartDone(n, pos, d, m, h, cc)
      BY <2>4, <3>1 DEF PartDone
    <3> QED BY <1>2, <2>1, <2>4, <3>1, <3>2 DEF IsDone
  <2>5. CASE a = m /\ h = 1
    <3>1. m = k /\ g[m].kind = "mul_mat" /\ NChunks(g[m], n) <= cc
      BY <1>1, <2>5 DEF Bounds, Exhausted
    <3>2. CASE b = 0
      BY <2>1, <2>5, <3>1, <3>2 DEF IsDone
    <3>3. CASE b = 1
      <4>0. g[m] \in Nodes
        BY <1>2
      <4>1. NChunks(g[m], n) \in Nat
        BY <4>0, ChunksType, Zenon
      <4>2. d < cc
        BY <2>1, <2>5, <3>1, <3>3, <4>1 DEF IsPart
      <4>3. PartDone(n, pos, d, m, h, cc)
        BY <2>5, <4>2 DEF PartDone
      <4> QED BY <1>2, <2>1, <2>5, <3>3, <4>3 DEF IsDone
    <3> QED BY <3>2, <3>3
  <2> QED BY <1>2, <2>2, <2>3, <2>4, <2>5
<1> QED BY <1>3 DEF Segment

\* the parts of the nodes before node a
PartsBefore(g, n, a) == {q \in AllParts(g, n) : q[1] < a}

\* all threads are at node a
Gathered(n, pos, a) == \A u \in 0 .. n - 1 : pos[u].pc = "node" /\ pos[u].node = a

\* All threads at node a, with the nodes before it computed: a segment begins.
LEMMA SegmentBegins ==
  ASSUME NEW g \in Seq(Nodes), NEW n \in Nat \ {0}, NEW pos \in [0 .. n - 1 -> Positions],
         NEW cc \in Nat, NEW a \in 1 .. Len(g) + 1, NEW ab, ab = 0 \/ ab = a, Segmented(g),
         Gathered(n, pos, a)
  PROVE  Walk(g, n, pos, ab, cc, PartsBefore(g, n, a))
<1>1. PICK m \in 1 .. Len(g) + 1 : Bounds(g, a, m, 0)
  BY DEF Segmented
<1>2. m \in a .. Len(g) + 1 /\ (m <= Len(g) => g[m].kind # "nop")
  BY <1>1 DEF Bounds
<1>3. \A u \in 0 .. n - 1 : InSegment(g, n, pos[u], u, a, m, 0, ab, cc)
  BY <1>2 DEF InSegment, Gathered
<1>4. ab \in {0, m + 1} \/ Halted(a, 0, ab)
  BY DEF Halted
<1>5. ASSUME NEW q \in AllParts(g, n)
      PROVE  IsDone(g, n, pos, a, m, 0, cc, q) <=> q[1] < a
  <2>1. PICK i \in 1 .. Len(g), b \in 0 .. 1, d \in Nat : q = <<i, b, d>> /\ IsPart(g, n, i, b, d)
    BY AllPartsShape, Zenon
  <2>2. ~ (b < 0)
    OBVIOUS
  <2>3. i = m /\ b = Phase(g, m, 0) => ~ PartDone(n, pos, d, m, 0, cc)
    <3> SUFFICES ASSUME i = m, b = Phase(g, m, 0)
                 PROVE  ~ PartDone(n, pos, d, m, 0, cc)
      OBVIOUS
    <3>1. d \in 0 .. n - 1
      BY <1>2, <2>1 DEF IsPart, Phase, Completes
    <3> QED BY <1>2, <3>1 DEF PartDone, Through, Gathered
  <2> QED BY <2>1, <2>2, <2>3 DEF IsDone
<1>6. Segment(g, n, pos, ab, cc, PartsBefore(g, n, a), a, m, 0)
  BY <1>1, <1>3, <1>4, <1>5 DEF Segment, PartsBefore
<1>7. m \in 1 .. Len(g) + 1 /\ 0 \in 0 .. 1
  BY <1>2
<1> QED BY <1>6, <1>7, Zenon DEF Walk

\* Threads that are all at a barrier are at the same one.
LEMMA SameBarrier ==
  ASSUME NEW g \in Seq(Nodes), NEW n \in Nat \ {0}, NEW pos \in [0 .. n - 1 -> Positions],
         NEW ab \in Nat, NEW cc \in Nat, NEW dn, Walk(g, n, pos, ab, cc, dn),
         NEW t \in 0 .. n - 1, NEW u \in 0 .. n - 1,
         pos[t].pc \in Barriers, pos[u].pc \in Barriers
  PROVE  pos[t].pc = pos[u].pc /\ pos[t].node = pos[u].node
<1>1. PICK k \in 1 .. Len(g) + 1, m \in 1 .. Len(g) + 1, h \in 0 .. 1 :
        Segment(g, n, pos, ab, cc, dn, k, m, h)
  BY DEF Walk
<1> DEFINE Meeting(pc, node) ==
             \/ Halted(k, h, ab) /\ pc = "done" /\ node = k
             \/ /\ ~ Halted(k, h, ab)
                /\ \/ m <= Len(g) /\ ~ Completes(g, m, h) /\ pc = "chunks" /\ node = m
                   \/ m < Len(g) /\ Completes(g, m, h) /\ pc = "next" /\ node = m
                   \/ m = Len(g) /\ Completes(g, m, h) /\ pc = "done" /\ node = m + 1
                   \/ m = Len(g) + 1 /\ pc = "done" /\ node = m
<1>2. ASSUME NEW v \in 0 .. n - 1, pos[v].pc \in Barriers
      PROVE  Meeting(pos[v].pc, pos[v].node)
  <2>1. InSegment(g, n, pos[v], v, k, m, h, ab, cc)
    BY <1>1 DEF Segment
  <2> QED BY <1>2, <2>1, SMTT(30) DEF InSegment, Barriers
<1>3. Meeting(pos[t].pc, pos[t].node) /\ Meeting(pos[u].pc, pos[u].node)
  BY <1>2
<1>4. m = Len(g) + 1 => ~ Completes(g, m, h)
  BY DEF Completes
<1> QED BY <1>3, <1>4, SMTT(30)

\* The barrier in a mul_mat: every thread has converted its part, and chunk t of the node
\* is now thread t's.
LEMMA CrossChunks ==
  ASSUME NEW g \in Seq(Nodes), NEW n \in Nat \ {0},
         NEW pos \in [0 .. n - 1 -> Positions], NEW new \in [0 .. n - 1 -> Positions],
         NEW ab \in Nat, NEW cc \in Nat, NEW dn, Walk(g, n, pos, ab, cc, dn),
         \A u \in 0 .. n - 1 : pos[u].pc = "chunks" /\ new[u] = At("part", pos[u].node, 1, u)
  PROVE  Walk(g, n, new, ab, cc, dn)
<1>1. PICK k \in 1 .. Len(g) + 1, m \in 1 .. Len(g) + 1, h \in 0 .. 1 :
        Segment(g, n, pos, ab, cc, dn, k, m, h)
  BY DEF Walk
<1>2. /\ Bounds(g, k, m, h)
      /\ \A u \in 0 .. n - 1 : InSegment(g, n, pos[u], u, k, m, h, ab, cc)
  BY <1>1 DEF Segment
<1>3. /\ ~ Halted(k, h, ab) /\ m <= Len(g) /\ ~ Completes(g, m, h)
      /\ \A u \in 0 .. n - 1 : pos[u].node = m
  <2>1. 0 \in 0 .. n - 1
    OBVIOUS
  <2> QED BY <1>2, <2>1, Zenon DEF InSegment
<1>4. cc = n
  <2>1. 0 \in 0 .. n - 1
    OBVIOUS
  <2>2. InSegment(g, n, pos[0], 0, k, m, h, ab, cc) /\ pos[0].pc = "chunks"
    BY <1>2, <2>1
  <2> QED BY <2>2 DEF InSegment
<1>5. h = 0 /\ m \in 1 .. Len(g) /\ k <= m
  BY <1>2, <1>3 DEF Completes, Bounds
<1>6. g[m] \in Nodes
  BY <1>5
<1>7. g[m].kind = "mul_mat"
  <2>1. g[m].kind \in NodeKinds
    BY <1>6 DEF Nodes
  <2> QED BY <1>2, <1>3, <1>5, <2>1 DEF Bounds, Completes, NodeKinds
<1>8. NChunks(g[m], n) \in Nat /\ n <= NChunks(g[m], n)
  BY <1>6, ChunksType, Zenon
<1>9. Bounds(g, m, m, 1)
  BY <1>5, <1>7 DEF Bounds
<1>10. Phase(g, m, 0) = 0 /\ Phase(g, m, 1) = 1 /\ ~ Halted(m, 1, ab)
  BY <1>5, <1>7 DEF Phase, Completes, Halted
<1>11. ASSUME NEW u \in 0 .. n - 1
       PROVE  InSegment(g, n, new[u], u, m, m, 1, ab, cc)
  <2>1. new[u].pc = "part" /\ new[u].node = m /\ new[u].half = 1 /\ new[u].cur = u
    BY <1>3 DEF At
  <2>2. u < cc /\ u < NChunks(g[m], n)
    BY <1>4, <1>8
  <2>3. PartOK(g, n, new[u], u, m, 1, cc)
    BY <1>10, <2>1, <2>2 DEF PartOK
  <2> QED BY <1>5, <1>10, <2>1, <2>3 DEF InSegment
<1>12. ab \in {0, m + 1}
  BY <1>1, <1>3 DEF Segment
<1>13. \A t, u \in 0 .. n - 1 : t # u => new[t].cur # new[u].cur
  BY DEF At
<1>14. ASSUME NEW q \in AllParts(g, n)
       PROVE  IsDone(g, n, pos, k, m, h, cc, q) <=> IsDone(g, n, new, m, m, 1, cc, q)
  <2>1. PICK a \in 1 .. Len(g), b \in 0 .. 1, d \in Nat : q = <<a, b, d>> /\ IsPart(g, n, a, b, d)
    BY AllPartsShape, Zenon
  <2>2. CASE a < m
    <3>0. q[1] = a /\ q[1] < m
      BY <2>1, <2>2
    <3>1. a < k
      BY <1>2, <3>0, NothingSkipped
    <3> QED BY <2>1, <2>2, <3>1 DEF IsDone
  <2>3. CASE a > m
    BY <1>5, <2>1, <2>3, SMTT(30) DEF IsDone
  <2>4. CASE a = m /\ b = 0
    <3>1. d \in 0 .. n - 1
      BY <2>1, <2>4 DEF IsPart
    <3>2. PartDone(n, pos, d, m, h, cc)
      BY <1>3, <1>5, <3>1 DEF PartDone, Through
    <3> QED BY <1>5, <1>10, <2>1, <2>4, <3>2 DEF IsDone
  <2>5. CASE a = m /\ b = 1
    <3>1. ~ PartDone(n, new, d, m, 1, cc)
      <4>1. CASE d \in 0 .. n - 1
        BY <4>1 DEF PartDone, At
      <4>2. CASE d \notin 0 .. n - 1
        BY <1>4, <4>2 DEF PartDone
      <4> QED BY <4>1, <4>2
    <3> QED BY <1>5, <1>10, <2>1, <2>5, <3>1 DEF IsDone
  <2> QED BY <1>5, <2>2, <2>3, <2>4, <2>5
<1>15. dn = {q \in AllParts(g, n) : IsDone(g, n, new, m, m, 1, cc, q)}
  BY <1>1, <1>14 DEF Segment
<1>16. Segment(g, n, new, ab, cc, dn, m, m, 1)
  BY <1>4, <1>9, <1>11, <1>12, <1>13, <1>15 DEF Segment
<1> QED BY <1>16 DEF Walk

\* The barrier after a node: the threads go on with the next node.
LEMMA CrossNext ==
  ASSUME NEW g \in Seq(Nodes), NEW n \in Nat \ {0},
         NEW pos \in [0 .. n - 1 -> Positions], NEW new \in [0 .. n - 1 -> Positions],
         NEW ab \in Nat, NEW cc \in Nat, NEW dn, Walk(g, n, pos, ab, cc, dn), Segmented(g),
         \A u \in 0 .. n - 1 : pos[u].pc = "next" /\ new[u] = At("node", pos[u].node + 1, 0, 0)
  PROVE  Walk(g, n, new, ab, cc, dn)
<1>1. PICK k \in 1 .. Len(g) + 1, m \in 1 .. Len(g) + 1, h \in 0 .. 1 :
        Segment(g, n, pos, ab, cc, dn, k, m, h)
  BY DEF Walk
<1>2. ASSUME NEW u \in 0 .. n - 1
      PROVE  /\ ~ Halted(k, h, ab) /\ m < Len(g) /\ pos[u].node = m
             /\ Completes(g, m, h) /\ Exhausted(g, n, m, h, cc)
  <2>1. InSegment(g, n, pos[u], u, k, m, h, ab, cc)
    BY <1>1 DEF Segment
  <2> QED BY <2>1, SMTT(30) DEF InSegment
<1>3. 0 \in 0 .. n - 1
  OBVIOUS
<1>4. m + 1 \in 1 .. Len(g) + 1 /\ (ab = 0 \/ ab = m + 1)
  BY <1>1, <1>2, <1>3 DEF Segment
<1>5. \A u \in 0 .. n - 1 : Through(pos[u], m) /\ pos[u].pc # "part"
  BY <1>2 DEF Through
<1>6. Completes(g, m, h) /\ Exhausted(g, n, m, h, cc)
  BY <1>2, <1>3
<1>7. dn = {q \in AllParts(g, n) : q[1] <= m}
  BY <1>1, <1>5, <1>6, SegmentEnds, Zenon
<1>8. dn = PartsBefore(g, n, m + 1)
  <2>1. ASSUME NEW q \in AllParts(g, n)
        PROVE  q[1] <= m <=> q[1] < m + 1
    <3>1. PICK a \in 1 .. Len(g), b \in 0 .. 1, d \in Nat : q = <<a, b, d>> /\ IsPart(g, n, a, b, d)
      BY AllPartsShape, Zenon
    <3> QED BY <3>1
  <2> QED BY <1>7, <2>1 DEF PartsBefore
<1>9. \A u \in 0 .. n - 1 : new[u].pc = "node" /\ new[u].node = m + 1
  BY <1>2, SMTT(30) DEF At
<1>10. Walk(g, n, new, ab, cc, PartsBefore(g, n, m + 1))
  <2> DEFINE a == m + 1
  <2>1. a \in 1 .. Len(g) + 1 /\ (ab = 0 \/ ab = a)
    BY <1>4
  <2>2. Gathered(n, new, a)
    BY <1>9, Zenon DEF Gathered
  <2> HIDE DEF a
  <2>3. Walk(g, n, new, ab, cc, PartsBefore(g, n, a))
    BY <2>1, <2>2, SegmentBegins, Zenon
  <2> QED BY <2>3 DEF a
<1> QED BY <1>8, <1>10

\* The last barrier: the parts computed are those of the nodes up to some node.
LEMMA CrossDone ==
  ASSUME NEW g \in Seq(Nodes), NEW n \in Nat \ {0}, NEW pos \in [0 .. n - 1 -> Positions],
         NEW ab \in Nat, NEW cc \in Nat, NEW dn, Walk(g, n, pos, ab, cc, dn),
         \A u \in 0 .. n - 1 : pos[u].pc = "done"
  PROVE  WholeNodes(g, n, dn)
<1>1. PICK k \in 1 .. Len(g) + 1, m \in 1 .. Len(g) + 1, h \in 0 .. 1 :
        Segment(g, n, pos, ab, cc, dn, k, m, h)
  BY DEF Walk
<1>2. /\ Bounds(g, k, m, h)
      /\ \A u \in 0 .. n - 1 : InSegment(g, n, pos[u], u, k, m, h, ab, cc)
  BY <1>1 DEF Segment
<1>3. k <= m /\ (h = 1 => m <= Len(g)) /\ 0 \in 0 .. n - 1
  BY <1>2 DEF Bounds
<1>4. CASE Halted(k, h, ab) \/ m = Len(g) + 1
  <2>1. ASSUME NEW u \in 0 .. n - 1
        PROVE  h = 0 /\ ~ Through(pos[u], m)
    <3>1. h = 0
      BY <1>3, <1>4 DEF Halted
    <3>2. pos[u].node = k \/ pos[u].node = m
      BY <1>2, <1>4, SMTT(30) DEF InSegment, Halted, Completes
    <3> QED BY <1>3, <3>1, <3>2, SMTT(30) DEF Through
  <2>2. ASSUME NEW q \in AllParts(g, n)
        PROVE  IsDone(g, n, pos, k, m, h, cc, q) <=> q[1] <= k - 1
    <3>1. PICK a \in 1 .. Len(g), b \in 0 .. 1, d \in Nat : q = <<a, b, d>> /\ IsPart(g, n, a, b, d)
      BY AllPartsShape, Zenon
    <3>2. h = 0
      BY <1>3, <2>1, SMTT(30)
    <3>3. a = m /\ b = Phase(g, m, h) => ~ PartDone(n, pos, d, m, h, cc)
      <4> SUFFICES ASSUME a = m, b = Phase(g, m, h)
                   PROVE  ~ PartDone(n, pos, d, m, h, cc)
        OBVIOUS
      <4>1. d \in 0 .. n - 1
        BY <3>1, <3>2 DEF IsPart, Phase, Completes
      <4> QED BY <2>1, <3>2, <4>1 DEF PartDone
    <3> QED BY <3>1, <3>2, <3>3, SMTT(30) DEF IsDone
  <2>3. dn = {q \in AllParts(g, n) : q[1] <= k - 1}
    BY <1>1, <2>2 DEF Segment
  <2>4. k - 1 \in 0 .. Len(g)
    OBVIOUS
  <2>5. dn = PartsUpTo(g, n, k - 1)
    BY <2>3, <2>4, PrefixParts
  <2> QED BY <2>4, <2>5 DEF WholeNodes
<1>5. CASE ~ Halted(k, h, ab) /\ m # Len(g) + 1
  <2>1. ASSUME NEW u \in 0 .. n - 1
        PROVE  /\ m = Len(g) /\ Completes(g, m, h) /\ Exhausted(g, n, m, h, cc)
               /\ pos[u].node = m + 1
    <3>1. InSegment(g, n, pos[u], u, k, m, h, ab, cc) /\ pos[u].pc = "done"
      BY <1>2
    <3> QED BY <1>5, <3>1 DEF InSegment
  <2>2. Completes(g, m, h) /\ Exhausted(g, n, m, h, cc) /\ m \in 0 .. Len(g)
    BY <1>3, <2>1
  <2>3. \A u \in 0 .. n - 1 : Through(pos[u], m) /\ pos[u].pc # "part"
    BY <2>1 DEF Through
  <2>4. dn = {q \in AllParts(g, n) : q[1] <= m}
    BY <1>1, <2>2, <2>3, SegmentEnds, Zenon
  <2>5. dn = PartsUpTo(g, n, m)
    BY <2>2, <2>4, PrefixParts
  <2> QED BY <2>2, <2>5 DEF WholeNodes
<1> QED BY <1>4, <1>5

\* A graph begins with nothing computed and every thread before the first node.
LEMMA WalkBegins ==
  ASSUME NEW g \in Seq(Nodes), NEW n \in Nat \ {0}, NEW pos \in [0 .. n - 1 -> Positions],
         NEW cc \in Nat, Segmented(g), \A u \in 0 .. n - 1 : pos[u] = At("node", 1, 0, 0)
  PROVE  Walk(g, n, pos, 0, cc, {})
<1>1. 1 \in 1 .. Len(g) + 1
  OBVIOUS
<1>2. Gathered(n, pos, 1)
  BY DEF At, Gathered
<1>3. Walk(g, n, pos, 0, cc, PartsBefore(g, n, 1))
  BY <1>1, <1>2, SegmentBegins, Zenon
<1>4. PartsBefore(g, n, 1) = {}
  <2> SUFFICES ASSUME NEW q \in AllParts(g, n)
               PROVE  ~ (q[1] < 1)
    BY DEF PartsBefore
  <2>1. PICK a \in 1 .. Len(g), b \in 0 .. 1, d \in Nat : q = <<a, b, d>> /\ IsPart(g, n, a, b, d)
    BY AllPartsShape, Zenon
  <2> QED BY <2>1
<1> QED BY <1>3, <1>4, Zenon

\* Every thread has a chunk of its own in the node that it is at.
LEMMA PartNode ==
  ASSUME NEW g \in Seq(Nodes), NEW n \in Nat \ {0}, NEW pos \in [0 .. n - 1 -> Positions],
         NEW ab \in Nat, NEW cc \in Nat, NEW dn, Walk(g, n, pos, ab, cc, dn),
         NEW t \in 0 .. n - 1, pos[t].pc = "part"
  PROVE  t < NChunks(g[pos[t].node], n)
<1>1. PICK k \in 1 .. Len(g) + 1, m \in 1 .. Len(g) + 1, h \in 0 .. 1 :
        Segment(g, n, pos, ab, cc, dn, k, m, h)
  BY DEF Walk
<1>2. PartFacts(g, n, pos[t], t, k, m, h, ab, cc)
  BY <1>1, AtPart, Zenon
<1> QED BY <1>2 DEF PartFacts


\* The same for the chunks beyond the barrier.
LEMMA ChunksNode ==
  ASSUME NEW g \in Seq(Nodes), NEW n \in Nat \ {0}, NEW pos \in [0 .. n - 1 -> Positions],
         NEW ab \in Nat, NEW cc \in Nat, NEW dn, Walk(g, n, pos, ab, cc, dn),
         NEW t \in 0 .. n - 1, pos[t].pc = "chunks"
  PROVE  t < NChunks(g[pos[t].node], n)
<1>1. PICK k \in 1 .. Len(g) + 1, m \in 1 .. Len(g) + 1, h \in 0 .. 1 :
        Segment(g, n, pos, ab, cc, dn, k, m, h)
  BY DEF Walk
<1>2. InSegment(g, n, pos[t], t, k, m, h, ab, cc)
  BY <1>1 DEF Segment
<1>3. m <= Len(g) /\ pos[t].node = m
  BY <1>2 DEF InSegment
<1>4. g[m] \in Nodes
  BY <1>3
<1>5. NChunks(g[m], n) \in Nat /\ n <= NChunks(g[m], n)
  BY <1>4, ChunksType, Zenon
<1> QED BY <1>3, <1>5
==============================================================================
