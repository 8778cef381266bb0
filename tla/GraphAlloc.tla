----------------------------- MODULE GraphAlloc ------------------------------
(***************************************************************************)
(* The graph allocator of ggml (ggml_gallocr in src/ggml/src/ggml-alloc.c) *)
(* with one buffer type.  Tensors of a graph share memory when their       *)
(* lifetimes permit: ggml_gallocr_alloc_graph_impl walks the nodes in the  *)
(* order of their execution, places each, and frees the parents that are   *)
(* not read any more.                                                      *)
(*                                                                         *)
(* A graph is built tensor by tensor, then it is placed.  As the addresses *)
(* of a node and of all before it are final when the walk is at the node,  *)
(* the same step also executes the node, on `mem', the tensor whose value  *)
(* each byte holds; a leaf has its value from the start.  Afterwards the   *)
(* graph may be built again, with other sizes or sources, and is placed    *)
(* again or, if ggml_gallocr_needs_realloc finds that it fits, is given    *)
(* the addresses of the graph before.                                      *)
(*                                                                         *)
(* Left out: nodes flagged as inputs, the nodes of kind GGML_OP_NONE that  *)
(* the scheduler adds, and the reuse of the memory of a parent that is a   *)
(* view, for which ggml_gallocr_is_own is never true.                      *)
(***************************************************************************)
EXTENDS TallocOps, FiniteSets

CONSTANTS
  NLeafs, NTensors,  \* leafs, then nodes
  Sizes,             \* the sizes that a tensor may have, in bytes, by its position
  Outputs,           \* the positions at which an operation may be an output
  MaxSrc,            \* GGML_MAX_SRC
  OutputViews,       \* whether a view that other nodes read may be an output
  Rebuilt,           \* the lengths of the graphs that are built a second time
  Resized,           \* the sizes its tensors then have
  Rewired            \* whether an operation may then have other sources

ASSUME GraphAllocAssumption ==
  /\ NLeafs \in Nat /\ NTensors \in Nat /\ NLeafs <= NTensors
  /\ Sizes \in [1 .. NTensors -> SUBSET (Nat \ {0})] /\ Outputs \subseteq Nat
  /\ MaxSrc \in Nat \ {0} /\ OutputViews \in BOOLEAN
  /\ Rebuilt \subseteq Nat /\ Resized \subseteq Nat \ {0} /\ Rewired \in BOOLEAN

VARIABLES
  graph,   \* the tensors: leafs, then nodes in the order of execution
  next,    \* the tensor to be placed next, 0 while the graph is built
  chunks,  \* the allocator (TallocOps)
  hash,    \* hash_values: n_children, n_views, allocated, addr
  mem,     \* for every address <<chunk, offset>> in use, the tensor last written there
  placed,  \* the graph that was placed last, whose sizes node_allocs holds
  reused   \* whether the addresses of that graph are used for the present one

vars == <<graph, next, chunks, hash, mem, placed, reused>>

Tensors == DOMAIN graph
IsView(t) == graph[t].kind = "view"
\* a leaf with data of its own, as a weight
IsExternal(t) == graph[t].kind = "weight"
\* view_src, or the tensor itself
Root(t) == graph[t].root
Sources(t) == {graph[t].src[j] : j \in DOMAIN graph[t].src}

NoAddress == [chunk |-> 0, offset |-> 0]
Bytes(addr, size) == {<<addr.chunk, addr.offset + k>> : k \in 0 .. size - 1}
BytesOf(h, t) == Bytes(h[t].addr, graph[t].size)

Init ==
  /\ graph = <<>> /\ next = 0 /\ chunks = <<>> /\ hash = <<>>
  /\ mem = [a \in {} |-> 0]
  /\ placed = <<>> /\ reused = FALSE

-----------------------------------------------------------------------------
(* The graph                                                                *)

Tensor(kind, src, size, root, output) ==
  [kind |-> kind, src |-> src, size |-> size, root |-> root, output |-> output]

Building == next = 0 /\ placed = <<>> /\ Len(graph) < NTensors

AddLeaf ==
  /\ Building /\ Len(graph) < NLeafs
  /\ \E size \in Sizes[Len(graph) + 1], kind \in {"leaf", "weight"} :
       graph' = Append(graph, Tensor(kind, <<>>, size, Len(graph) + 1, FALSE))
  /\ UNCHANGED <<next, chunks, hash, mem, placed, reused>>

\* an operation; one that can be done in place has the layout of its first source
AddOp ==
  /\ Building /\ Len(graph) >= NLeafs
  /\ \E n \in 1 .. MaxSrc : \E src \in [1 .. n -> Tensors] :
     \E inplace, output \in BOOLEAN, size \in Sizes[Len(graph) + 1] :
       /\ inplace => size = graph[src[1]].size
       /\ output => Len(graph) + 1 \in Outputs
       /\ Len(graph) + 1 = NTensors => output
       /\ graph' = Append(graph, Tensor(IF inplace THEN "inplace" ELSE "op", src, size,
                                        Len(graph) + 1, output))
  /\ UNCHANGED <<next, chunks, hash, mem, placed, reused>>

\* a view of a tensor is one of the tensor's view_src
AddView ==
  /\ Building /\ Len(graph) >= NLeafs
  /\ \E t \in Tensors, output \in BOOLEAN :
       graph' = Append(graph, Tensor("view", <<t>>, graph[t].size, Root(t), output))
  /\ UNCHANGED <<next, chunks, hash, mem, placed, reused>>

\* the graph for another number of tokens, or with an operation that reads other tensors
Rebuilds ==
  {[t \in Tensors |-> [graph[t] EXCEPT !.size = size]] : size \in Resized} \cup
  UNION {{[graph EXCEPT ![t].src = src] : src \in [DOMAIN graph[t].src -> 1 .. t - 1]} :
           t \in {u \in Tensors : Rewired /\ graph[u].kind = "op"}}

\* the graph was executed, and the caller builds it again
Rebuild ==
  /\ next = Len(graph) + 1 /\ Len(graph) \in Rebuilt /\ placed = graph /\ ~ reused
  /\ graph' \in Rebuilds
  /\ next' = 0
  /\ UNCHANGED <<chunks, hash, mem, placed, reused>>

-----------------------------------------------------------------------------
(* Operations on the state [chunks, hash] of the allocator                  *)

Own(st, t) == st.hash[t].allocated

\* ggml_dyn_tallocr_alloc for tensor t
PlaceAt(st, t, at, size) ==
  LET cs == WithChunk(st.chunks, at[1], size)
  IN  [chunks |-> [cs EXCEPT ![at[1]] = TakeFrom(@, at[2], size)],
       hash   |-> [st.hash EXCEPT ![t].allocated = TRUE,
                     ![t].addr = [chunk  |-> at[1],
                                  offset |-> cs[at[1]].free[at[2]].offset]]]

Place(st, t) ==
  PlaceAt(st, t, FindBlock(st.chunks, Padded(graph[t].size)), Padded(graph[t].size))

\* a mutant of Reusable: the views of the parent are not looked at
ReusableViewed(st, t, p) ==
  /\ graph[t].kind = "inplace"
  /\ Own(st, p)
  /\ ~ graph[p].output /\ ~ graph[Root(p)].output
  /\ graph[p].size = graph[t].size
  /\ st.hash[p].n_children = 1

\* a parent whose memory the node may take over
Reusable(st, t, p) ==
  /\ graph[t].kind = "inplace"
  /\ Own(st, p)
  /\ ~ graph[p].output /\ ~ graph[Root(p)].output
  /\ graph[p].size = graph[t].size
  /\ st.hash[p].n_children = 1 /\ st.hash[p].n_views = 0

Inherit(st, t, p) ==
  [st EXCEPT !.hash[t].allocated = TRUE, !.hash[t].addr = st.hash[p].addr,
             !.hash[p].allocated = FALSE]

\* ggml_gallocr_allocate_node
AllocateNode(st, t) ==
  LET js == {j \in DOMAIN graph[t].src : Reusable(st, t, graph[t].src[j])} IN
  IF IsExternal(t) \/ Own(st, t) \/ IsView(t) THEN st
  ELSE IF js # {} THEN Inherit(st, t, graph[t].src[Min(js)])
  ELSE Place(st, t)

\* ggml_gallocr_free_node: "graph outputs are never freed"
FreeNode(st, t) ==
  IF graph[t].output THEN st
  ELSE [chunks |-> FreeBytes(st.chunks, st.hash[t].addr, graph[t].size),
        hash   |-> [st.hash EXCEPT ![t].allocated = FALSE]]

\* a tensor that no node and no view needs any more
Unused(st, t) == st.hash[t].n_children = 0 /\ st.hash[t].n_views = 0

FreeIfUnused(st, t) == IF Unused(st, t) /\ Own(st, t) THEN FreeNode(st, t) ELSE st

\* a mutant of ViewEnds: the last view does not free its source
ViewEndsKept(st, p) == [st EXCEPT !.hash[Root(p)].n_views = @ - 1]

ViewEnds(st, p) ==
  FreeIfUnused([st EXCEPT !.hash[Root(p)].n_views = @ - 1], Root(p))

ParentRead(st, p) ==
  IF IsView(p) THEN IF Unused(st, p) THEN ViewEnds(st, p) ELSE st
  ELSE FreeIfUnused(st, p)

\* "update parents", for one parent
UpdateParent(st, p) == ParentRead([st EXCEPT !.hash[p].n_children = @ - 1], p)

AllocateParents(st, t) == FoldLeft(AllocateNode, st, graph[t].src)
UpdateParents(st, t) == FoldLeft(UpdateParent, st, graph[t].src)

-----------------------------------------------------------------------------
(* The walk                                                                 *)

Occurrences(t) ==
  Cardinality({<<n, j>> \in Tensors \X (1 .. MaxSrc) :
                 j \in DOMAIN graph[n].src /\ graph[n].src[j] = t})
ViewsOf(t) == Cardinality({n \in Tensors : IsView(n) /\ Root(n) = t})

Fresh ==
  [chunks |-> <<>>,
   hash   |-> [t \in Tensors |-> [n_children |-> 0, n_views |-> 0, allocated |-> FALSE,
                                  addr |-> NoAddress]]]

\* n_children and n_views
Counted(st) ==
  [st EXCEPT !.hash = [t \in Tensors |-> [st.hash[t] EXCEPT !.n_children = Occurrences(t),
                                                            !.n_views = ViewsOf(t)]]]

Written(m, bytes, t) == [a \in DOMAIN m \cup bytes |-> IF a \in bytes THEN t ELSE m[a]]

OwnLeafs == SelectSeq([k \in 1 .. NLeafs |-> k], LAMBDA t : ~ IsExternal(t))

\* a consumed view may be an output only if OutputViews says so
OutputsAllowed ==
  \A t \in Tensors :
    IsView(t) /\ graph[t].output => OutputViews \/ \A n \in Tensors : t \notin Sources(n)

\* ggml_gallocr_node_needs_realloc, which tells whether tensor x fits where y was
Fits(x, y) ==
  x.kind \notin {"view", "weight"} => y.kind \notin {"view", "weight"} /\ y.size >= x.size

\* ggml_gallocr_needs_realloc
NeedsRealloc ==
  Len(placed) = Len(graph) => \E t \in NLeafs + 1 .. Len(graph) :
    \/ ~ Fits(graph[t], placed[t])
    \/ \E j \in DOMAIN graph[t].src :
         LET src == graph[graph[t].src[j]] IN
         IF j \in DOMAIN placed[t].src THEN ~ Fits(src, placed[placed[t].src[j]])
         ELSE src.kind \notin {"view", "weight"}

\* the graph is complete, and ggml_gallocr_alloc_graph is called
Complete ==
  /\ next = 0 /\ Len(graph) \in {NTensors} \cup Rebuilt
  /\ OutputsAllowed

LeafsWritten(h) == FoldLeft(LAMBDA m, t : Written(m, BytesOf(h, t), t), mem, OwnLeafs)

\* the allocator is reset, the leafs are placed, the children and views are counted
Begin ==
  /\ Complete /\ NeedsRealloc
  /\ \E st \in {Counted(FoldLeft(AllocateNode, Fresh, [k \in 1 .. NLeafs |-> k]))} :
       chunks' = st.chunks /\ hash' = st.hash /\ mem' = LeafsWritten(st.hash)
  /\ next' = NLeafs + 1
  /\ placed' = graph
  /\ UNCHANGED <<graph, reused>>

\* "allocate the graph tensors from the previous assignments"
Reuse ==
  /\ Complete /\ ~ NeedsRealloc
  /\ mem' = LeafsWritten(hash)
  /\ next' = NLeafs + 1
  /\ reused' = TRUE
  /\ UNCHANGED <<graph, chunks, hash, placed>>

\* a node is placed and executed, and its parents are updated
PlaceNode ==
  /\ next # 0 /\ next <= Len(graph) /\ ~ reused
  /\ \E st \in {AllocateNode(AllocateParents([chunks |-> chunks, hash |-> hash], next), next)} :
       /\ mem' = IF IsView(next) THEN mem ELSE Written(mem, BytesOf(st.hash, next), next)
       /\ \E up \in {UpdateParents(st, next)} : chunks' = up.chunks /\ hash' = up.hash
  /\ next' = next + 1
  /\ UNCHANGED <<graph, placed, reused>>

\* a node is executed at the address it was given
RunNode ==
  /\ next # 0 /\ next <= Len(graph) /\ reused
  /\ mem' = IF IsView(next) THEN mem ELSE Written(mem, BytesOf(hash, next), next)
  /\ next' = next + 1
  /\ UNCHANGED <<graph, chunks, hash, placed, reused>>

Next == AddLeaf \/ AddOp \/ AddView \/ Rebuild \/ Begin \/ Reuse \/ PlaceNode \/ RunNode

Spec == Init /\ [][Next]_vars

-----------------------------------------------------------------------------
(* Properties                                                               *)

\* the tensors with memory that holds their value at some time
Computed == {t \in Tensors : t < next /\ ~ IsView(t) /\ ~ IsExternal(t)}

\* t, or a view of it, is read by the node to be executed next or later, or is an output
StillNeeded(t) ==
  \/ \E n \in next .. Len(graph) : \E s \in Sources(n) : Root(s) = t
  \/ \E v \in Tensors : Root(v) = t /\ graph[v].output

\* Sharing memory is invisible: whatever a later node reads and whatever the caller reads
\* in the end lies in the buffer and is still what was computed, in spite of reuse in
\* place, views and freed blocks that were joined and handed out again, and also when a
\* graph with other sizes is given the addresses of the one before.
NothingClobbered ==
  next # 0 => \A t \in Computed :
    /\ hash[t].addr.offset + graph[t].size <= chunks[hash[t].addr.chunk].max
    /\ StillNeeded(t) => \A a \in BytesOf(hash, t) : mem[a] = t

\* the tensors that hold memory of the allocator
Held == {t \in Tensors : hash[t].allocated}
HeldBlocks(c) == {Block(hash[t].addr.offset, Padded(placed[t].size)) :
                    t \in {u \in Held : hash[u].addr.chunk = c}}
FreeBlocks(c) == ToSet(chunks[c].free)

\* The free blocks of a chunk are in order and never touch (or best fit would miss
\* space), and together with the tensors they make up the chunk: nothing is lost and
\* nothing is handed out twice.
FreeListExact ==
  next # 0 => \A c \in DOMAIN chunks :
    /\ \A i \in 1 .. Len(chunks[c].free) - 1 : End(chunks[c].free[i]) < chunks[c].free[i + 1].offset
    /\ \A b \in HeldBlocks(c), d \in FreeBlocks(c) : End(b) <= d.offset \/ End(d) <= b.offset
    /\ \A t, u \in Held : t # u /\ hash[t].addr.chunk = c /\ hash[u].addr.chunk = c =>
         \/ hash[t].addr.offset + Padded(placed[t].size) <= hash[u].addr.offset
         \/ hash[u].addr.offset + Padded(placed[u].size) <= hash[t].addr.offset
    /\ \A b \in HeldBlocks(c) \cup FreeBlocks(c) :
         b.offset = 0 \/ \E d \in HeldBlocks(c) \cup FreeBlocks(c) : End(d) = b.offset

\* a tensor is kept when it is an output, or when it, or a view of it, is never read
NeverReleased(t) ==
  \/ graph[t].output
  \/ \A n \in Tensors : t \notin Sources(n)
  \/ \E v \in Tensors : IsView(v) /\ Root(v) = t /\ \A n \in Tensors : v \notin Sources(n)

\* At the end of the walk only such tensors still hold memory: every other was freed or
\* taken over, whichever of its children and views came last.
AllReleased == next = Len(graph) + 1 => \A t \in Held : NeverReleased(t)
==============================================================================
