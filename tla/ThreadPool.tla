----------------------------- MODULE ThreadPool ------------------------------
(***************************************************************************)
(* The thread pool of the CPU backend (src/ggml/src/ggml-cpu/ggml-cpu.c,   *)
(* built without OpenMP): thread 0, which calls ggml_graph_compute, and    *)
(* the workers 1 .. NThreads - 1, which poll for work, sleep on a          *)
(* condition variable, or are paused.  The threads of a graph meet in      *)
(* ggml_barrier, of which every access to a shared counter is a step.      *)
(*                                                                         *)
(* Memory is sequentially consistent: the fences of the code are not       *)
(* modelled.  What the code does under the mutex is one step.  A node is   *)
(* computed in parts (GraphPlan); `done' records those computed.  `ec' is  *)
(* GGML_STATUS_ABORTED where abort is not 0.                               *)
(***************************************************************************)
EXTENDS GraphPlan

CONSTANTS
  NThreads,    \* threadpool->n_threads
  PlanThreads, \* the cplan->n_threads asked for
  MaxGraphs    \* bound on the calls of ggml_graph_compute

ASSUME PoolAssumption ==
  /\ NThreads \in Nat \ {0}
  /\ PlanThreads \subseteq Nat \ {0}
  /\ MaxGraphs \in Nat

VARIABLES
  n_graph,          \* [count, nth]: the graphs started and the threads of the last
  n_barrier, n_barrier_passed,
  current_chunk,
  stop, pause,
  abort,            \* the node before which to stop, 0 for none
  cgraph,
  th,               \* the threads
  done              \* the parts of cgraph computed

shared == <<n_graph, n_barrier, n_barrier_passed, current_chunk, stop, pause, abort, cgraph>>
vars == <<shared, th, done>>

Threads == 0 .. NThreads - 1
Workers == Threads \ {0}

\* node, half, cur: the part a thread is at; nth: params.nth; np and nb: the
\* n_passed and n_threads of the barrier it is in, ret: what follows that barrier
Idle(pc, last) ==
  [pc |-> pc, last_graph |-> last, pending |-> FALSE, graph |-> <<>>, nth |-> 1,
   node |-> 0, half |-> 0, cur |-> 0, np |-> 0, nb |-> 0, ret |-> "none"]

NoGraph == [count |-> 0, nth |-> 0]

Init ==
  /\ n_graph = NoGraph
  /\ n_barrier = 0 /\ n_barrier_passed = 0 /\ current_chunk = 0
  /\ stop = FALSE /\ pause \in BOOLEAN
  /\ abort = 0
  /\ cgraph = <<>>
  /\ th = [t \in Threads |-> Idle(IF t = 0 THEN "idle" ELSE "top", NoGraph)]
  /\ done = {}

Moves(t, new) == th' = [th EXCEPT ![t] = new]
Goto(t, p) == th' = [th EXCEPT ![t].pc = p]

-----------------------------------------------------------------------------
(* The workers between graphs                                               *)

\* the pc of a worker once ggml_cond_broadcast has woken it
Awake(pc) == CASE pc = "wait"      -> "mutex"
               [] pc = "pausewait" -> "top"
               [] OTHER            -> pc

Broadcast(ts) == [t \in Threads |-> [ts[t] EXCEPT !.pc = Awake(@)]]

\* while (threadpool->pause), then if (threadpool->stop)
Top(t) ==
  /\ th[t].pc = "top"
  /\ Goto(t, IF pause THEN "pauselock" ELSE "stopcheck")
  /\ UNCHANGED <<shared, done>>

PauseLock(t) ==
  /\ th[t].pc = "pauselock"
  /\ Goto(t, IF pause THEN "pausewait" ELSE "top")
  /\ UNCHANGED <<shared, done>>

StopCheck(t) ==
  /\ th[t].pc = "stopcheck"
  /\ Goto(t, IF stop THEN "exit" ELSE "poll")
  /\ UNCHANGED <<shared, done>>

\* ggml_graph_compute_thread_ready
Ready(t) == th[t].pending \/ stop \/ pause \/ n_graph # th[t].last_graph

AfterReady(t) ==
  IF th[t].pending \/ stop \/ pause \/ n_graph = th[t].last_graph
    THEN th[t]
    ELSE [th[t] EXCEPT !.pending = t < n_graph.nth, !.last_graph = n_graph]

\* ggml_graph_compute_poll_for_work: it ends with work, or otherwise at some point
Poll(t) ==
  /\ th[t].pc = "poll"
  /\ \E s \in {AfterReady(t)} :
       Moves(t, [s EXCEPT !.pc = IF Ready(t) /\ s.pending THEN "take" ELSE "mutex"])
  /\ UNCHANGED <<shared, done>>

\* ggml_graph_compute_check_for_work, under the mutex
CheckForWork(t) ==
  /\ th[t].pc = "mutex"
  /\ \E s \in {AfterReady(t)} :
       Moves(t, IF ~ Ready(t) THEN [th[t] EXCEPT !.pc = "wait"]
                ELSE [s EXCEPT !.pc = IF s.pending THEN "take" ELSE "top"])
  /\ UNCHANGED <<shared, done>>

\* what ggml_graph_compute_thread reads at its start
Started(t, s) ==
  [s EXCEPT !.pc = "node", !.node = 1, !.graph = cgraph, !.nth = n_graph.nth]

Take(t) ==
  /\ th[t].pc = "take"
  /\ Moves(t, [Started(t, th[t]) EXCEPT !.pending = FALSE])
  /\ UNCHANGED <<shared, done>>

-----------------------------------------------------------------------------
(* Thread 0: the calls of the backend                                       *)

\* ggml_graph_compute: "Reset some of the parameters that need resetting"
GraphCompute ==
  /\ th[0].pc = "idle"
  /\ n_graph.count < MaxGraphs
  /\ cgraph' \in Graphs
  /\ \E n \in PlanThreads : Moves(0, [th[0] EXCEPT !.pc = "kickoff", !.nth = n])
  /\ current_chunk' = 0
  /\ abort' = 0
  /\ done' = {}
  /\ UNCHANGED <<n_graph, n_barrier, n_barrier_passed, stop, pause>>

\* n_threads, no more than there are
Clamped(n) == IF n > NThreads THEN NThreads ELSE n

\* a mutant of Kickoff: the sleeping workers are not woken
KickoffSilent ==
  /\ th[0].pc = "kickoff"
  /\ n_graph' = [count |-> n_graph.count + 1, nth |-> Clamped(th[0].nth)]
  /\ pause' = FALSE
  /\ th' = [th EXCEPT ![0] =
              [th[0] EXCEPT !.pc = "node", !.node = 1, !.graph = cgraph, !.nth = Clamped(@)]]
  /\ UNCHANGED <<n_barrier, n_barrier_passed, current_chunk, stop, abort, cgraph, done>>

\* ggml_graph_compute_kickoff
Kickoff ==
  /\ th[0].pc = "kickoff"
  /\ n_graph' = [count |-> n_graph.count + 1, nth |-> Clamped(th[0].nth)]
  /\ pause' = FALSE
  /\ th' = [Broadcast(th) EXCEPT ![0] =
              [th[0] EXCEPT !.pc = "node", !.node = 1, !.graph = cgraph, !.nth = Clamped(@)]]
  /\ UNCHANGED <<n_barrier, n_barrier_passed, current_chunk, stop, abort, cgraph, done>>

\* ggml_threadpool_pause and ggml_threadpool_resume
SetPause(p) ==
  /\ th[0].pc = "idle"
  /\ pause # p
  /\ pause' = p
  /\ th' = Broadcast(th)
  /\ UNCHANGED <<n_graph, n_barrier, n_barrier_passed, current_chunk, stop, abort, cgraph, done>>

\* a mutant of Free: a paused pool stays paused
FreePaused ==
  /\ th[0].pc = "idle"
  /\ stop' = TRUE
  /\ th' = [Broadcast(th) EXCEPT ![0].pc = "join"]
  /\ UNCHANGED <<n_graph, n_barrier, n_barrier_passed, current_chunk, pause, abort, cgraph, done>>

\* ggml_threadpool_free
Free ==
  /\ th[0].pc = "idle"
  /\ stop' = TRUE
  /\ pause' = FALSE
  /\ th' = [Broadcast(th) EXCEPT ![0].pc = "join"]
  /\ UNCHANGED <<n_graph, n_barrier, n_barrier_passed, current_chunk, abort, cgraph, done>>

Freed ==
  /\ th[0].pc = "join"
  /\ \A t \in Workers : th[t].pc = "exit"
  /\ Goto(0, "freed")
  /\ UNCHANGED <<shared, done>>

-----------------------------------------------------------------------------
(* ggml_barrier                                                             *)

Barrier(s, ret) == [s EXCEPT !.pc = "barrier", !.ret = ret]

\* what a thread does once it is past the barrier
Past(t, s) ==
  CASE s.ret = "chunks" -> [s EXCEPT !.pc = IF t < NChunks(s.graph[s.node], s.nth)
                                              THEN "part" ELSE "opdone",
                                     !.half = 1, !.cur = t, !.np = 0, !.nb = 0, !.ret = "none"]
    [] s.ret = "next"   -> [s EXCEPT !.pc = "node", !.node = @ + 1, !.half = 0, !.cur = 0,
                                     !.np = 0, !.nb = 0, !.ret = "none"]
    [] OTHER            -> Idle(IF t = 0 THEN "idle" ELSE "top", s.last_graph)

BarrierRead(t) ==
  /\ th[t].pc = "barrier"
  /\ Moves(t, IF n_graph.nth = 1 THEN Past(t, th[t])
              ELSE [th[t] EXCEPT !.pc = "arrive", !.nb = n_graph.nth, !.np = n_barrier_passed])
  /\ UNCHANGED <<shared, done>>

BarrierArrive(t) ==
  /\ th[t].pc = "arrive"
  /\ n_barrier' = n_barrier + 1
  /\ Goto(t, IF n_barrier = th[t].nb - 1 THEN "reset" ELSE "spin")
  /\ UNCHANGED <<n_graph, n_barrier_passed, current_chunk, stop, pause, abort, cgraph, done>>

\* the last thread resets n_barrier ...
BarrierReset(t) ==
  /\ th[t].pc = "reset"
  /\ n_barrier' = 0
  /\ Goto(t, "pass")
  /\ UNCHANGED <<n_graph, n_barrier_passed, current_chunk, stop, pause, abort, cgraph, done>>

\* ... and then lets the others go
BarrierPass(t) ==
  /\ th[t].pc = "pass"
  /\ n_barrier_passed' = n_barrier_passed + 1
  /\ Moves(t, Past(t, th[t]))
  /\ UNCHANGED <<n_graph, n_barrier, current_chunk, stop, pause, abort, cgraph, done>>

BarrierSpin(t) ==
  /\ th[t].pc = "spin"
  /\ n_barrier_passed # th[t].np
  /\ Moves(t, Past(t, th[t]))
  /\ UNCHANGED <<shared, done>>

-----------------------------------------------------------------------------
(* ggml_graph_compute_thread                                                *)

\* a mutant of Node: no barrier after the last node
NodeNoBarrier(t) ==
  LET s == th[t] IN
  /\ s.pc = "node"
  /\ Moves(t,
       IF s.node > Len(s.graph) \/ abort = s.node
         THEN Idle(IF t = 0 THEN "idle" ELSE "top", s.last_graph)
       ELSE CASE s.graph[s.node].kind = "nop" -> [s EXCEPT !.node = @ + 1]
              [] s.graph[s.node].kind = "split" -> [s EXCEPT !.pc = "part", !.half = 1, !.cur = t]
              [] OTHER -> [s EXCEPT !.pc = "part", !.half = 0, !.cur = t])
  /\ UNCHANGED <<shared, done>>

\* a mutant of Node: an abort is seen before any node, not before the one it names
NodeAborts(t) ==
  LET s == th[t] IN
  /\ s.pc = "node"
  /\ Moves(t,
       IF s.node > Len(s.graph) \/ abort # 0 THEN Barrier(s, "done")
       ELSE CASE s.graph[s.node].kind = "nop" -> [s EXCEPT !.node = @ + 1]
              [] s.graph[s.node].kind = "split" -> [s EXCEPT !.pc = "part", !.half = 1, !.cur = t]
              [] OTHER -> [s EXCEPT !.pc = "part", !.half = 0, !.cur = t])
  /\ UNCHANGED <<shared, done>>

\* the loop over the nodes
Node(t) ==
  LET s == th[t] IN
  /\ s.pc = "node"
  /\ Moves(t,
       IF s.node > Len(s.graph) \/ abort = s.node THEN Barrier(s, "done")
       ELSE CASE s.graph[s.node].kind = "nop" -> [s EXCEPT !.node = @ + 1]
              [] s.graph[s.node].kind = "split" -> [s EXCEPT !.pc = "part", !.half = 1, !.cur = t]
              [] OTHER -> [s EXCEPT !.pc = "part", !.half = 0, !.cur = t])
  /\ UNCHANGED <<shared, done>>

\* a part is computed; then comes the barrier of mul_mat or the next chunk
Part(t) ==
  LET s == th[t] IN
  /\ s.pc = "part"
  /\ done' = done \cup {<<s.node, s.half, s.cur>>}
  /\ Moves(t,
       CASE s.half = 0 /\ t = 0                        -> [s EXCEPT !.pc = "setchunk"]
         [] s.half = 0 /\ t # 0                        -> Barrier(s, "chunks")
         [] s.half = 1 /\ NChunks(s.graph[s.node], s.nth) <= s.nth -> [s EXCEPT !.pc = "opdone"]
         [] OTHER                                      -> [s EXCEPT !.pc = "fetch"])
  /\ UNCHANGED shared

\* a mutant of SetChunk: the first unprocessed chunk is 0
SetChunkZero ==
  /\ th[0].pc = "setchunk"
  /\ current_chunk' = 0
  /\ Moves(0, Barrier(th[0], "chunks"))
  /\ UNCHANGED <<n_graph, n_barrier, n_barrier_passed, stop, pause, abort, cgraph, done>>

\* "the first unprocessed chunk is nth"
SetChunk ==
  /\ th[0].pc = "setchunk"
  /\ current_chunk' = th[0].nth
  /\ Moves(0, Barrier(th[0], "chunks"))
  /\ UNCHANGED <<n_graph, n_barrier, n_barrier_passed, stop, pause, abort, cgraph, done>>

FetchChunk(t) ==
  LET s == th[t] IN
  /\ s.pc = "fetch"
  /\ current_chunk' = current_chunk + 1
  /\ Moves(t, [s EXCEPT !.pc = IF current_chunk < NChunks(s.graph[s.node], s.nth)
                                 THEN "part" ELSE "opdone",
                        !.cur = current_chunk])
  /\ UNCHANGED <<n_graph, n_barrier, n_barrier_passed, stop, pause, abort, cgraph, done>>

\* after a node: the abort callback, and the barrier before the next node
OpDone(t) ==
  LET s == th[t] IN
  /\ s.pc = "opdone"
  /\ \/ UNCHANGED abort
     \/ t = 0 /\ abort' = s.node + 1
  /\ Moves(t, IF s.node < Len(s.graph) THEN Barrier(s, "next")
              ELSE [s EXCEPT !.pc = "node", !.node = @ + 1, !.half = 0, !.cur = 0])
  /\ UNCHANGED <<n_graph, n_barrier, n_barrier_passed, current_chunk, stop, pause, cgraph, done>>

-----------------------------------------------------------------------------
BarrierStep(t) ==
  BarrierRead(t) \/ BarrierArrive(t) \/ BarrierReset(t) \/ BarrierPass(t) \/ BarrierSpin(t)

GraphStep(t) == Node(t) \/ Part(t) \/ FetchChunk(t) \/ OpDone(t) \/ BarrierStep(t)

WorkerStep(t) ==
  Top(t) \/ PauseLock(t) \/ StopCheck(t) \/ Poll(t) \/ CheckForWork(t) \/ Take(t) \/ GraphStep(t)

MainStep == Kickoff \/ SetChunk \/ GraphStep(0) \/ Freed

Next ==
  \/ GraphCompute \/ (\E p \in BOOLEAN : SetPause(p)) \/ Free \/ MainStep
  \/ \E t \in Workers : WorkerStep(t)

\* Every thread is scheduled; the owner of the pool need not call anything.
Fairness == WF_vars(MainStep) /\ \A t \in Workers : WF_vars(WorkerStep(t))

Spec == Init /\ [][Next]_vars /\ Fairness

-----------------------------------------------------------------------------
(* Properties                                                               *)

AtWork == {"node", "part", "setchunk", "fetch", "opdone", "barrier", "arrive", "reset", "pass",
           "spin"}

Doing(t) == <<th[t].node, th[t].half, th[t].cur>>

\* No part of a node is computed twice or by two threads, although current_chunk is
\* shared by the nodes and reset by thread 0 alone.
EachPartOnce ==
  \A t \in Threads : th[t].pc = "part" =>
    /\ Doing(t) \notin done
    /\ \A u \in Threads \ {t} : th[u].pc = "part" => Doing(u) # Doing(t)

\* "No worker threads should be accessing the parameters below at this stage": when
\* thread 0 is outside a graph, the workers are too, up to leaving its last barrier.
WorkersOutOfGraph ==
  th[0].pc \in {"idle", "kickoff"} =>
    \A t \in Workers : th[t].pc \in AtWork => th[t].pc = "spin" /\ th[t].ret = "done"

\* The pool keeps the promise of GraphExec.
Exec == INSTANCE GraphExec WITH
  MaxNth <- NThreads,
  busy   <- th[0].pc \notin {"idle", "join", "freed"},
  graph  <- cgraph,
  nth    <- IF th[0].pc = "kickoff" THEN Clamped(th[0].nth) ELSE n_graph.nth,
  done   <- done
ImplementsGraphExec == Exec!ExecSpec

\* ggml_graph_compute returns: no thread is lost in a pause, a sleep or a barrier.
ComputeReturns == (th[0].pc = "kickoff") ~> (th[0].pc = "idle")

\* ggml_threadpool_free returns: every worker sees `stop', wherever it was.
FreeReturns == (th[0].pc = "join") ~> (th[0].pc = "freed")
==============================================================================
