------------------------------ MODULE GraphExec ------------------------------
(***************************************************************************)
(* What ggml_graph_compute promises its caller, without threads: the parts *)
(* of a graph are computed once each, one node after the other, and the    *)
(* call returns when all are, or, if the abort callback asked for it, when *)
(* all parts of the nodes up to some node are and no other part is.        *)
(***************************************************************************)
EXTENDS GraphPlan

CONSTANT MaxNth   \* the threads of the pool

VARIABLES
  busy,   \* whether a call is in progress
  graph,  \* the graph of the last call
  nth,    \* the number of threads it is cut for
  done    \* the parts computed in the last call

execVars == <<busy, graph, nth, done>>

ExecInit == busy = FALSE /\ graph = <<>> /\ nth = 0 /\ done = {}

Begin ==
  /\ ~ busy
  /\ busy' = TRUE
  /\ graph' \in Graphs
  /\ nth' \in 1 .. MaxNth
  /\ done' = {}

Compute(p) ==
  /\ busy
  /\ p \notin done
  /\ {q \in AllParts(graph, nth) : Precedes(q, p)} \subseteq done
  /\ done' = done \cup {p}
  /\ UNCHANGED <<busy, graph, nth>>

Return ==
  /\ busy
  /\ \E n \in 0 .. Len(graph) : done = PartsUpTo(graph, nth, n)
  /\ busy' = FALSE
  /\ UNCHANGED <<graph, nth, done>>

ExecNext == Begin \/ (\E p \in AllParts(graph, nth) : Compute(p)) \/ Return

ExecSpec == ExecInit /\ [][ExecNext]_execVars
==============================================================================
