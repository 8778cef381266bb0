----------------------------- MODULE MCThreadPool ----------------------------
(* An instance of ThreadPool for TLC.                                       *)
EXTENDS ThreadPool

MCNode(k, c) == [kind |-> k, chunks |-> c]

\* two operations with a node to skip between them, a mul_mat whose chunks are one per
\* thread or, with one or two threads, are handed out
MCGraphs == {<<MCNode("split", 0), MCNode("nop", 0), MCNode("split", 0)>>,
             <<MCNode("mul_mat", 8), MCNode("mul_mat", 2)>>}
==============================================================================
