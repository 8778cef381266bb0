------------------------------ MODULE GraphPlan ------------------------------
(***************************************************************************)
(* How the nodes of a compute graph are cut into parts for the threads of  *)
(* the CPU backend (src/ggml/src/ggml-cpu/ggml-cpu.c).                     *)
(*                                                                         *)
(* A node is a record [kind, chunks].  A "nop" is skipped, an operation of *)
(* kind "split" has a part for every thread, and a "mul_mat" first         *)
(* converts its second operand, again with a part for every thread, and is *)
(* then computed in chunks that the threads take as they become free.      *)
(* A part is <<node, phase, number>>.                                      *)
(***************************************************************************)
EXTENDS Naturals, Sequences

CONSTANT Graphs   \* the graphs: sequences of nodes

NodeKinds == {"nop", "split", "mul_mat"}

ASSUME GraphsAssumption == Graphs \subseteq Seq([kind : NodeKinds, chunks : Nat])

\* the number of chunks of a mul_mat: too few of them are replaced by one per thread
NChunks(node, nth) ==
  IF node.kind = "mul_mat" /\ node.chunks >= nth * 4 THEN node.chunks ELSE nth

\* the parts of node k of graph g, for nth threads
PartsOf(g, nth, k) ==
  CASE g[k].kind = "nop"   -> {}
    [] g[k].kind = "split" -> {<<k, 1, i>> : i \in 0 .. nth - 1}
    [] OTHER               -> {<<k, 0, i>> : i \in 0 .. nth - 1}
                              \cup {<<k, 1, i>> : i \in 0 .. NChunks(g[k], nth) - 1}

\* the parts of the first n nodes of graph g
PartsUpTo(g, nth, n) == UNION {PartsOf(g, nth, k) : k \in 1 .. n}
AllParts(g, nth) == PartsUpTo(g, nth, Len(g))

\* p has to be complete before q is begun
Precedes(p, q) == p[1] < q[1] \/ (p[1] = q[1] /\ p[2] < q[2])
==============================================================================
