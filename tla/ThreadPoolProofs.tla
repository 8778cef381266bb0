--------------------------- MODULE ThreadPoolProofs --------------------------
(***************************************************************************)
(* That the thread pool is correct for every number of threads and every   *)
(* graph: no part is computed twice or by two threads, the workers are out *)
(* of the graph when thread 0 prepares the next one, and the pool          *)
(* implements GraphExec.  The steps that arrive at the barrier and cross   *)
(* it are proved here, the others in ThreadPoolInv.                        *)
(***************************************************************************)
EXTENDS ThreadPoolInv, FiniteSetTheorems, WellFoundedInduction

-----------------------------------------------------------------------------
(* Graphs                                                                   *)

\* From every node of a graph on there is a first one to compute, or the end.
LEMMA GraphSegmented ==
  ASSUME NEW g \in Seq(Nodes)
  PROVE  Segmented(g)
<1> SUFFICES ASSUME NEW a \in 1 .. Len(g) + 1
             PROVE  \E m \in 1 .. Len(g) + 1 : Bounds(g, a, m, 0)
  BY DEF Segmented
<1> DEFINE T == {j \in a .. Len(g) + 1 : j <= Len(g) => g[j].kind # "nop"}
<1>1. T \subseteq Nat /\ T # {}
  <2>1. Len(g) + 1 \in T
    OBVIOUS
  <2> QED BY <2>1
<1>2. PICK m \in T : \A j \in T : m <= j
  <2> HIDE DEF T
  <2> DEFINE R == OpToRel(<, Nat)
  <2>1. \A i, j \in Nat : i < j => <<i, j>> \in R
    BY DEF OpToRel
  <2>2. PICK i \in T : \A j \in T : ~ (<<j, i>> \in R)
    BY <1>1, NatLessThanWellFounded, WFMin, Zenon
  <2> HIDE DEF R
  <2>3. \A j \in T : ~ (j < i)
    BY <1>1, <2>1, <2>2
  <2> QED BY <1>1, <2>3
<1>3. m \in a .. Len(g) + 1 /\ (m <= Len(g) => g[m].kind # "nop")
  OBVIOUS
<1>4. ASSUME NEW j \in a .. m - 1
      PROVE  g[j].kind = "nop"
  <2>1. j \in Nat /\ j < m /\ j \in a .. Len(g) + 1
    BY <1>3
  <2>2. j \notin T
    BY <1>2, <1>3, <2>1
  <2> QED BY <2>1, <2>2
<1>5. Bounds(g, a, m, 0)
  BY <1>3, <1>4 DEF Bounds
<1> QED BY <1>3, <1>5

-----------------------------------------------------------------------------
(* The barrier                                                              *)

\* A thread arrives, the last one when all others spin.
LEMMA ArriveStep ==
  ASSUME IInv, TypeOK', NEW t \in Threads, BarrierArrive(t)
  PROVE  IInv'
<1>0. /\ TypeOK /\ ControlInv /\ BarrierInv /\ th \in [Threads -> ThreadStates]
      /\ th[t] \in ThreadStates
  BY Zenon DEF IInv, TypeOK
<1>1. /\ Alone(t) /\ UNCHANGED <<current_chunk, abort, done>> /\ th[t].pc = "arrive"
      /\ n_barrier' = n_barrier + 1
      /\ th'[t] = [th[t] EXCEPT !.pc = IF n_barrier = th[t].nb - 1 THEN "reset" ELSE "spin"]
  BY <1>0 DEF BarrierArrive, Goto, Alone
<1>2. /\ th'[t].pc = (IF n_barrier = th[t].nb - 1 THEN "reset" ELSE "spin")
      /\ th'[t].node = th[t].node /\ th'[t].ret = th[t].ret
      /\ th'[t].graph = th[t].graph /\ th'[t].nth = th[t].nth /\ th'[t].np = th[t].np
      /\ th'[t].pending = th[t].pending /\ th'[t].last_graph = th[t].last_graph
  BY <1>0, <1>1 DEF ThreadStates
<1>3. th[t].np = n_barrier_passed /\ th[t].nb = n_graph.nth
  BY <1>0, <1>1 DEF BarrierInv
<1>4. InBarrier(t)
  BY <1>1, <1>2, <1>3 DEF InBarrier, AtBarrier
<1>5. ControlInv' /\ WorkInv' /\ Working(t) /\ t \in Members
  BY <1>4, InBarrierKeeps
<1>6. \A u \in Threads \ {t} : /\ th'[u] = th[u] /\ (Released(u)' <=> Released(u))
                               /\ th[u].pc \notin {"reset", "pass"}
  BY <1>0, <1>1, <1>5, OthersStay, NoneLast, SMTT(30) DEF Alone
<1>7. ~ Released(t)' /\ th'[t].pc \in {"reset", "spin"}
  BY <1>1, <1>2, <1>3 DEF Released, Alone
<1>8. Arrived' = Arrived \cup {t} /\ t \notin Arrived
  BY <1>1, <1>6, <1>7, Zenon DEF Arrived
<1>9. IsFiniteSet(Arrived) /\ Cardinality(Arrived) \in Nat
  <2>1. IsFiniteSet(Threads)
    BY FS_Interval, PoolAssumption DEF Threads
  <2>2. IsFiniteSet(Arrived)
    BY <2>1, FS_Subset DEF Arrived
  <2> QED BY <2>2, FS_CardinalityType
<1>10. Cardinality(Arrived') = Cardinality(Arrived) + 1
  BY <1>8, <1>9, FS_AddElement
<1>11. \A u \in Threads : th[u].pc # "pass"
  BY <1>1, <1>6, Zenon
<1>12. n_barrier = Cardinality(Arrived)
  BY <1>0, <1>11 DEF BarrierInv
<1>13. n_barrier' = Cardinality(Arrived')
  BY <1>1, <1>10, <1>12
<1>14. ASSUME th'[t].pc = "reset"
       PROVE  Others(t)'
  <2>1. Cardinality(Arrived) = n_graph.nth - 1 /\ n_graph.nth \in Nat /\ n_graph.nth <= NThreads
    BY <1>0, <1>2, <1>3, <1>12, <1>14, PoolAssumption, SMTT(30) DEF TypeOK
  <2>2. Arrived \subseteq Members \ {t}
    <3>1. ASSUME NEW u \in Arrived
          PROVE  u \in Members
      <4>1. u \in Threads /\ Working(u)
        BY <3>1, Zenon DEF Arrived, Working, AtWork, Released
      <4> QED BY <1>0, <4>1 DEF ControlInv, ThreadInv
    <3> QED BY <1>8, <3>1, Zenon
  <2>3. /\ IsFiniteSet(Members \ {t}) /\ Cardinality(Members \ {t}) = n_graph.nth - 1
    <3>1. 0 \in Int /\ n_graph.nth - 1 \in Int
      BY <2>1
    <3>2. IsFiniteSet(Members)
      BY <3>1, FS_Interval DEF Members
    <3>3. Cardinality(Members) = IF 0 > n_graph.nth - 1 THEN 0 ELSE (n_graph.nth - 1) - 0 + 1
      BY <3>1, FS_Interval DEF Members
    <3>4. n_graph.nth > 0
      BY <1>5, <2>1 DEF Members
    <3>5. Cardinality(Members) = n_graph.nth
      BY <2>1, <3>3, <3>4
    <3> QED BY <1>5, <3>2, <3>5, FS_RemoveElement, SMTT(30)
  <2>4. Arrived = Members \ {t}
    BY <2>1, <2>2, <2>3, FS_Subset
  <2>5. Members' = Members /\ Members \subseteq Threads
    BY <1>0, <1>1, PoolAssumption, SMTT(30) DEF Members, Alone, TypeOK, Threads
  <2>6. ASSUME NEW u \in Members \ {t}
        PROVE  th'[u].pc = "spin" /\ ~ Released(u)'
    BY <1>6, <2>4, <2>5, SMTT(30) DEF Arrived
  <2> QED BY <2>5, <2>6, SMTT(30) DEF Others
<1>15. ASSUME NEW u \in Threads
       PROVE  /\ th'[u].pc = "arrive" => th'[u].np = n_barrier_passed' /\ th'[u].nb = n_graph'.nth
              /\ th'[u].pc \in {"reset", "pass"} => Others(u)'
              /\ th'[u].pc # "pass"
  <2>1. CASE u = t
    BY <1>7, <1>14, <2>1
  <2>2. CASE u # t
    BY <1>0, <1>1, <1>6, <2>2, SMTT(30) DEF BarrierInv, Alone
  <2> QED BY <2>1, <2>2
<1>16. BarrierInv'
  BY <1>13, <1>15 DEF BarrierInv
<1> QED BY <1>5, <1>16 DEF IInv

\* The barrier is empty once it is crossed.
LEMMA CrossBarrier ==
  ASSUME IInv, NEW t \in Threads, Cross(t), CrossFacts(t),
         th'[t].pc \in {"part", "node", "idle", "top"}
  PROVE  BarrierInv'
<1>1. ASSUME NEW u \in Threads
      PROVE  /\ th'[u].pc \notin {"arrive", "reset", "pass"}
             /\ th'[u].pc = "spin" => Released(u)'
  <2>1. CASE u = t
    BY <2>1, Zenon
  <2>2. CASE u # t
    <3>1. th'[u] = th[u]
      BY <2>2, Zenon DEF Cross
    <3> QED BY <2>2, <3>1, Zenon DEF CrossFacts, AtWork
  <2> QED BY <2>1, <2>2, Zenon
<1>2. Arrived' = {}
  BY <1>1, Zenon DEF Arrived
<1>3. n_barrier' = Cardinality(Arrived')
  BY <1>2, FS_EmptySet, Zenon DEF Cross
<1> QED BY <1>1, <1>3, Zenon DEF BarrierInv

\* Who has the graph before it, and who is at it.
LEMMA CrossControl ==
  ASSUME IInv, TypeOK', NEW t \in Threads, Cross(t), CrossFacts(t),
         th'[t].pc \in {"part", "node", "idle", "top"},
         \A u \in Threads : Working(u)' <=> u \in Members /\ th[t].ret # "done",
         Active' <=> th[t].ret # "done"
  PROVE  ControlInv'
<1>0. /\ TypeOK /\ ControlInv /\ 0 \in Threads /\ th \in [Threads -> ThreadStates]
      /\ n_barrier_passed \in Nat /\ n_barrier_passed' \in Nat
  BY PoolAssumption, SMTT(30) DEF IInv, Threads, TypeOK
<1>1. n_graph' = n_graph /\ cgraph' = cgraph /\ Members' = Members
      /\ n_barrier_passed <= n_barrier_passed'
  BY Zenon DEF Cross, Members
<1>2. ThreadInv(t) /\ Working(t) /\ t \in Members /\ Active
  BY <1>0, Zenon DEF ControlInv, CrossFacts
<1>3. /\ th'[t].last_graph = th[t].last_graph /\ (t # 0 => ~ th'[t].pending)
      /\ th[t].ret # "done" => th'[t].graph = th[t].graph /\ th'[t].nth = th[t].nth
      /\ th[t].ret = "done" => th'[t].pc = (IF t = 0 THEN "idle" ELSE "top")
      /\ th[t].ret # "done" => th'[t].pc \in {"part", "node"}
  <2>1. t # 0 => ~ th[t].pending
    BY <1>2, Zenon DEF ThreadInv, Due
  <2>2. CASE th[t].ret = "done"
    BY <2>2, ZenonT(30) DEF CrossFacts, PastFacts
  <2>3. CASE th[t].ret # "done"
    <3>1. th[t].ret \in {"chunks", "next"}
      BY <2>3, Zenon DEF CrossFacts
    <3>2. th'[t].pc \in {"part", "node"}
      BY <1>2, <2>3, Zenon DEF Working, AtWork
    <3> QED BY <2>1, <2>3, <3>1, <3>2, ZenonT(30) DEF CrossFacts, PastFacts
  <2> QED BY <2>2, <2>3, Zenon
<1>4. ThreadInv(t)'
  <2>1. t # 0 => (Due(t)' <=> Due(t)) /\ ~ Due(t)
    BY <1>1, <1>2, <1>3, ZenonT(30) DEF Due, ThreadInv
  <2>2. /\ th'[t].pc \notin AtBarrier /\ th'[t].pc # "spin" /\ th'[t].pc # "take"
        /\ t = 0 => th'[t].pc \notin WorkerPcs
        /\ t # 0 => th'[t].pc \notin MainPcs \cup {"setchunk"}
    <3>1. t = 0 => th'[t].pc # "top"
      BY <1>3, Zenon
    <3>2. t # 0 => th'[t].pc # "idle"
      BY <1>3, Zenon
    <3> QED BY <3>1, <3>2, ZenonT(30) DEF AtBarrier, WorkerPcs, MainPcs
  <2> QED BY <1>1, <1>2, <1>3, <2>1, <2>2, ZenonT(30) DEF ThreadInv
<1>5. ASSUME NEW u \in Threads \ {t}
      PROVE  ThreadInv(u)'
  <2>1. th'[u] = th[u] /\ (Due(u)' <=> Due(u)) /\ ThreadInv(u)
    BY <1>0, <1>1, Zenon DEF Cross, Due, ControlInv
  <2>2. th[u].pc = "spin" => th[u].np <= n_barrier_passed'
    <3>1. th[u] \in ThreadStates
      BY <1>0, Zenon
    <3>2. th[u].np \in Nat
      BY <3>1, Zenon DEF ThreadStates
    <3>3. th[u].pc = "spin" => th[u].np <= n_barrier_passed
      BY <2>1, ZenonT(30) DEF ThreadInv
    <3> QED BY <1>0, <1>1, <3>2, <3>3, SMTT(30)
  <2>3. CASE u \in Members
    <3>1. Working(u)
      BY <2>3, ZenonT(30) DEF CrossFacts
    <3> QED BY <1>1, <1>2, <2>1, <2>2, <2>3, <3>1, ZenonT(30) DEF ThreadInv
  <2>4. CASE u \notin Members
    BY <1>1, <1>2, <2>1, <2>2, <2>4, ZenonT(30) DEF ThreadInv
  <2> QED BY <2>3, <2>4, Zenon
<1>6. Active' => n_graph'.nth > 0
  BY <1>0, <1>1, <1>2, ZenonT(30) DEF ControlInv
<1>7. th'[0].pc # "kickoff"
  <2>1. CASE t = 0
    BY <1>3, <2>1, Zenon
  <2>2. CASE t # 0
    <3>1. Working(0) /\ th'[0] = th[0]
      BY <1>0, <2>2, ZenonT(30) DEF CrossFacts, Cross
    <3> QED BY <3>1, Zenon DEF Working, AtWork
  <2> QED BY <2>1, <2>2, ZenonT(30)
<1> QED BY <1>4, <1>5, <1>6, <1>7, SMTT(30) DEF ControlInv


\* The graph goes on beyond the barrier.
LEMMA CrossWork ==
  ASSUME IInv, TypeOK', ControlInv', NEW t \in Threads, Cross(t), CrossFacts(t),
         Segmented(cgraph), th[t].ret = "chunks" => th'[t].pc = "part",
         \A u \in Threads : Working(u)' <=> u \in Members /\ th[t].ret # "done",
         Active' <=> th[t].ret # "done"
  PROVE  WorkInv'
<1>0. /\ WorkInv /\ Active /\ PosFacts /\ PosFacts' /\ n_graph' = n_graph /\ Members' = Members
      /\ 0 \in Members /\ th[t].ret \in {"chunks", "next", "done"}
      /\ UNCHANGED <<cgraph, abort, current_chunk, done>>
  <2>1. PosFacts'
    BY PosType, PTL
  <2> QED BY <2>1, Zenon DEF IInv, CrossFacts, Cross
<1>1. /\ cgraph \in Seq(Nodes) /\ abort \in Nat /\ current_chunk \in Nat
      /\ n_graph.nth \in Nat \ {0} /\ Members = 0 .. n_graph.nth - 1
      /\ PosOf \in [0 .. n_graph.nth - 1 -> Positions]
      /\ PosOf' \in [0 .. n_graph.nth - 1 -> Positions]
      /\ Walk(cgraph, n_graph.nth, PosOf, abort, current_chunk, done)
  BY <1>0, PoolAssumption, SMTT(30) DEF IInv, TypeOK, WorkInv, PosFacts
<1>2. th'[0].pc # "kickoff"
  <2>1. CASE t = 0
    <3>1. Past(t, th[t]) = th'[t]
      BY ZenonT(30) DEF Cross
    <3> QED BY <2>1, ZenonT(30) DEF CrossFacts, PastFacts
  <2>2. CASE t # 0
    <3>1. Working(0) /\ th'[0] = th[0]
      BY <1>0, <2>2, PoolAssumption, ZenonT(30) DEF CrossFacts, Cross, Threads, PosFacts
    <3> QED BY <3>1, ZenonT(30) DEF Working, AtWork
  <2> QED BY <2>1, <2>2, SMTT(30)
<1>3. \A u \in Members : PosOf[u].pc = th[t].ret /\ PosOf[u].node = th[t].node
  BY SMTT(30) DEF CrossFacts, At
<1>4. CASE th[t].ret = "done"
  <2>0. \A u \in 0 .. n_graph.nth - 1 : PosOf[u].pc = "done"
    BY <1>1, <1>3, <1>4, Zenon
  <2>1. WholeNodes(cgraph, n_graph.nth, done)
    BY <1>1, <2>0, CrossDone, Zenon
  <2> QED BY <1>0, <1>2, <1>4, <2>1, ZenonT(30) DEF WorkInv
<1>5. CASE th[t].ret \in {"chunks", "next"}
  <2>1. ASSUME NEW u \in Members
        PROVE  PosOf'[u] = IF th[t].ret = "chunks" THEN At("part", th[t].node, 1, u)
                           ELSE At("node", th[t].node + 1, 0, 0)
    <3>1. u \in Threads /\ Working(u)' /\ PosOf'[u] = Pos(u)'
      BY <1>0, <1>5, <2>1, SMTT(30) DEF PosFacts
    <3>2. CASE u = t
      <4>1. CASE th[t].ret = "chunks"
        <5>1. /\ th'[t].pc = "part" /\ th'[t].node = th[t].node /\ th'[t].half = 1
              /\ th'[t].cur = t
          BY <4>1, Zenon DEF CrossFacts, PastFacts
        <5>2. ~ Released(t)' /\ th'[t].pc \notin AtBarrier
          BY <5>1, Zenon DEF Released, AtBarrier
        <5> QED BY <3>1, <3>2, <4>1, <5>1, <5>2, SMTT(30) DEF Pos
      <4>2. CASE th[t].ret = "next"
        <5>1. /\ th'[t].pc = "node" /\ th'[t].node = th[t].node + 1
          BY <4>2, Zenon DEF CrossFacts, PastFacts
        <5>2. ~ Released(t)' /\ th'[t].pc \notin AtBarrier
          BY <5>1, Zenon DEF Released, AtBarrier
        <5> QED BY <3>1, <3>2, <4>2, <5>1, <5>2, ZenonT(30) DEF Pos
      <4> QED BY <1>5, <4>1, <4>2, SMTT(30)
    <3>3. CASE u # t
      <4>1. /\ th'[u] = th[u] /\ th[u].ret = th[t].ret /\ th[u].node = th[t].node
            /\ Released(u)'
        BY <3>1, <3>3, ZenonT(30) DEF Cross, CrossFacts
      <4> QED BY <3>1, <4>1, Zenon DEF Pos
    <3> QED BY <3>2, <3>3, Zenon
  <2>2. Walk(cgraph, n_graph.nth, PosOf', abort, current_chunk, done)
    <3>1. CASE th[t].ret = "chunks"
      <4>1. \A u \in 0 .. n_graph.nth - 1 :
              PosOf[u].pc = "chunks" /\ PosOf'[u] = At("part", PosOf[u].node, 1, u)
        BY <1>1, <1>3, <2>1, <3>1, SMTT(30)
      <4> QED BY <1>1, <4>1, CrossChunks, Zenon
    <3>2. CASE th[t].ret = "next"
      <4>1. \A u \in 0 .. n_graph.nth - 1 :
              PosOf[u].pc = "next" /\ PosOf'[u] = At("node", PosOf[u].node + 1, 0, 0)
        BY <1>1, <1>3, <2>1, <3>2, SMTT(30)
      <4> QED BY <1>1, <4>1, CrossNext, Zenon
    <3> QED BY <1>5, <3>1, <3>2, Zenon
  <2> QED BY <1>0, <1>2, <1>5, <2>2, Zenon DEF WorkInv
<1> QED BY <1>0, <1>4, <1>5, ZenonT(30)

\* The barrier is crossed.
LEMMA CrossKeeps ==
  ASSUME IInv, TypeOK', NEW t \in Threads, Cross(t)
  PROVE  IInv'
<1>0. Segmented(cgraph)
  BY PoolAssumption, GraphSegmented DEF IInv, TypeOK
<1>1. CrossFacts(t)
  BY CrossShape, Zenon
<1>2. /\ th[t].ret = "chunks" => th'[t].pc = "part"
      /\ th'[t].pc \in {"part", "node", "idle", "top"}
      /\ \A u \in Threads : Working(u)' <=> u \in Members /\ th[t].ret # "done"
      /\ Active' <=> th[t].ret # "done"
  BY <1>1, CrossWorking, ZenonT(30)
<1>3. ControlInv' /\ BarrierInv'
  BY <1>1, <1>2, CrossControl, CrossBarrier, ZenonT(30)
<1>4. WorkInv'
  BY <1>0, <1>1, <1>2, <1>3, CrossWork, SMTT(30)
<1> QED BY <1>3, <1>4 DEF IInv

\* The last thread lets the others go.
LEMMA PassStep ==
  ASSUME IInv, TypeOK', NEW t \in Threads, BarrierPass(t)
  PROVE  IInv'
<1>0. /\ TypeOK /\ ControlInv /\ BarrierInv /\ th \in [Threads -> ThreadStates]
      /\ n_barrier_passed \in Nat /\ Members \subseteq Threads
  BY PosType, Zenon DEF IInv, TypeOK, PosFacts
<1>1. /\ th[t].pc = "pass" /\ n_barrier_passed' = n_barrier_passed + 1
      /\ th'[t] = Past(t, th[t]) /\ \A u \in Threads \ {t} : th'[u] = th[u]
      /\ UNCHANGED <<n_graph, n_barrier, cgraph, abort, current_chunk, done>>
  BY <1>0, Zenon DEF BarrierPass, Moves
<1>2. Others(t) /\ n_barrier = 0
  BY <1>0, <1>1, SMTT(30) DEF BarrierInv
<1>3. ASSUME NEW u \in Members \ {t}
      PROVE  Released(u)'
  <2>1. th'[u] = th[u] /\ th[u].pc = "spin" /\ th[u].np = n_barrier_passed
    BY <1>0, <1>1, <1>2, SMTT(30) DEF Others, Released
  <2> QED BY <1>0, <1>1, <2>1, SMTT(30) DEF Released
<1>4. Cross(t)
  BY <1>0, <1>1, <1>2, <1>3, SMTT(30) DEF Cross, AtBarrier
<1> QED BY <1>4, CrossKeeps, SMTT(30)

\* With one thread there is no barrier.
LEMMA ReadOneStep ==
  ASSUME IInv, TypeOK', NEW t \in Threads, BarrierRead(t), n_graph.nth = 1
  PROVE  IInv'
<1>0. /\ TypeOK /\ ControlInv /\ BarrierInv /\ th \in [Threads -> ThreadStates]
      /\ n_barrier_passed \in Nat /\ Members = {0}
  BY DEF IInv, TypeOK, Members
<1>1. /\ th[t].pc = "barrier" /\ n_barrier_passed' = n_barrier_passed
      /\ th'[t] = Past(t, th[t]) /\ \A u \in Threads \ {t} : th'[u] = th[u]
      /\ UNCHANGED <<n_graph, n_barrier, cgraph, abort, current_chunk, done>>
  BY <1>0, Zenon DEF BarrierRead, Moves, shared
<1>2. ASSUME NEW u \in Threads, Working(u)
      PROVE  u = 0
  BY <1>0, <1>2, SMTT(30) DEF ControlInv, ThreadInv
<1>3. t = 0
  BY <1>1, <1>2, Zenon DEF Working, AtWork, Released
<1>4. ASSUME NEW u \in Threads
      PROVE  th[u].pc \notin {"reset", "pass"} /\ (th[u].pc = "spin" => Released(u))
  BY <1>1, <1>2, <1>3, SMTT(30) DEF Working, AtWork, Released
<1>5. n_barrier = 0
  <2>1. Arrived = {}
    BY <1>4, Zenon DEF Arrived
  <2> QED BY <1>0, <1>4, <2>1, FS_EmptySet, SMTT(30) DEF BarrierInv
<1>6. Members \ {t} = {} /\ n_barrier_passed <= n_barrier_passed'
  BY <1>0, <1>1, <1>3
<1>7. Others(t) /\ \A u \in Members \ {t} : Released(u)'
  BY <1>6, Zenon DEF Others
<1>8. Cross(t)
  BY <1>1, <1>5, <1>6, <1>7, Zenon DEF Cross, AtBarrier
<1> QED BY <1>8, CrossKeeps, Zenon


-----------------------------------------------------------------------------
(* The invariant holds                                                      *)

\* A new pool has no graph.
LEMMA InitInv ==
  Init => IInv
<1> SUFFICES ASSUME Init
             PROVE  IInv
  OBVIOUS
<1>0. 0 \in Threads /\ NThreads \in Nat /\ n_graph.nth = 0 /\ n_graph.count = 0
  BY PoolAssumption, SMTT(30) DEF Threads, Init, NoGraph
<1>1. \A t \in Threads : th[t] = Idle(IF t = 0 THEN "idle" ELSE "top", NoGraph)
  BY DEF Init
<1>2. TypeOK
  <2>1. ASSUME NEW p \in Pcs
        PROVE  Idle(p, NoGraph) \in ThreadStates
    BY PcsType DEF Idle, ThreadStates, NoGraph, Starts
  <2>2. \A t \in Threads : Idle(IF t = 0 THEN "idle" ELSE "top", NoGraph) \in ThreadStates
    BY <2>1, PcsType
  <2>3. th \in [Threads -> ThreadStates]
    BY <2>2 DEF Init
  <2>4. n_graph \in [count : Nat, nth : 0 .. NThreads]
    BY <1>0 DEF Init, NoGraph
  <2>5. cgraph \in Seq(Nodes)
    BY SMTT(30) DEF Init
  <2> QED BY <2>3, <2>4, <2>5, Zenon DEF TypeOK, Init
<1>3. \A t \in Threads : /\ th[t].pc = IF t = 0 THEN "idle" ELSE "top"
                         /\ ~ th[t].pending /\ th[t].last_graph = n_graph
  BY <1>1, Zenon DEF Idle, Init
<1>4. Members = {} /\ \A t \in Threads : ~ Working(t) /\ t \notin Members
  BY <1>0, <1>3 DEF Members, Working, AtWork
<1>5. ~ Active
  BY <1>0, <1>4, SMTT(30) DEF Active
<1>6. ASSUME NEW t \in Threads
      PROVE  ThreadInv(t)
  BY <1>0, <1>3, <1>4, <1>5, SMTT(30) DEF ThreadInv, AtBarrier, AtWork, WorkerPcs, MainPcs
<1>7. ControlInv
  BY <1>0, <1>3, <1>5, <1>6, SMTT(30) DEF ControlInv
<1>8. BarrierInv
  <2>1. Arrived = {}
    BY <1>3, SMTT(30) DEF Arrived
  <2> QED BY <1>3, <2>1, FS_EmptySet, SMTT(30) DEF BarrierInv, Init
<1>9. WorkInv
  <2>1. WholeNodes(cgraph, n_graph.nth, done)
    BY DEF Init, PartsUpTo, WholeNodes
  <2> QED BY <1>0, <1>3, <1>5, <2>1, SMTT(30) DEF WorkInv
<1> QED BY <1>2, <1>7, <1>8, <1>9, SMTT(30) DEF IInv

\* A step of a thread in the graph, thread 0 or a worker.
LEMMA GraphStepKeeps ==
  ASSUME IInv, NEW t \in Threads, GraphStep(t)
  PROVE  IInv'
<1>1. TypeOK'
  BY TypeThread DEF IInv, WorkerStep
<1>2. CASE Node(t)
  BY <1>1, <1>2, NodeStep, SMTT(30)
<1>3. CASE Part(t)
  BY <1>1, <1>3, PartStep, SMTT(30)
<1>4. CASE FetchChunk(t)
  BY <1>1, <1>4, FetchStep
<1>5. CASE OpDone(t)
  BY <1>1, <1>5, OpDoneStep
<1>6. CASE BarrierRead(t)
  BY <1>1, <1>6, ReadStep, ReadOneStep, SMTT(30)
<1>7. CASE BarrierArrive(t)
  BY <1>1, <1>7, ArriveStep
<1>8. CASE BarrierReset(t)
  BY <1>1, <1>8, ResetStep
<1>9. CASE BarrierPass(t)
  BY <1>1, <1>9, PassStep
<1>10. CASE BarrierSpin(t)
  BY <1>1, <1>10, SpinStep
<1> QED BY <1>2, <1>3, <1>4, <1>5, <1>6, <1>7, <1>8, <1>9, <1>10, SMTT(30) DEF GraphStep, BarrierStep

\* Every step of the pool keeps the invariant.
LEMMA NextInv ==
  IInv /\ [Next]_vars => IInv'
<1> SUFFICES ASSUME IInv, [Next]_vars
             PROVE  IInv'
  OBVIOUS
<1>0. TypeOK /\ 0 \in Threads
  BY PoolAssumption DEF IInv, Threads
<1>1. CASE GraphCompute \/ (\E p \in BOOLEAN : SetPause(p)) \/ Free \/ Freed
  <2>1. TypeOK'
    BY <1>0, <1>1, TypeMain, Zenon
  <2> QED BY <1>1, <2>1, RestingSteps, SMTT(30)
<1>2. CASE Kickoff
  <2>1. TypeOK'
    BY <1>0, <1>2, TypeMain, SMTT(30)
  <2>2. Segmented(cgraph)
    BY <1>0, PoolAssumption, GraphSegmented DEF TypeOK
  <2> QED BY <1>2, <2>1, <2>2, KickoffKeeps, SMTT(30)
<1>3. CASE SetChunk
  <2>1. TypeOK'
    BY <1>0, <1>3, TypeMain, SMTT(30)
  <2> QED BY <1>3, <2>1, SetChunkStep
<1>4. CASE GraphStep(0)
  BY <1>0, <1>4, GraphStepKeeps, SMTT(30)
<1>5. ASSUME NEW t \in Workers, WorkerStep(t)
      PROVE  IInv'
  <2>1. t \in Threads
    BY DEF Workers
  <2>2. TypeOK'
    BY <1>0, <1>5, <2>1, TypeThread, SMTT(30)
  <2>3. CASE Top(t) \/ PauseLock(t) \/ StopCheck(t) \/ Poll(t) \/ CheckForWork(t)
    BY <2>2, <2>3, BetweenGraphs, SMTT(30)
  <2>4. CASE Take(t)
    BY <2>2, <2>4, TakeKeeps
  <2>5. CASE GraphStep(t)
    BY <2>1, <2>5, GraphStepKeeps, SMTT(30)
  <2> QED BY <1>5, <2>3, <2>4, <2>5, SMTT(30) DEF WorkerStep
<1>6. CASE UNCHANGED vars
  <2>1. UNCHANGED <<n_graph, n_barrier, n_barrier_passed, current_chunk, stop, pause, abort,
                    cgraph, th, done>>
    BY <1>6, Zenon DEF vars, shared
  <2>2. \A t \in Threads : /\ (Released(t)' <=> Released(t)) /\ (Working(t)' <=> Working(t))
                           /\ (Due(t)' <=> Due(t))
    BY <2>1, Zenon DEF Released, Working, Due
  <2>3. (Active' <=> Active) /\ Members' = Members /\ PosOf' = PosOf /\ Arrived' = Arrived
    BY <2>1, SMTT(30) DEF Active, Working, Released, Members, PosOf, Pos, Arrived
  <2>4. TypeOK' /\ WorkInv'
    BY <2>1, <2>3, SMTT(30) DEF IInv, TypeOK, WorkInv
  <2>5. ControlInv'
    BY <2>1, <2>2, <2>3, ZenonT(30) DEF IInv, ControlInv, ThreadInv
  <2>6. BarrierInv'
    BY <2>1, <2>3, Zenon DEF IInv, BarrierInv, Others, Released
  <2> QED BY <2>4, <2>5, <2>6, SMTT(30) DEF IInv
<1> QED BY <1>1, <1>2, <1>3, <1>4, <1>5, <1>6, SMTT(30) DEF Next, MainStep

\* The invariant of the pool, for any number of threads, any graphs and any number of
\* calls of ggml_graph_compute.
THEOREM PoolInvariant ==
  Spec => []IInv
BY InitInv, NextInv, PTL DEF Spec

-----------------------------------------------------------------------------
(* What it says                                                             *)

\* where a thread that computes a part is
Computing(u) ==
  /\ u \in 0 .. n_graph.nth - 1 /\ Active /\ PosOf[u].pc = "part"
  /\ Doing(u) = <<PosOf[u].node, PosOf[u].half, PosOf[u].cur>>

\* A part that is being computed is due.
LEMMA PartDue ==
  ASSUME IInv, NEW t \in Threads, th[t].pc = "part"
  PROVE  /\ NextPart(cgraph, n_graph.nth, PosOf, done, t)
         /\ \A u \in Threads : th[u].pc = "part" => Computing(u)
<1>0. TypeOK /\ ControlInv /\ WorkInv /\ PosFacts
  BY PosType, Zenon DEF IInv
<1>1. ASSUME NEW u \in Threads, th[u].pc = "part"
      PROVE  Computing(u)
  <2>1. Working(u) /\ ~ Released(u) /\ th[u].pc \notin AtBarrier
    BY <1>1, Zenon DEF Working, AtWork, Released, AtBarrier
  <2>2. u \in Members /\ Active
    BY <1>0, <2>1, Zenon DEF ControlInv, ThreadInv
  <2>3. PosOf[u] = At("part", th[u].node, th[u].half, th[u].cur)
    BY <1>0, <1>1, <2>1, <2>2, SMTT(30) DEF PosFacts, Pos
  <2> QED BY <1>0, <2>2, <2>3, SMTT(30) DEF At, Doing, Computing, PosFacts
<1>2. t \in 0 .. n_graph.nth - 1 /\ Active /\ PosOf[t].pc = "part"
  BY <1>1, Zenon DEF Computing
<1>3. /\ cgraph \in Seq(Nodes) /\ abort \in Nat /\ current_chunk \in Nat
      /\ n_graph.nth \in Nat \ {0} /\ PosOf \in [0 .. n_graph.nth - 1 -> Positions]
      /\ Walk(cgraph, n_graph.nth, PosOf, abort, current_chunk, done)
  BY <1>0, <1>2, PoolAssumption, SMTT(30) DEF TypeOK, WorkInv, PosFacts, ControlInv
<1>4. NextPart(cgraph, n_graph.nth, PosOf, done, t)
  BY <1>2, <1>3, PartIsNext, Zenon
<1> QED BY <1>1, <1>4, Zenon

\* Nobody computes a part that another thread computes or has computed: the barriers
\* keep the threads together, and atomic_fetch_add gives each chunk to one of them.
THEOREM PoolComputesOnce ==
  Spec => []EachPartOnce
<1>1. IInv => EachPartOnce
  <2> SUFFICES ASSUME IInv, NEW t \in Threads, th[t].pc = "part"
               PROVE  /\ Doing(t) \notin done
                      /\ \A u \in Threads \ {t} : th[u].pc = "part" => Doing(u) # Doing(t)
    BY DEF EachPartOnce
  <2>1. /\ NextPart(cgraph, n_graph.nth, PosOf, done, t)
        /\ \A u \in Threads : th[u].pc = "part" => Computing(u)
    BY PartDue, Zenon
  <2> QED BY <2>1, ZenonT(30) DEF NextPart, Computing
<1> QED BY <1>1, PoolInvariant, PTL

\* When thread 0 prepares the next graph, no worker reads what it writes: one that has
\* not left ggml_barrier yet only has to notice that it may.
THEOREM PoolPreparesAlone ==
  Spec => []WorkersOutOfGraph
<1>1. IInv => WorkersOutOfGraph
  <2> SUFFICES ASSUME IInv, th[0].pc \in {"idle", "kickoff"},
                      NEW t \in Workers, th[t].pc \in AtWork
               PROVE  th[t].pc = "spin" /\ th[t].ret = "done"
    BY DEF WorkersOutOfGraph
  <2>1. ~ Active
    BY Zenon DEF Active, Working, AtWork
  <2>2. ~ Working(t)
    BY <2>1, SMTT(30) DEF IInv, ControlInv, ThreadInv, Workers
  <2> QED BY <2>2 DEF Working, Released
<1> QED BY <1>1, PoolInvariant, PTL


-----------------------------------------------------------------------------
(* The pool implements GraphExec                                            *)

ExecBusy == th[0].pc \notin {"idle", "join", "freed"}
ExecNth == IF th[0].pc = "kickoff" THEN Clamped(th[0].nth) ELSE n_graph.nth

\* The parts of a graph are computed in order while the call is in progress.
LEMMA PartComputes ==
  ASSUME IInv, IInv', NEW t \in Threads, Part(t)
  PROVE  \E p \in AllParts(cgraph, ExecNth) :
           /\ ExecBusy /\ p \notin done
           /\ {q \in AllParts(cgraph, ExecNth) : Precedes(q, p)} \subseteq done
           /\ done' = done \cup {p}
           /\ ExecBusy' = ExecBusy /\ cgraph' = cgraph /\ ExecNth' = ExecNth
<1>0. th \in [Threads -> ThreadStates] /\ 0 \in Threads
  BY PoolAssumption DEF IInv, TypeOK, Threads
<1>1. /\ th[t].pc = "part" /\ done' = done \cup {Doing(t)} /\ n_graph' = n_graph
      /\ cgraph' = cgraph /\ \A u \in Threads \ {t} : th'[u] = th[u]
  BY <1>0, Zenon DEF Part, Moves, shared, Doing
<1>2. NextPart(cgraph, n_graph.nth, PosOf, done, t) /\ Computing(t)
  BY <1>1, PartDue, SMTT(30)
<1>3. ExecBusy /\ th[0].pc # "kickoff" /\ ExecNth = n_graph.nth
  BY <1>2, Zenon DEF Computing, Active, Working, AtWork, ExecBusy, ExecNth
<1>4. ExecBusy' /\ th'[0].pc # "kickoff"
  <2>1. CASE t = 0
    <3>1. th'[0].pc \in {"setchunk", "barrier", "opdone", "fetch"}
      BY <1>0, <2>1, SMTT(30) DEF Part, Moves, Barrier, ThreadStates
    <3> QED BY <3>1, Zenon DEF ExecBusy
  <2>2. CASE t # 0
    BY <1>0, <1>1, <1>3, <2>2, SMTT(30) DEF ExecBusy
  <2> QED BY <2>1, <2>2, Zenon
<1>5. ExecBusy' = ExecBusy /\ ExecNth' = ExecNth
  BY <1>1, <1>3, <1>4, Zenon DEF ExecNth, ExecBusy
<1>6. Doing(t) \in AllParts(cgraph, n_graph.nth) /\ Doing(t) \notin done
      /\ {q \in AllParts(cgraph, n_graph.nth) : Precedes(q, Doing(t))} \subseteq done
  BY <1>2, Zenon DEF NextPart, Computing
<1> QED BY <1>1, <1>3, <1>5, <1>6, SMTT(30)

\* a step in the graph that computes nothing
Passes(t) ==
  /\ UNCHANGED <<n_graph, cgraph, done>> /\ \A u \in Threads \ {t} : th'[u] = th[u]
  /\ t = 0 => th[t].pc \in AtWork /\ th'[t].pc \in AtWork \cup {"idle"}

\* All steps in the graph but Part are such.
LEMMA GraphPasses ==
  ASSUME IInv, NEW t \in Threads, GraphStep(t) \/ (t = 0 /\ SetChunk), ~ Part(t)
  PROVE  Passes(t)
<1>0. /\ th \in [Threads -> ThreadStates] /\ th[t] \in ThreadStates /\ ControlInv
  BY DEF IInv, TypeOK
<1>1. CASE Node(t)
  BY <1>0, <1>1, Zenon DEF Node, Moves, Barrier, shared, Passes, AtWork, ThreadStates
<1>2. CASE FetchChunk(t)
  BY <1>0, <1>2, Zenon DEF FetchChunk, Moves, Passes, AtWork, ThreadStates
<1>3. CASE OpDone(t)
  BY <1>0, <1>3 DEF OpDone, Moves, Barrier, Passes, AtWork, ThreadStates
<1>4. CASE t = 0 /\ SetChunk
  BY <1>0, <1>4, Zenon DEF SetChunk, Moves, Barrier, Passes, AtWork, ThreadStates
<1>5. CASE BarrierArrive(t)
  BY <1>0, <1>5, Zenon DEF BarrierArrive, Goto, Passes, AtWork, ThreadStates
<1>6. CASE BarrierReset(t)
  BY <1>0, <1>6, Zenon DEF BarrierReset, Goto, Passes, AtWork, ThreadStates
<1>7. CASE BarrierRead(t) /\ n_graph.nth # 1
  BY <1>0, <1>7, Zenon DEF BarrierRead, Moves, shared, Passes, AtWork, ThreadStates
<1>8. CASE (BarrierRead(t) /\ n_graph.nth = 1) \/ BarrierPass(t) \/ BarrierSpin(t)
  <2>1. /\ th[t].pc \in {"barrier", "pass", "spin"} /\ th'[t] = Past(t, th[t])
        /\ UNCHANGED <<n_graph, cgraph, done>> /\ \A u \in Threads \ {t} : th'[u] = th[u]
    BY <1>0, <1>8, Zenon DEF BarrierRead, BarrierPass, BarrierSpin, Moves, shared
  <2>2. th[t].ret # "none"
    BY <1>0, <2>1, ZenonT(30) DEF ControlInv, ThreadInv, AtBarrier
  <2>3. PastFacts(t, th[t], th'[t]) /\ th[t].ret \in {"chunks", "next", "done"}
    BY <1>0, <2>1, <2>2, PastShape, ZenonT(30)
  <2>4. t = 0 => th'[t].pc \in {"part", "opdone", "node", "idle"}
    BY <2>3, Zenon DEF PastFacts
  <2> QED BY <2>1, <2>4, Zenon DEF Passes, AtWork
<1> QED BY <1>1, <1>2, <1>3, <1>4, <1>5, <1>6, <1>7, <1>8, SMTT(30) DEF GraphStep, BarrierStep

\* Such a step is none of GraphExec's, or the return of the call.
LEMMA PassesReturns ==
  ASSUME IInv', NEW t \in Threads, Passes(t)
  PROVE  \/ UNCHANGED <<ExecBusy, cgraph, ExecNth, done>>
         \/ /\ ExecBusy /\ ExecBusy' = FALSE /\ UNCHANGED <<cgraph, ExecNth, done>>
            /\ \E n \in 0 .. Len(cgraph) : done = PartsUpTo(cgraph, ExecNth, n)
<1>0. 0 \in Threads
  BY PoolAssumption, SMTT(30) DEF Threads
<1>1. CASE t # 0
  BY <1>0, <1>1, Zenon DEF Passes, ExecBusy, ExecNth
<1>2. CASE t = 0 /\ th'[0].pc \in AtWork
  BY <1>2, ZenonT(30) DEF Passes, ExecBusy, ExecNth, AtWork
<1>3. CASE t = 0 /\ th'[0].pc = "idle"
  <2>1. ~ Active'
    BY <1>3 DEF Active, Working, AtWork
  <2>2. \E n \in 0 .. Len(cgraph) : done = PartsUpTo(cgraph, n_graph.nth, n)
    BY <1>3, <2>1 DEF IInv, WorkInv, WholeNodes, Passes
  <2>3. ExecBusy /\ ExecNth = n_graph.nth /\ ExecNth' = n_graph.nth /\ ExecBusy' = FALSE
    BY <1>3 DEF Passes, ExecBusy, ExecNth, AtWork
  <2> QED BY <1>3, <2>2, <2>3, ZenonT(30) DEF Passes
<1> QED BY <1>1, <1>2, <1>3, ZenonT(30) DEF Passes

\* What the backend calls outside the graph.
LEMMA CallsExec ==
  ASSUME IInv, IInv'
  PROVE  /\ GraphCompute => /\ ExecBusy = FALSE /\ ExecBusy' = TRUE /\ cgraph' \in Graphs
                            /\ ExecNth' \in 1 .. NThreads /\ done' = {}
         /\ Kickoff \/ (\E p \in BOOLEAN : SetPause(p)) \/ Free \/ Freed =>
              UNCHANGED <<ExecBusy, cgraph, ExecNth, done>>
<1>0. th \in [Threads -> ThreadStates] /\ 0 \in Threads /\ th[0] \in ThreadStates
  BY PoolAssumption DEF IInv, TypeOK, Threads
<1>1. ASSUME GraphCompute
      PROVE  /\ ExecBusy = FALSE /\ ExecBusy' = TRUE /\ cgraph' \in Graphs
             /\ ExecNth' \in 1 .. NThreads /\ done' = {}
  <2>1. PICK n \in PlanThreads : th' = [th EXCEPT ![0] = [th[0] EXCEPT !.pc = "kickoff", !.nth = n]]
    BY <1>1, Zenon DEF GraphCompute, Moves
  <2>2. th'[0].pc = "kickoff" /\ th'[0].nth = n
    BY <1>0, <2>1, Zenon DEF ThreadStates
  <2>3. Clamped(n) \in 1 .. NThreads
    BY ClampedType, PoolAssumption, Zenon
  <2> QED BY <1>1, <2>2, <2>3, SMTT(30) DEF GraphCompute, ExecBusy, ExecNth, Clamped
<1>2. ASSUME Kickoff
      PROVE  UNCHANGED <<ExecBusy, cgraph, ExecNth, done>>
  <2>1. Broadcast(th) \in [Threads -> ThreadStates]
    BY <1>0, BroadcastType
  <2>2. th'[0].pc = "node"
    BY <1>0, <1>2, <2>1, SMTT(30) DEF Kickoff, ThreadStates
  <2> QED BY <1>2, <2>2 DEF Kickoff, ExecBusy, ExecNth
<1>3. ASSUME (\E p \in BOOLEAN : SetPause(p)) \/ Free \/ Freed
      PROVE  UNCHANGED <<ExecBusy, cgraph, ExecNth, done>>
  <2>1. /\ Broadcast(th) \in [Threads -> ThreadStates]
        /\ Broadcast(th)[0] = [th[0] EXCEPT !.pc = Awake(@)]
    BY <1>0, BroadcastType, Zenon
  <2>2. th[0].pc \in {"idle", "join"} /\ th'[0].pc \in {"idle", "join", "freed"}
    <3>1. CASE \E p \in BOOLEAN : SetPause(p)
      <4>1. th[0].pc = "idle" /\ th'[0] = Broadcast(th)[0]
        BY <3>1 DEF SetPause
      <4>2. th'[0].pc = "idle"
        BY <1>0, <2>1, <4>1, SMTT(30) DEF Awake, ThreadStates
      <4> QED BY <4>1, <4>2, Zenon
    <3>2. CASE Free
      BY <1>0, <2>1, <3>2, SMTT(30) DEF Free, ThreadStates
    <3>3. CASE Freed
      BY <1>0, <3>3 DEF Freed, Goto, ThreadStates
    <3> QED BY <1>3, <3>1, <3>2, <3>3, SMTT(30)
  <2> QED BY <1>3, <2>2 DEF SetPause, Free, Freed, shared, ExecBusy, ExecNth
<1> QED BY <1>1, <1>2, <1>3, Zenon


\* The parts of a graph are those of GraphExec.
LEMMA ExecParts ==
  /\ \A g, n, k : Exec!PartsUpTo(g, n, k) = PartsUpTo(g, n, k)
  /\ \A g, n : Exec!AllParts(g, n) = AllParts(g, n)
  /\ \A p, q : Exec!Precedes(p, q) <=> Precedes(p, q)
BY Zenon DEF Exec!PartsUpTo, PartsUpTo, Exec!AllParts, AllParts, Exec!Precedes, Precedes,
       Exec!PartsOf, PartsOf, Exec!NChunks, NChunks

\* Every step of the pool is one of GraphExec or changes nothing there.
LEMMA ExecStep ==
  IInv /\ IInv' /\ [Next]_vars => [Exec!ExecNext]_(Exec!execVars)
<1> SUFFICES ASSUME IInv, IInv', [Next]_vars
             PROVE  [Exec!ExecNext]_(Exec!execVars)
  BY Zenon
<1> DEFINE Same == UNCHANGED <<ExecBusy, cgraph, ExecNth, done>>
<1>1. ASSUME Same
      PROVE  UNCHANGED Exec!execVars
  BY <1>1, Zenon DEF Exec!execVars, ExecBusy, ExecNth
<1>2. CASE GraphCompute
  <2>1. Exec!Begin
    BY <1>2, CallsExec, ZenonT(30) DEF Exec!Begin, ExecBusy, ExecNth
  <2> QED BY <2>1, Zenon DEF Exec!ExecNext
<1>3. CASE Kickoff \/ (\E p \in BOOLEAN : SetPause(p)) \/ Free \/ Freed
  BY <1>1, <1>3, CallsExec, SMTT(30)
<1>4. ASSUME NEW t \in Threads, Part(t)
      PROVE  Exec!ExecNext
  <2>1. PICK p \in AllParts(cgraph, ExecNth) :
           /\ ExecBusy /\ p \notin done
           /\ {q \in AllParts(cgraph, ExecNth) : Precedes(q, p)} \subseteq done
           /\ done' = done \cup {p}
           /\ ExecBusy' = ExecBusy /\ cgraph' = cgraph /\ ExecNth' = ExecNth
    BY <1>4, PartComputes
  <2>2. Exec!Compute(p)
    BY <2>1, ExecParts, Zenon DEF Exec!Compute, ExecBusy, ExecNth
  <2> QED BY <2>1, <2>2, ExecParts, SMTT(30) DEF Exec!ExecNext, ExecNth
<1>5. ASSUME NEW t \in Threads, Passes(t)
      PROVE  [Exec!ExecNext]_(Exec!execVars)
  <2>1. CASE Same
    BY <1>1, <2>1
  <2>2. CASE /\ ExecBusy /\ ExecBusy' = FALSE /\ UNCHANGED <<cgraph, ExecNth, done>>
             /\ \E n \in 0 .. Len(cgraph) : done = PartsUpTo(cgraph, ExecNth, n)
    <3>1. Exec!Return
      BY <2>2, ExecParts, Zenon DEF Exec!Return, ExecBusy, ExecNth
    <3> QED BY <3>1 DEF Exec!ExecNext
  <2> QED BY <1>5, <2>1, <2>2, PassesReturns, ZenonT(30)
<1>6. ASSUME NEW t \in Threads, GraphStep(t) \/ (t = 0 /\ SetChunk)
      PROVE  [Exec!ExecNext]_(Exec!execVars)
  BY <1>4, <1>5, <1>6, GraphPasses, SMTT(30)
<1>7. ASSUME NEW t \in Workers, WorkerStep(t)
      PROVE  [Exec!ExecNext]_(Exec!execVars)
  <2>0. t \in Threads /\ t # 0
    BY DEF Workers
  <2>1. CASE GraphStep(t)
    BY <1>6, <2>0, <2>1, SMTT(30)
  <2>2. CASE Top(t) \/ PauseLock(t) \/ StopCheck(t) \/ Poll(t) \/ CheckForWork(t) \/ Take(t)
    <3>1. th \in [Threads -> ThreadStates]
      BY DEF IInv, TypeOK
    <3>2. UNCHANGED <<n_graph, cgraph, done>> /\ \A u \in Threads \ {t} : th'[u] = th[u]
      BY <2>0, <2>2, <3>1, SMTT(30) DEF Top, PauseLock, StopCheck, Poll, CheckForWork, Take, Moves, Goto, shared
    <3>3. Passes(t)
      BY <2>0, <3>2 DEF Passes
    <3> QED BY <1>5, <2>0, <3>3, SMTT(30)
  <2> QED BY <1>7, <2>1, <2>2, SMTT(30) DEF WorkerStep
<1>8. CASE UNCHANGED vars
  <2>1. UNCHANGED <<th, n_graph, cgraph, done>>
    BY <1>8, Zenon DEF vars, shared
  <2>2. Same
    BY <2>1 DEF ExecBusy, ExecNth
  <2> QED BY <1>1, <2>2, SMTT(30)
<1>9. 0 \in Threads
  BY PoolAssumption DEF Threads
<1> QED BY <1>2, <1>3, <1>6, <1>7, <1>8, <1>9, SMTT(30) DEF Next, MainStep

\* ggml_graph_compute on a pool of any size is GraphExec: the parts of a node are begun
\* when those before it are complete, each is computed once, and the call returns with
\* all nodes computed, or with those before the node where it was aborted.
THEOREM PoolImplementsGraphExec ==
  Spec => ImplementsGraphExec
<1>1. Init => Exec!ExecInit
  <2> SUFFICES ASSUME Init
               PROVE  Exec!ExecInit
    OBVIOUS
  <2>1. th[0] = Idle("idle", NoGraph)
    BY PoolAssumption DEF Init, Threads
  <2> QED BY <2>1 DEF Init, Exec!ExecInit, Idle, NoGraph
<1> QED BY <1>1, ExecStep, PoolInvariant, PTL DEF Spec, ImplementsGraphExec, Exec!ExecSpec
==============================================================================
