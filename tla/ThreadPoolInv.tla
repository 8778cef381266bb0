---------------------------- MODULE ThreadPoolInv ----------------------------
(***************************************************************************)
(* The inductive invariant of the thread pool, and the steps that keep it  *)
(* outside the barriers.                                                   *)
(*                                                                         *)
(* It says who is at work (ControlInv), who has come to the barrier        *)
(* (BarrierInv), and how far the graph is (WorkInv, by the segments of     *)
(* GraphSegments).  A barrier is crossed in one step, when                 *)
(* n_barrier_passed is incremented: a thread that still spins is then      *)
(* `Released', and counts as being where it goes next.                     *)
(***************************************************************************)
EXTENDS ThreadPool, GraphSegments

-----------------------------------------------------------------------------
(* The invariant                                                            *)

Rets == {"none"} \cup Barriers
WorkerPcs == {"top", "pauselock", "pausewait", "stopcheck", "poll", "mutex", "wait", "take", "exit"}
MainPcs == {"idle", "kickoff", "join", "freed"}
Pcs == WorkerPcs \cup MainPcs \cup AtWork

Starts == [count : Nat, nth : Nat]

ThreadStates ==
  [pc : Pcs, last_graph : Starts, pending : BOOLEAN, graph : Seq(Nodes), nth : Nat,
   node : Nat, half : {0, 1}, cur : Nat, np : Nat, nb : Nat, ret : Rets]

TypeOK ==
  /\ n_graph \in [count : Nat, nth : 0 .. NThreads]
  /\ n_barrier \in Nat /\ n_barrier_passed \in Nat /\ current_chunk \in Nat
  /\ stop \in BOOLEAN /\ pause \in BOOLEAN
  /\ abort \in Nat
  /\ cgraph \in Seq(Nodes)
  /\ th \in [Threads -> ThreadStates]

AtBarrier == {"barrier", "arrive", "spin", "reset", "pass"}

\* the barrier has been passed, and the thread has not noticed yet
Released(t) == th[t].pc = "spin" /\ th[t].np # n_barrier_passed

\* a thread between its start and the end of a graph; the barrier after the last node
\* ends it, even if the thread is still there
Working(t) == th[t].pc \in AtWork /\ ~ (Released(t) /\ th[t].ret = "done")

Active == Working(0)

Members == 0 .. n_graph.nth - 1

\* a worker with the graph still before it
Due(t) == th[t].pending \/ th[t].last_graph # n_graph

ThreadInv(t) ==
  /\ th[t].pc \in AtBarrier => th[t].ret # "none"
  /\ th[t].pc = "spin" => th[t].np <= n_barrier_passed
  /\ t = 0 => th[t].pc \notin WorkerPcs
  /\ t # 0 => th[t].pc \notin MainPcs \cup {"setchunk"}
  /\ Working(t) => /\ Active /\ t \in Members
                   /\ th[t].graph = cgraph /\ th[t].nth = n_graph.nth
  /\ t # 0 =>
       /\ th[t].pc \in AtWork => ~ th[t].pending
       /\ th[t].pc = "take" => th[t].pending
       /\ th[t].last_graph.count <= n_graph.count
       /\ th[t].last_graph.count = n_graph.count => th[t].last_graph = n_graph
       /\ th[t].pending => th[t].last_graph = n_graph /\ t \in Members
       /\ Working(t) => ~ Due(t)
       /\ t \in Members /\ ~ Working(t) => (Active <=> Due(t))

ControlInv ==
  /\ \A t \in Threads : ThreadInv(t)
  /\ Active => n_graph.nth > 0
  /\ th[0].pc = "kickoff" => th[0].nth # 0

\* the threads counted in n_barrier
Arrived == {t \in Threads : th[t].pc = "reset" \/ (th[t].pc = "spin" /\ ~ Released(t))}

Others(t) == \A u \in Members \ {t} : th[u].pc = "spin" /\ ~ Released(u)

BarrierInv ==
  /\ (\A t \in Threads : th[t].pc # "pass") => n_barrier = Cardinality(Arrived)
  /\ \A t \in Threads :
       /\ th[t].pc = "arrive" => th[t].np = n_barrier_passed /\ th[t].nb = n_graph.nth
       /\ th[t].pc \in {"reset", "pass"} => Others(t)
       /\ th[t].pc = "pass" => n_barrier = 0

Pos(t) ==
  IF ~ Working(t) THEN At("node", 1, 0, 0)
  ELSE IF Released(t)
    THEN IF th[t].ret = "chunks" THEN At("part", th[t].node, 1, t) ELSE At("node", th[t].node + 1, 0, 0)
  ELSE IF th[t].pc \in AtBarrier THEN At(th[t].ret, th[t].node, 0, 0)
  ELSE IF th[t].pc = "node" THEN At("node", th[t].node, 0, 0)
  ELSE At(th[t].pc, th[t].node, th[t].half, th[t].cur)

PosOf == [t \in Members |-> Pos(t)]

WorkInv ==
  /\ Active => Walk(cgraph, n_graph.nth, PosOf, abort, current_chunk, done)
  /\ th[0].pc = "kickoff" => done = {} /\ abort = 0
  /\ ~ Active /\ th[0].pc # "kickoff" =>
       WholeNodes(cgraph, n_graph.nth, done)

IInv == TypeOK /\ ControlInv /\ BarrierInv /\ WorkInv

-----------------------------------------------------------------------------
(* Types                                                                    *)

\* Thread 0 and the workers.
LEMMA ThreadSets ==
  /\ 0 \in Threads /\ 0 \notin Workers /\ Threads = {0} \cup Workers
  /\ \A t \in Threads : t \in Nat /\ t < NThreads
  /\ \A t \in Workers : t \in Threads /\ t # 0
BY PoolAssumption DEF Workers, Threads

\* The pcs and the barriers are among those declared.
LEMMA PcsType ==
  /\ {"node", "part", "setchunk", "fetch", "opdone", "barrier", "arrive", "reset", "pass",
      "spin", "top", "pauselock", "pausewait", "stopcheck", "poll", "mutex", "wait", "take",
      "exit", "idle", "kickoff", "join", "freed"} \subseteq Pcs
  /\ {"none", "chunks", "next", "done"} \subseteq Rets
BY DEF Pcs, AtWork, WorkerPcs, MainPcs, Rets, Barriers

\* Where a thread goes from a barrier is a state of a thread.
LEMMA PastType ==
  ASSUME NEW t \in Threads, NEW s \in ThreadStates
  PROVE  Past(t, s) \in ThreadStates
<1>1. s.last_graph \in Starts /\ s.node \in Nat
  BY DEF ThreadStates
<1>2. t \in Nat
  BY PoolAssumption, SMTT(30) DEF Threads
<1>3. CASE s.ret = "chunks"
  <2>1. PICK p \in Pcs : Past(t, s) = [s EXCEPT !.pc = p, !.half = 1, !.cur = t, !.np = 0,
                                                !.nb = 0, !.ret = "none"]
    BY <1>3, PcsType, Zenon DEF Past
  <2>2. ASSUME NEW r \in Rets
        PROVE  [s EXCEPT !.pc = p, !.half = 1, !.cur = t, !.np = 0, !.nb = 0, !.ret = r]
                 \in ThreadStates
    BY <1>2, Zenon DEF ThreadStates
  <2> QED BY <2>1, <2>2, PcsType, ZenonT(30)
<1>4. CASE s.ret = "next"
  <2> DEFINE i == s.node + 1
  <2>1. Past(t, s) = [s EXCEPT !.pc = "node", !.node = i, !.half = 0, !.cur = 0,
                               !.np = 0, !.nb = 0, !.ret = "none"]
    BY <1>4 DEF Past
  <2>2. i \in Nat
    BY <1>1
  <2> HIDE DEF i
  <2>3. ASSUME NEW p \in Pcs, NEW r \in Rets
        PROVE  [s EXCEPT !.pc = p, !.node = i, !.half = 0, !.cur = 0, !.np = 0, !.nb = 0,
                         !.ret = r] \in ThreadStates
    BY <2>2, Zenon DEF ThreadStates
  <2>4. "node" \in Pcs /\ "none" \in Rets
    BY PcsType
  <2>5. [s EXCEPT !.pc = "node", !.node = i, !.half = 0, !.cur = 0, !.np = 0, !.nb = 0,
                  !.ret = "none"] \in ThreadStates
    BY <2>3, <2>4, Zenon
  <2> QED BY <2>1, <2>5
<1>5. CASE s.ret \notin {"chunks", "next"}
  <2>1. Past(t, s) = IF t = 0 THEN Idle("idle", s.last_graph) ELSE Idle("top", s.last_graph)
    BY <1>5 DEF Past
  <2>2. ASSUME NEW p \in Pcs
        PROVE  Idle(p, s.last_graph) \in ThreadStates
    BY <1>1, PcsType DEF Idle, ThreadStates
  <2> QED BY <2>1, <2>2, PcsType
<1> QED BY <1>3, <1>4, <1>5

\* A graph is started for at least one thread, and for no more than there are.
LEMMA ClampedType ==
  ASSUME NEW n \in Nat \ {0}
  PROVE  Clamped(n) \in 1 .. NThreads
BY PoolAssumption DEF Clamped

\* A broadcast leaves the threads their types.
LEMMA BroadcastType ==
  ASSUME th \in [Threads -> ThreadStates]
  PROVE  /\ Broadcast(th) \in [Threads -> ThreadStates]
         /\ \A t \in Threads : Broadcast(th)[t] = [th[t] EXCEPT !.pc = Awake(@)]
<1>1. ASSUME NEW t \in Threads
      PROVE  [th[t] EXCEPT !.pc = Awake(@)] \in ThreadStates
  <2>1. th[t] \in ThreadStates
    OBVIOUS
  <2>2. Awake(th[t].pc) \in Pcs
    BY <2>1, PcsType DEF Awake, ThreadStates
  <2> QED BY <2>1, <2>2, Zenon DEF ThreadStates
<1> QED BY <1>1 DEF Broadcast

\* What a worker notes of a graph leaves it its type.
LEMMA AfterReadyType ==
  ASSUME TypeOK, NEW t \in Threads
  PROVE  AfterReady(t) \in ThreadStates
<1>1. th[t] \in ThreadStates
  BY DEF TypeOK
<1>2. n_graph \in Starts
  BY PoolAssumption DEF TypeOK, Starts
<1>3. ASSUME NEW b \in BOOLEAN
      PROVE  [th[t] EXCEPT !.pending = b, !.last_graph = n_graph] \in ThreadStates
  BY <1>1, <1>2, ZenonT(30) DEF ThreadStates
<1>4. (t < n_graph.nth) \in BOOLEAN
  OBVIOUS
<1>5. [th[t] EXCEPT !.pending = t < n_graph.nth, !.last_graph = n_graph] \in ThreadStates
  BY <1>3, <1>4, Zenon
<1> QED BY <1>1, <1>5 DEF AfterReady

\* The steps of a worker outside a graph, and of any thread inside one.
LEMMA TypeThread ==
  ASSUME TypeOK, NEW t \in Threads, WorkerStep(t)
  PROVE  TypeOK'
<1>0. /\ th \in [Threads -> ThreadStates] /\ th[t] \in ThreadStates /\ t \in Nat
      /\ n_graph \in [count : Nat, nth : 0 .. NThreads] /\ cgraph \in Seq(Nodes)
      /\ n_barrier \in Nat /\ n_barrier_passed \in Nat /\ current_chunk \in Nat
      /\ abort \in Nat
  BY PoolAssumption DEF TypeOK, Threads
<1>1. n_graph.nth \in Nat
  BY <1>0, PoolAssumption
<1>2. n_graph \in Starts
  BY <1>0, PoolAssumption DEF Starts
<1> DEFINE Same == /\ n_barrier' \in Nat /\ n_barrier_passed' \in Nat /\ current_chunk' \in Nat
                   /\ abort' \in Nat /\ UNCHANGED <<n_graph, stop, pause, cgraph>>
<1> SUFFICES (\E s \in ThreadStates : Moves(t, s)) /\ Same
  BY <1>0 DEF TypeOK, Moves
<1>3. UNCHANGED shared => Same
  BY <1>0 DEF shared
<1>4. ASSUME NEW p \in Pcs
      PROVE  Goto(t, p) => \E s \in ThreadStates : Moves(t, s)
  <2>1. [th[t] EXCEPT !.pc = p] \in ThreadStates
    BY <1>0, Zenon DEF ThreadStates
  <2>2. Goto(t, p) => Moves(t, [th[t] EXCEPT !.pc = p])
    BY <1>0 DEF Goto, Moves
  <2> QED BY <2>1, <2>2
<1>5. ASSUME NEW r \in Rets
      PROVE  Barrier(th[t], r) \in ThreadStates
  <2>1. "barrier" \in Pcs
    BY PcsType
  <2> QED BY <1>0, <2>1, Zenon DEF Barrier, ThreadStates
<1>6. AfterReady(t) \in ThreadStates
  BY AfterReadyType
<1>7. ASSUME NEW s \in ThreadStates, NEW p \in Pcs
      PROVE  [s EXCEPT !.pc = p] \in ThreadStates
  BY DEF ThreadStates
<1>8. CASE Top(t)
  BY <1>3, <1>4, <1>8, PcsType DEF Top
<1>9. CASE PauseLock(t)
  BY <1>3, <1>4, <1>9, PcsType DEF PauseLock
<1>10. CASE StopCheck(t)
  BY <1>3, <1>4, <1>10, PcsType DEF StopCheck
<1>11. CASE Poll(t)
  BY <1>3, <1>6, <1>7, <1>11, PcsType DEF Poll
<1>12. CASE CheckForWork(t)
  BY <1>0, <1>3, <1>6, <1>7, <1>12, PcsType, Zenon DEF CheckForWork
<1>13. CASE Take(t)
  <2>1. ASSUME NEW p \in Pcs
        PROVE  [[th[t] EXCEPT !.pc = p, !.node = 1, !.graph = cgraph, !.nth = n_graph.nth]
                  EXCEPT !.pending = FALSE] \in ThreadStates
    BY <1>0, <1>1, ZenonT(30) DEF ThreadStates
  <2> QED BY <1>3, <1>13, <2>1, PcsType, Zenon DEF Take, Started
<1>14. CASE BarrierRead(t)
  <2>1. ASSUME NEW p \in Pcs
        PROVE  [th[t] EXCEPT !.pc = p, !.nb = n_graph.nth, !.np = n_barrier_passed] \in ThreadStates
    BY <1>0, <1>1, ZenonT(30) DEF ThreadStates
  <2> QED BY <1>0, <1>3, <1>14, <2>1, PastType, PcsType, Zenon DEF BarrierRead
<1>15. CASE BarrierArrive(t)
  BY <1>0, <1>4, <1>15, PcsType DEF BarrierArrive
<1>16. CASE BarrierReset(t)
  BY <1>0, <1>4, <1>16, PcsType DEF BarrierReset
<1>17. CASE BarrierPass(t)
  BY <1>0, <1>17, PastType DEF BarrierPass
<1>18. CASE BarrierSpin(t)
  BY <1>0, <1>3, <1>18, PastType DEF BarrierSpin
<1>19. CASE Node(t)
  <2>1. th[t].node + 1 \in Nat
    BY <1>0 DEF ThreadStates
  <2>2. [th[t] EXCEPT !.node = th[t].node + 1] \in ThreadStates
    BY <1>0, <2>1, Zenon DEF ThreadStates
  <2>3. ASSUME NEW p \in Pcs, NEW b \in {0, 1}
        PROVE  [th[t] EXCEPT !.pc = p, !.half = b, !.cur = t] \in ThreadStates
    BY <1>0, Zenon DEF ThreadStates
  <2> QED BY <1>0, <1>3, <1>5, <1>19, <2>2, <2>3, PcsType, ZenonT(30) DEF Node
<1>20. CASE Part(t)
  BY <1>0, <1>3, <1>5, <1>7, <1>20, PcsType, SMTT(30) DEF Part
<1>21. CASE FetchChunk(t)
  <2>1. ASSUME NEW p \in Pcs
        PROVE  [th[t] EXCEPT !.pc = p, !.cur = current_chunk] \in ThreadStates
    BY <1>0, Zenon DEF ThreadStates
  <2>2. \E p \in Pcs : Moves(t, [th[t] EXCEPT !.pc = p, !.cur = current_chunk])
    BY <1>21, PcsType, Zenon DEF FetchChunk
  <2>3. Same
    BY <1>0, <1>21, SMTT(30) DEF FetchChunk
  <2> QED BY <2>1, <2>2, <2>3, Zenon
<1>22. CASE OpDone(t)
  <2>1. th[t].node + 1 \in Nat
    BY <1>0 DEF ThreadStates
  <2>2. ASSUME NEW p \in Pcs
        PROVE  [th[t] EXCEPT !.pc = p, !.node = th[t].node + 1, !.half = 0, !.cur = 0]
                 \in ThreadStates
    BY <1>0, <2>1, Zenon DEF ThreadStates
  <2> QED BY <1>0, <1>5, <1>22, <2>1, <2>2, PcsType, ZenonT(30) DEF OpDone
<1> QED BY <1>8, <1>9, <1>10, <1>11, <1>12, <1>13, <1>14, <1>15, <1>16, <1>17, <1>18, <1>19,
           <1>20, <1>21, <1>22, Zenon DEF WorkerStep, GraphStep, BarrierStep

\* The calls of the owner of the pool.
LEMMA TypeMain ==
  ASSUME TypeOK,
         GraphCompute \/ Kickoff \/ (\E p \in BOOLEAN : SetPause(p)) \/ Free \/ Freed \/ SetChunk
  PROVE  TypeOK'
<1>0. /\ th \in [Threads -> ThreadStates] /\ 0 \in Threads /\ th[0] \in ThreadStates
      /\ n_graph \in [count : Nat, nth : 0 .. NThreads] /\ cgraph \in Seq(Nodes)
      /\ n_barrier \in Nat /\ n_barrier_passed \in Nat /\ current_chunk \in Nat
      /\ abort \in Nat /\ stop \in BOOLEAN /\ pause \in BOOLEAN
  BY PoolAssumption DEF TypeOK, Threads
<1>1. ASSUME NEW s \in ThreadStates, NEW p \in Pcs
      PROVE  [s EXCEPT !.pc = p] \in ThreadStates
  BY Zenon DEF ThreadStates
<1>2. Broadcast(th) \in [Threads -> ThreadStates]
  BY <1>0, BroadcastType
<1>3. CASE GraphCompute
  <2>1. ASSUME NEW p \in Pcs, NEW n \in PlanThreads
        PROVE  [th[0] EXCEPT !.pc = p, !.nth = n] \in ThreadStates
    <3>1. n \in Nat
      BY PoolAssumption
    <3> QED BY <1>0, <3>1, ZenonT(30) DEF ThreadStates
  <2>2. PICK n \in PlanThreads : Moves(0, [th[0] EXCEPT !.pc = "kickoff", !.nth = n])
    BY <1>3, Zenon DEF GraphCompute
  <2>3. [th[0] EXCEPT !.pc = "kickoff", !.nth = n] \in ThreadStates
    BY <2>1, PcsType, Zenon
  <2>4. th' \in [Threads -> ThreadStates]
    BY <1>0, <2>2, <2>3, SMTT(30) DEF Moves
  <2>5. cgraph' \in Seq(Nodes)
    BY <1>3, GraphsAssumption, Zenon DEF GraphCompute, Nodes
  <2> QED BY <1>0, <1>3, <2>4, <2>5, Zenon DEF GraphCompute, TypeOK
<1>4. CASE Kickoff
  <2> DEFINE n == Clamped(th[0].nth)
  <2>1. n \in 0 .. NThreads
    BY <1>0, PoolAssumption DEF Clamped, ThreadStates
  <2>2. n_graph' = [count |-> n_graph.count + 1, nth |-> n]
    BY <1>4 DEF Kickoff
  <2>3. th' = [Broadcast(th) EXCEPT ![0] = [th[0] EXCEPT !.pc = "node", !.node = 1,
                                                         !.graph = cgraph, !.nth = n]]
    BY <1>4 DEF Kickoff
  <2>4. n \in Nat /\ "node" \in Pcs
    BY <2>1, PoolAssumption, PcsType
  <2> HIDE DEF n
  <2>5. ASSUME NEW p \in Pcs
        PROVE  [th[0] EXCEPT !.pc = p, !.node = 1, !.graph = cgraph, !.nth = n] \in ThreadStates
    BY <1>0, <2>4, Zenon DEF ThreadStates
  <2>6. [th[0] EXCEPT !.pc = "node", !.node = 1, !.graph = cgraph, !.nth = n] \in ThreadStates
    BY <2>4, <2>5, Zenon
  <2>7. th' \in [Threads -> ThreadStates]
    BY <1>0, <1>2, <2>3, <2>6
  <2>8. n_graph' \in [count : Nat, nth : 0 .. NThreads]
    BY <1>0, <2>1, <2>2
  <2>9. pause' \in BOOLEAN /\ UNCHANGED <<n_barrier, n_barrier_passed, current_chunk, stop, abort, cgraph>>
    BY <1>4, Zenon DEF Kickoff
  <2> QED BY <1>0, <2>7, <2>8, <2>9 DEF TypeOK
<1>5. CASE \E p \in BOOLEAN : SetPause(p)
  BY <1>0, <1>2, <1>5 DEF SetPause, TypeOK
<1>6. CASE Free
  <2>1. [Broadcast(th)[0] EXCEPT !.pc = "join"] \in ThreadStates
    BY <1>0, <1>1, <1>2, PcsType
  <2>2. th' = [Broadcast(th) EXCEPT ![0] = [Broadcast(th)[0] EXCEPT !.pc = "join"]]
    BY <1>0, <1>2, <1>6 DEF Free
  <2>3. th' \in [Threads -> ThreadStates]
    BY <1>0, <1>2, <2>1, <2>2
  <2> QED BY <1>0, <1>6, <2>3, Zenon DEF Free, TypeOK
<1>7. CASE Freed
  <2>1. [th[0] EXCEPT !.pc = "freed"] \in ThreadStates
    BY <1>0, <1>1, PcsType
  <2>2. th' \in [Threads -> ThreadStates]
    BY <1>0, <1>7, <2>1 DEF Freed, Goto
  <2> QED BY <1>0, <1>7, <2>2 DEF Freed, TypeOK, shared
<1>8. CASE SetChunk
  <2>1. ASSUME NEW p \in Pcs, NEW r \in Rets
        PROVE  [th[0] EXCEPT !.pc = p, !.ret = r] \in ThreadStates
    BY <1>0, Zenon DEF ThreadStates
  <2>2. Barrier(th[0], "chunks") \in ThreadStates /\ th[0].nth \in Nat
    BY <1>0, <2>1, PcsType, Zenon DEF Barrier, ThreadStates
  <2>3. th' \in [Threads -> ThreadStates]
    BY <1>0, <1>8, <2>2, SMTT(30) DEF SetChunk, Moves
  <2> QED BY <1>0, <1>8, <2>2, <2>3 DEF SetChunk, TypeOK
<1> QED BY <1>3, <1>4, <1>5, <1>6, <1>7, <1>8

-----------------------------------------------------------------------------
(* A thread that moves alone                                                *)

\* only thread t moves, and no barrier is passed
Alone(t) ==
  /\ \A u \in Threads \ {t} : th'[u] = th[u]
  /\ UNCHANGED <<n_graph, cgraph, n_barrier_passed>>

\* The other threads stay where they are.
LEMMA OthersStay ==
  ASSUME NEW t \in Threads, Alone(t), NEW u \in Threads, u # t
  PROVE  /\ Released(u)' <=> Released(u)
         /\ Working(u)' <=> Working(u)
         /\ Pos(u)' = Pos(u)
         /\ Due(u)' <=> Due(u)
BY Zenon DEF Alone, Released, Working, Pos, Due, At

\* ControlInv is kept if it is for the thread that moves, and thread 0 does not begin or
\* leave a graph.
LEMMA ControlAlone ==
  ASSUME TypeOK, ControlInv, NEW t \in Threads, Alone(t), Active' <=> Active,
         ThreadInv(t)', th'[0].pc = "kickoff" => th'[0].nth # 0
  PROVE  ControlInv'
<1>3. ASSUME NEW u \in Threads, u # t
      PROVE  ThreadInv(u)'
  <2>1. ThreadInv(u) /\ th'[u] = th[u]
    BY <1>3 DEF ControlInv, Alone
  <2>2. (Working(u)' <=> Working(u)) /\ (Due(u)' <=> Due(u)) /\ Members' = Members
    BY <1>3, OthersStay DEF Members, Alone
  <2> QED BY <2>1, <2>2, Zenon DEF ThreadInv, Alone
<1>4. n_graph' = n_graph
  BY DEF Alone
<1> QED BY <1>3, <1>4, SMTT(30) DEF ControlInv

\* The positions stay if that of the thread that moves does.
LEMMA PosAlone ==
  ASSUME TypeOK, NEW t \in Threads, Alone(t), Pos(t)' = Pos(t)
  PROVE  PosOf' = PosOf
<1>1. Members' = Members /\ Members \subseteq Threads
  BY PoolAssumption DEF Members, Alone, TypeOK, Threads
<1>2. \A u \in Members : Pos(u)' = Pos(u)
  BY <1>1, OthersStay
<1> QED BY <1>1, <1>2 DEF PosOf

\* A thread that is not in the barrier, or is released from it, does not disturb it.
LEMMA BarrierAlone ==
  ASSUME TypeOK, ControlInv, BarrierInv, NEW t \in Threads, Alone(t), n_barrier' = n_barrier,
         th[t].pc \notin {"arrive", "spin", "reset", "pass"} \/ Released(t),
         th'[t].pc \notin {"arrive", "spin", "reset", "pass"}
  PROVE  BarrierInv'
<1>1. \A u \in Threads \ {t} : th'[u] = th[u] /\ (Released(u)' <=> Released(u))
  BY OthersStay DEF Alone
<1>2. Arrived' = Arrived
  <2>1. t \notin Arrived /\ t \notin Arrived' /\ th[t].pc \notin {"reset", "pass", "arrive"}
    BY DEF Arrived, Released
  <2>2. ASSUME NEW u \in Threads \ {t}
        PROVE  u \in Arrived' <=> u \in Arrived
    BY <1>1 DEF Arrived
  <2>3. Arrived \subseteq Threads /\ Arrived' \subseteq Threads
    BY DEF Arrived
  <2> QED BY <2>1, <2>2, <2>3
<1>3. Members' = Members
  BY DEF Members, Alone
<1>4. ASSUME NEW u \in Threads, th'[u].pc \in {"reset", "pass"}
      PROVE  Others(u)'
  <2>1. u # t /\ th'[u] = th[u] /\ Others(u) /\ Members \subseteq Threads
    <3>1. Members \subseteq Threads
      BY PoolAssumption DEF Members, TypeOK, Threads
    <3> QED BY <1>1, <1>4, <3>1, Zenon DEF BarrierInv
  <2>2. t \notin Members
    BY <2>1 DEF Others
  <2> QED BY <1>1, <1>3, <2>1, <2>2 DEF Others
<1>5. (\A u \in Threads : th'[u].pc # "pass") <=> (\A u \in Threads : th[u].pc # "pass")
  BY <1>1 DEF Released
<1>6. ASSUME NEW u \in Threads
      PROVE  /\ th'[u].pc = "arrive" => th'[u].np = n_barrier_passed' /\ th'[u].nb = n_graph'.nth
             /\ th'[u].pc = "pass" => n_barrier' = 0
  BY <1>1 DEF BarrierInv, Alone
<1> QED BY <1>2, <1>4, <1>5, <1>6, Zenon DEF BarrierInv

-----------------------------------------------------------------------------
(* The workers between graphs                                               *)

\* what a step of a worker between graphs may do with the graph that it has seen
Notes(t) ==
  \/ th'[t].pending = th[t].pending /\ th'[t].last_graph = th[t].last_graph
  \/ /\ th[t].last_graph # n_graph /\ ~ th[t].pending
     /\ th'[t].last_graph = n_graph /\ (th'[t].pending <=> t \in Members)

\* A worker that is and stays between graphs.
LEMMA OutsideKeeps ==
  ASSUME IInv, TypeOK', NEW t \in Workers, Alone(t),
         UNCHANGED <<n_barrier, current_chunk, abort, done>>,
         th[t].pc \in WorkerPcs, th'[t].pc \in WorkerPcs,
         th'[t].pc = "take" => th'[t].pending, Notes(t)
  PROVE  IInv'
<1>0. TypeOK /\ ControlInv /\ BarrierInv /\ WorkInv /\ t \in Threads /\ t # 0 /\ 0 \in Threads
  BY PoolAssumption DEF IInv, Workers, Threads
<1>1. ~ Working(t) /\ ~ Working(t)'
  BY Zenon DEF Working, AtWork, WorkerPcs
<1>2. (Active' <=> Active) /\ Members' = Members /\ n_graph' = n_graph /\ th'[0] = th[0]
  BY <1>0, OthersStay DEF Active, Alone, Members
<1>3. ThreadInv(t)'
  <2>1. ThreadInv(t)
    BY <1>0 DEF ControlInv
  <2>2. t \in Members => (Due(t)' <=> Due(t))
    BY <1>2 DEF Notes, Due
  <2>3. th'[t].pc \notin AtBarrier \cup MainPcs \cup {"setchunk", "spin"} \cup AtWork
    BY Zenon DEF AtBarrier, WorkerPcs, MainPcs, AtWork
  <2>4. th[t].pending => th[t].last_graph = n_graph /\ t \in Members
    BY <1>0, <2>1, Zenon DEF ThreadInv
  <2>5. /\ th'[t].last_graph.count <= n_graph.count
        /\ th'[t].last_graph.count = n_graph.count => th'[t].last_graph = n_graph
        /\ th'[t].pending => th'[t].last_graph = n_graph /\ t \in Members
    <3>1. n_graph.count \in Nat
      BY <1>0 DEF TypeOK
    <3> QED BY <1>0, <2>1, <2>4, <3>1 DEF Notes, ThreadInv
  <2> QED BY <1>0, <1>1, <1>2, <2>1, <2>2, <2>3, <2>5, Zenon DEF ThreadInv
<1>4. ControlInv'
  BY <1>0, <1>1, <1>2, <1>3, ControlAlone, Zenon DEF ControlInv
<1>5. BarrierInv'
  <2>1. /\ th[t].pc \notin {"arrive", "spin", "reset", "pass"}
        /\ th'[t].pc \notin {"arrive", "spin", "reset", "pass"}
    BY DEF WorkerPcs
  <2> QED BY <1>0, <2>1, BarrierAlone
<1>6. PosOf' = PosOf
  <2>1. Pos(t)' = Pos(t)
    BY <1>1, Zenon DEF Pos, At
  <2> QED BY <1>0, <2>1, PosAlone
<1>7. WorkInv'
  BY <1>0, <1>2, <1>6, Zenon DEF WorkInv, Alone
<1> QED BY <1>4, <1>5, <1>7 DEF IInv

\* The steps of a worker between graphs: it pauses, stops, polls, or sleeps.
LEMMA BetweenGraphs ==
  ASSUME IInv, TypeOK', NEW t \in Workers,
         Top(t) \/ PauseLock(t) \/ StopCheck(t) \/ Poll(t) \/ CheckForWork(t)
  PROVE  IInv'
<1>0. /\ TypeOK /\ t \in Threads /\ th \in [Threads -> ThreadStates] /\ th[t] \in ThreadStates
      /\ t \in Nat /\ t < NThreads /\ n_graph.nth \in Nat
  <2>1. /\ TypeOK /\ t \in Threads /\ th \in [Threads -> ThreadStates] /\ th[t] \in ThreadStates
        /\ t \in Nat /\ t < NThreads
    BY ThreadSets, Zenon DEF IInv, TypeOK
  <2>2. n_graph.nth \in Nat
    BY <2>1, PoolAssumption DEF TypeOK
  <2> QED BY <2>1, <2>2
<1>1. t \in Members <=> t < n_graph.nth
  BY <1>0 DEF Members
<1>2. Alone(t) /\ UNCHANGED <<n_barrier, current_chunk, abort, done>>
  BY <1>0, Zenon DEF Top, PauseLock, StopCheck, Poll, CheckForWork, Moves, Goto, Alone, shared
<1>3. ASSUME NEW p, Goto(t, p)
      PROVE  th'[t].pc = p /\ Notes(t)
  BY <1>0, <1>3 DEF Goto, Notes, ThreadStates
<1>4. CASE Top(t) \/ PauseLock(t) \/ StopCheck(t)
  <2>1. /\ th[t].pc \in WorkerPcs /\ th'[t].pc \in WorkerPcs /\ th'[t].pc # "take" /\ Notes(t)
    BY <1>3, <1>4 DEF Top, PauseLock, StopCheck, WorkerPcs
  <2> QED BY <1>2, <2>1, OutsideKeeps
<1>5. CASE Poll(t) \/ CheckForWork(t)
  <2> DEFINE s == AfterReady(t)
  <2>1. s \in ThreadStates
    BY <1>0, AfterReadyType
  <2>2. \/ s.pending = th[t].pending /\ s.last_graph = th[t].last_graph
        \/ /\ th[t].last_graph # n_graph /\ ~ th[t].pending
           /\ s.last_graph = n_graph /\ (s.pending <=> t < n_graph.nth)
    BY <1>0, Zenon DEF AfterReady, ThreadStates
  <2>3. th[t].pc \in WorkerPcs
    BY <1>5 DEF Poll, CheckForWork, WorkerPcs
  <2>4. \/ th'[t] = [th[t] EXCEPT !.pc = "wait"]
        \/ th'[t] = [s EXCEPT !.pc = "take"] /\ s.pending
        \/ th'[t] = [s EXCEPT !.pc = "mutex"]
        \/ th'[t] = [s EXCEPT !.pc = "top"]
    <3>1. CASE Poll(t)
      <4>1. Moves(t, [s EXCEPT !.pc = IF Ready(t) /\ s.pending THEN "take" ELSE "mutex"])
        BY <3>1 DEF Poll
      <4> QED BY <1>0, <4>1 DEF Moves
    <3>2. CASE CheckForWork(t)
      <4>1. Moves(t, IF ~ Ready(t) THEN [th[t] EXCEPT !.pc = "wait"]
                     ELSE [s EXCEPT !.pc = IF s.pending THEN "take" ELSE "top"])
        BY <3>2 DEF CheckForWork
      <4> QED BY <1>0, <4>1 DEF Moves
    <3> QED BY <1>5, <3>1, <3>2
  <2> HIDE DEF s
  <2>5. /\ th'[t].pc \in {"wait", "take", "mutex", "top"} /\ (th'[t].pc = "take" => th'[t].pending)
        /\ \/ th'[t].pending = th[t].pending /\ th'[t].last_graph = th[t].last_graph
           \/ th'[t].pending = s.pending /\ th'[t].last_graph = s.last_graph
    BY <1>0, <2>1, <2>4, Zenon DEF ThreadStates
  <2>6. Notes(t)
    BY <1>1, <2>2, <2>5, Zenon DEF Notes
  <2>7. th'[t].pc \in WorkerPcs
    BY <2>5 DEF WorkerPcs
  <2> QED BY <1>2, <2>3, <2>5, <2>6, <2>7, OutsideKeeps, Zenon
<1> QED BY <1>4, <1>5

-----------------------------------------------------------------------------
(* Thread 0 outside a graph                                                 *)

\* the workers sleep on, or are woken
Rests ==
  \A t \in Workers :
    /\ th'[t].pc = th[t].pc \/ (th[t].pc \in WorkerPcs /\ th'[t].pc \in WorkerPcs \ {"take"})
    /\ th'[t].pending = th[t].pending /\ th'[t].last_graph = th[t].last_graph
    /\ th'[t].np = th[t].np /\ th'[t].ret = th[t].ret

\* A broadcast wakes the workers and does nothing else to them.
LEMMA BroadcastRests ==
  ASSUME TypeOK, \A t \in Workers : th'[t] = Broadcast(th)[t]
  PROVE  Rests
<1> SUFFICES ASSUME NEW t \in Workers
             PROVE  /\ \/ th'[t].pc = th[t].pc
                       \/ th[t].pc \in WorkerPcs /\ th'[t].pc \in WorkerPcs \ {"take"}
                    /\ th'[t].pending = th[t].pending /\ th'[t].last_graph = th[t].last_graph
                    /\ th'[t].np = th[t].np /\ th'[t].ret = th[t].ret
  BY DEF Rests
<1>1. t \in Threads /\ th \in [Threads -> ThreadStates] /\ th[t] \in ThreadStates
  BY DEF TypeOK, Workers
<1>2. th'[t] = [th[t] EXCEPT !.pc = Awake(@)]
  BY <1>1, BroadcastType
<1>3. /\ th'[t].pc = Awake(th[t].pc)
      /\ th'[t].pending = th[t].pending /\ th'[t].last_graph = th[t].last_graph
      /\ th'[t].np = th[t].np /\ th'[t].ret = th[t].ret
  BY <1>1, <1>2 DEF ThreadStates
<1>4. \/ Awake(th[t].pc) = th[t].pc
      \/ th[t].pc \in WorkerPcs /\ Awake(th[t].pc) \in WorkerPcs \ {"take"}
  BY DEF Awake, WorkerPcs
<1> QED BY <1>3, <1>4

\* While thread 0 is outside a graph no thread is at work, and a worker in the barrier has
\* been released from the last one.
LEMMA NobodyWorks ==
  ASSUME TypeOK, ControlInv, ~ Active
  PROVE  /\ \A t \in Threads : ~ Working(t) /\ (th[t].pc \in AtWork => Released(t))
         /\ \A t \in Workers : ~ th[t].pending
         /\ Arrived = {}
<1>1. ASSUME NEW t \in Threads
      PROVE  ThreadInv(t) /\ ~ Working(t)
  BY Zenon DEF ControlInv, ThreadInv
<1>2. ASSUME NEW t \in Threads
      PROVE  ~ Working(t) /\ (th[t].pc \in AtWork => Released(t))
  BY <1>1 DEF Working
<1>3. ASSUME NEW t \in Workers
      PROVE  ~ th[t].pending
  <2>1. t \in Threads /\ t # 0
    BY DEF Workers
  <2> QED BY <1>1, <2>1, Zenon DEF ThreadInv, Due
<1>4. Arrived = {}
  BY <1>2 DEF Arrived, AtWork, Released
<1> QED BY <1>2, <1>3, <1>4, SMTT(30)

\* A step of thread 0 from outside a graph to outside it.
LEMMA RestKeeps ==
  ASSUME TypeOK, TypeOK', ControlInv, BarrierInv, Rests,
         UNCHANGED <<n_graph, n_barrier, n_barrier_passed>>,
         th[0].pc \in MainPcs, th'[0].pc \in MainPcs,
         th'[0].pc = "kickoff" => th'[0].nth # 0
  PROVE  ControlInv' /\ BarrierInv' /\ ~ Active'
<1>0. 0 \in Threads /\ Threads = {0} \cup Workers /\ 0 \notin Workers /\ Members' = Members
  BY PoolAssumption DEF Threads, Workers, Members
<1>1. ~ Active /\ ~ Active'
  BY DEF Active, Working, AtWork, MainPcs
<1>2. /\ \A t \in Threads : ~ Working(t) /\ (th[t].pc \in AtWork => Released(t))
      /\ \A t \in Workers : ~ th[t].pending
      /\ Arrived = {}
  BY <1>1, NobodyWorks, SMTT(30)
<1>3. ASSUME NEW t \in Workers
      PROVE  /\ th'[t].pc \in AtWork => th'[t].pc = th[t].pc
             /\ ~ Working(t)'
             /\ th'[t].pc \in AtWork => Released(t)'
             /\ Due(t)' <=> Due(t)
  <2>1. th'[t].pc \in AtWork => th'[t].pc = th[t].pc
    BY Zenon DEF Rests, WorkerPcs, AtWork
  <2>2. ~ Working(t) /\ (th[t].pc \in AtWork => Released(t))
    BY <1>0, <1>2, ZenonT(30)
  <2>3. th'[t].np = th[t].np /\ th'[t].ret = th[t].ret
    BY DEF Rests
  <2>4. Due(t)' <=> Due(t)
    BY DEF Rests, Due
  <2> QED BY <2>1, <2>2, <2>3, <2>4, Zenon DEF Working, Released
<1>4. ASSUME NEW t \in Workers
      PROVE  ThreadInv(t)'
  <2>1. ThreadInv(t) /\ t # 0
    BY <1>0, Zenon DEF ControlInv
  <2>2. /\ th'[t].pc \in AtBarrier => th'[t].pc = th[t].pc
        /\ th'[t].pc = "spin" => th'[t].pc = th[t].pc
    BY <1>3 DEF AtBarrier, AtWork
  <2>3. th'[t].pc \notin MainPcs \cup {"setchunk"} /\ th'[t].pc # "take"
    <3>1. th[t].pc \notin MainPcs \cup {"setchunk"} /\ th[t].pc # "take"
      BY <1>2, <2>1, Zenon DEF ThreadInv
    <3> QED BY <3>1, Zenon DEF Rests, WorkerPcs, MainPcs
  <2>4. ~ th'[t].pending /\ th'[t].last_graph = th[t].last_graph
    BY <1>2 DEF Rests
  <2>5. th'[t].np = th[t].np /\ th'[t].ret = th[t].ret
    BY DEF Rests
  <2> QED BY <1>0, <1>1, <1>2, <1>3, <2>1, <2>2, <2>3, <2>4, <2>5, Zenon DEF ThreadInv
<1>5. ThreadInv(0)'
  BY <1>1, Zenon DEF ThreadInv, Active, MainPcs, AtBarrier, WorkerPcs
<1>6. ControlInv'
  BY <1>0, <1>1, <1>4, <1>5, SMTT(30) DEF ControlInv
<1>7. Arrived' = {}
  BY <1>0, <1>3, Zenon DEF Arrived, MainPcs, AtWork, Released
<1>8. \A t \in Threads : th'[t].pc \notin {"arrive", "reset", "pass"}
  BY <1>0, <1>3 DEF MainPcs, AtWork, Released
<1>9. \A t \in Threads : th[t].pc \notin {"arrive", "reset", "pass"}
  BY <1>2 DEF AtWork, Released
<1>10. BarrierInv'
  BY <1>2, <1>7, <1>8, <1>9, Zenon DEF BarrierInv
<1> QED BY <1>1, <1>6, <1>10

\* The calls that do not start a graph: ggml_graph_compute up to the kickoff, pause and
\* resume, and free.
LEMMA RestingSteps ==
  ASSUME IInv, TypeOK', GraphCompute \/ (\E p \in BOOLEAN : SetPause(p)) \/ Free \/ Freed
  PROVE  IInv'
<1>0. /\ TypeOK /\ ControlInv /\ BarrierInv /\ WorkInv /\ 0 \in Threads /\ 0 \notin Workers
      /\ th \in [Threads -> ThreadStates] /\ th[0] \in ThreadStates
      /\ \A t \in Workers : t \in Threads /\ t # 0
  BY ThreadSets, Zenon DEF IInv, TypeOK
<1>1. Broadcast(th) \in [Threads -> ThreadStates] /\ Broadcast(th)[0] = [th[0] EXCEPT !.pc = Awake(@)]
  BY <1>0, BroadcastType
<1>2. (\A t \in Workers : th'[t] = th[t]) => Rests
  BY SMTT(30) DEF Rests
<1>3. UNCHANGED <<n_graph, n_barrier, n_barrier_passed>>
  BY Zenon DEF GraphCompute, SetPause, Free, Freed, shared
<1>4. CASE GraphCompute
  <2>1. PICK n \in PlanThreads : Moves(0, [th[0] EXCEPT !.pc = "kickoff", !.nth = n])
    BY <1>4, ZenonT(30) DEF GraphCompute
  <2>2. /\ th[0].pc = "idle" /\ th'[0].pc = "kickoff" /\ th'[0].nth # 0
        /\ \A t \in Workers : th'[t] = th[t]
    BY <1>0, <1>4, <2>1, PoolAssumption, ZenonT(30) DEF Moves, GraphCompute, ThreadStates
  <2>3. ControlInv' /\ BarrierInv' /\ ~ Active'
    BY <1>0, <1>2, <1>3, <2>2, RestKeeps, SMTT(30) DEF MainPcs
  <2>4. WorkInv'
    BY <1>4, <2>2, <2>3, ZenonT(30) DEF WorkInv, GraphCompute
  <2> QED BY <2>3, <2>4, SMTT(30) DEF IInv
<1>5. ASSUME ~ Active, th[0].pc # "kickoff", ~ Active', th'[0].pc # "kickoff",
             UNCHANGED <<cgraph, n_graph, done>>
      PROVE  WorkInv'
  BY <1>0, <1>5 DEF WorkInv
<1>6. CASE \E p \in BOOLEAN : SetPause(p)
  <2>1. th' = Broadcast(th) /\ th[0].pc = "idle" /\ UNCHANGED <<cgraph, n_graph, done>>
    BY <1>6 DEF SetPause
  <2>2. th'[0].pc = "idle"
    BY <1>0, <1>1, <2>1 DEF ThreadStates, Awake
  <2>3. Rests
    BY <1>0, <2>1, BroadcastRests, SMTT(30)
  <2>4. ControlInv' /\ BarrierInv' /\ ~ Active'
    BY <1>0, <1>3, <2>1, <2>2, <2>3, RestKeeps, SMTT(30) DEF MainPcs
  <2>5. ~ Active
    BY <2>1 DEF Active, Working, AtWork
  <2>6. WorkInv'
    BY <1>5, <2>1, <2>2, <2>4, <2>5, SMTT(30)
  <2> QED BY <2>4, <2>6 DEF IInv
<1>7. CASE Free
  <2>1. /\ th' = [Broadcast(th) EXCEPT ![0].pc = "join"] /\ th[0].pc = "idle"
        /\ UNCHANGED <<cgraph, n_graph, done>>
    BY <1>7 DEF Free
  <2>2. th'[0].pc = "join" /\ \A t \in Workers : th'[t] = Broadcast(th)[t]
    BY <1>0, <1>1, <2>1 DEF ThreadStates
  <2>3. Rests
    BY <1>0, <2>2, BroadcastRests
  <2>4. ControlInv' /\ BarrierInv' /\ ~ Active'
    BY <1>0, <1>3, <2>1, <2>2, <2>3, RestKeeps DEF MainPcs
  <2>5. ~ Active
    BY <2>1 DEF Active, Working, AtWork
  <2>6. WorkInv'
    BY <1>5, <2>1, <2>2, <2>4, <2>5, SMTT(30)
  <2> QED BY <2>4, <2>6 DEF IInv
<1>8. CASE Freed
  <2>1. /\ th[0].pc = "join" /\ th'[0].pc = "freed" /\ (\A t \in Workers : th'[t] = th[t])
        /\ UNCHANGED <<cgraph, n_graph, done>>
    BY <1>0, <1>8 DEF Freed, Goto, ThreadStates, shared
  <2>2. ControlInv' /\ BarrierInv' /\ ~ Active'
    BY <1>0, <1>2, <1>3, <2>1, RestKeeps, SMTT(30) DEF MainPcs
  <2>3. ~ Active
    BY <2>1 DEF Active, Working, AtWork
  <2>4. WorkInv'
    BY <1>5, <2>1, <2>2, <2>3
  <2> QED BY <2>2, <2>4 DEF IInv
<1> QED BY <1>4, <1>6, <1>7, <1>8

PosFacts ==
  /\ Members \subseteq Threads /\ Members = 0 .. n_graph.nth - 1
  /\ PosOf \in [0 .. n_graph.nth - 1 -> Positions]
  /\ \A t \in Members : PosOf[t] = Pos(t)

\* The graph, the abort flag and the chunk counter; a graph in progress has a thread 0.
LEMMA GraphTypes ==
  ASSUME TypeOK, ControlInv
  PROVE  /\ cgraph \in Seq(Nodes) /\ abort \in Nat /\ current_chunk \in Nat
         /\ Active => n_graph.nth \in Nat \ {0} /\ 0 \in Members
<1>1. cgraph \in Seq(Nodes) /\ abort \in Nat /\ current_chunk \in Nat
  BY DEF TypeOK
<1>2. n_graph.nth \in Nat
  BY PoolAssumption DEF TypeOK
<1>3. Active => n_graph.nth \in Nat \ {0} /\ 0 \in Members
  BY <1>2 DEF ControlInv, Members
<1> QED BY <1>1, <1>3, Zenon

\* The threads of a graph are at positions of GraphSegments.
LEMMA PosType ==
  TypeOK /\ ControlInv => PosFacts
<1> SUFFICES ASSUME TypeOK, ControlInv
             PROVE  PosFacts
  OBVIOUS
<1>1. Members \subseteq Threads /\ Members = 0 .. n_graph.nth - 1
  BY PoolAssumption DEF Members, Threads, TypeOK
<1>2. ASSUME NEW t \in Threads
      PROVE  Pos(t) \in Positions
  <2>1. /\ th[t].pc \in Pcs /\ th[t].node \in Nat /\ th[t].half \in {0, 1} /\ th[t].cur \in Nat
        /\ th[t].ret \in Rets /\ t \in Nat
    <3>1. th[t] \in ThreadStates /\ t \in Nat
      BY PoolAssumption DEF TypeOK, Threads
    <3> QED BY <3>1, Zenon DEF ThreadStates
  <2>2. ASSUME NEW pc \in {"node", "part", "setchunk", "fetch", "opdone"} \cup Barriers,
               NEW i \in Nat, NEW b \in {0, 1}, NEW c \in Nat
        PROVE  At(pc, i, b, c) \in Positions
    BY DEF At, Positions
  <2>3. th[t].pc \in AtBarrier => th[t].ret \in Barriers
    BY <2>1, Zenon DEF ControlInv, ThreadInv, Rets
  <2>4. th[t].pc \in AtWork /\ th[t].pc \notin AtBarrier =>
          th[t].pc \in {"node", "part", "setchunk", "fetch", "opdone"}
    BY DEF AtWork, AtBarrier
  <2>5. CASE ~ Working(t)
    BY <2>2, <2>5 DEF Pos
  <2>6. CASE Working(t) /\ Released(t)
    <3>1. th[t].node + 1 \in Nat
      BY <2>1
    <3> QED BY <2>1, <2>2, <2>6, <3>1, Zenon DEF Pos
  <2>7. CASE Working(t) /\ ~ Released(t)
    BY <2>1, <2>2, <2>3, <2>4, <2>7, Zenon DEF Pos, Working
  <2> QED BY <2>5, <2>6, <2>7, SMTT(30)
<1> QED BY <1>1, <1>2 DEF PosOf, PosFacts

\* ggml_graph_compute_kickoff: thread 0 begins the graph, and every worker that takes part
\* has it before it.
LEMMA KickoffKeeps ==
  ASSUME IInv, TypeOK', Kickoff, Segmented(cgraph)
  PROVE  IInv'
<1>0. /\ TypeOK /\ ControlInv /\ BarrierInv /\ WorkInv /\ 0 \in Threads /\ 0 \notin Workers
      /\ Threads = {0} \cup Workers
      /\ th \in [Threads -> ThreadStates] /\ th[0] \in ThreadStates
      /\ \A t \in Workers : t \in Threads /\ t # 0
  BY ThreadSets, Zenon DEF IInv, TypeOK
<1>1. Broadcast(th) \in [Threads -> ThreadStates]
  BY <1>0, BroadcastType
<1>2. /\ th[0].pc = "kickoff" /\ UNCHANGED <<n_barrier, n_barrier_passed, abort, cgraph, done>>
      /\ n_graph' = [count |-> n_graph.count + 1, nth |-> Clamped(th[0].nth)]
  BY DEF Kickoff
<1>4. /\ th'[0].pc = "node" /\ th'[0].node = 1 /\ th'[0].graph = cgraph
      /\ th'[0].nth = Clamped(th[0].nth)
      /\ \A t \in Workers : th'[t] = Broadcast(th)[t]
  <2> DEFINE s == [th[0] EXCEPT !.pc = "node", !.node = 1, !.graph = cgraph,
                               !.nth = Clamped(@)]
  <2>1. th' = [Broadcast(th) EXCEPT ![0] = s]
    BY DEF Kickoff
  <2>2. s.pc = "node" /\ s.node = 1 /\ s.graph = cgraph /\ s.nth = Clamped(th[0].nth)
    BY <1>0 DEF ThreadStates
  <2> HIDE DEF s
  <2>3. th'[0] = s /\ \A t \in Workers : th'[t] = Broadcast(th)[t]
    BY <1>0, <1>1, <2>1
  <2> QED BY <2>2, <2>3
<1>5. Rests
  BY <1>0, <1>4, BroadcastRests
<1>6. ~ Active
  BY <1>2 DEF Active, Working, AtWork
<1>7. /\ \A t \in Threads : ~ Working(t) /\ (th[t].pc \in AtWork => Released(t))
      /\ \A t \in Workers : ~ th[t].pending
      /\ Arrived = {}
  BY <1>0, <1>6, NobodyWorks
<1>8. n_graph'.nth = Clamped(th[0].nth) /\ n_graph'.nth \in 1 .. NThreads /\ 0 \in Members'
  <2>1. th[0].nth \in Nat \ {0}
    BY <1>0, <1>2, Zenon DEF ControlInv, ThreadStates
  <2>2. Clamped(th[0].nth) \in 1 .. NThreads
    BY <2>1, ClampedType
  <2> QED BY <1>2, <2>2, PoolAssumption DEF Members
<1>9. Working(0)' /\ ~ Released(0)' /\ Active'
  BY <1>4 DEF Working, Active, Released, AtWork
<1>10. ASSUME NEW t \in Workers
       PROVE  /\ th'[t].pc \in AtWork => th'[t].pc = th[t].pc
              /\ ~ Working(t)'
              /\ th'[t].pc \in AtWork => Released(t)'
              /\ Due(t)'
  <2>1. th'[t].pc \in AtWork => th'[t].pc = th[t].pc
    BY <1>5 DEF Rests, WorkerPcs, AtWork
  <2>2. ~ Working(t) /\ (th[t].pc \in AtWork => Released(t))
    BY <1>0, <1>7, Zenon
  <2>3. th'[t].np = th[t].np /\ th'[t].ret = th[t].ret /\ th'[t].last_graph = th[t].last_graph
    BY <1>5 DEF Rests
  <2>4. th[t].last_graph.count <= n_graph.count
    BY <1>0, Zenon DEF ControlInv, ThreadInv
  <2>5. th[t].last_graph.count \in Nat /\ n_graph.count \in Nat
    BY <1>0, ZenonT(30) DEF TypeOK, ThreadStates, Starts
  <2>6. th'[t].last_graph # n_graph'
    BY <1>2, <2>3, <2>4, <2>5
  <2> QED BY <1>2, <2>1, <2>2, <2>3, <2>6, Zenon DEF Working, Released, Due
<1>11. ASSUME NEW t \in Workers
       PROVE  ThreadInv(t)'
  <2>1. ThreadInv(t) /\ t # 0
    BY <1>0, Zenon DEF ControlInv
  <2>2. /\ th'[t].pc \in AtBarrier => th'[t].pc = th[t].pc
        /\ th'[t].pc = "spin" => th'[t].pc = th[t].pc
    BY <1>10 DEF AtBarrier, AtWork
  <2>3. th'[t].pc \notin MainPcs \cup {"setchunk"} /\ th'[t].pc # "take"
    <3>1. th[t].pc \notin MainPcs \cup {"setchunk"} /\ th[t].pc # "take"
      BY <1>7, <2>1, Zenon DEF ThreadInv
    <3> QED BY <1>5, <3>1, Zenon DEF Rests, WorkerPcs, MainPcs
  <2>4. /\ ~ th'[t].pending /\ th'[t].last_graph = th[t].last_graph
        /\ th'[t].np = th[t].np /\ th'[t].ret = th[t].ret
    BY <1>5, <1>7, Zenon DEF Rests
  <2>5. th'[t].last_graph.count < n_graph'.count
    <3>1. th[t].last_graph.count \in Nat /\ n_graph.count \in Nat
      BY <1>0, Zenon DEF TypeOK, ThreadStates, Starts
    <3> QED BY <1>2, <2>1, <2>4, <3>1, SMTT(30) DEF ThreadInv
  <2>6. th'[t].last_graph.count \in Nat /\ n_graph'.count \in Nat
    BY <1>0, <1>2, <2>4, ZenonT(30) DEF TypeOK, ThreadStates, Starts
  <2>7. /\ th'[t].last_graph.count <= n_graph'.count
        /\ th'[t].last_graph.count # n_graph'.count
    BY <2>5, <2>6
  <2> QED BY <1>2, <1>9, <1>10, <2>1, <2>2, <2>3, <2>4, <2>7, ZenonT(30) DEF ThreadInv
<1>12. ThreadInv(0)'
  BY <1>2, <1>4, <1>8, <1>9, Zenon DEF ThreadInv, AtBarrier, WorkerPcs
<1>13. ControlInv'
  BY <1>0, <1>4, <1>8, <1>11, <1>12, SMTT(30) DEF ControlInv
<1>14. BarrierInv'
  <2>1. Arrived' = {}
    BY <1>0, <1>4, <1>10, Zenon DEF Arrived, AtWork, Released
  <2>2. \A t \in Threads : th'[t].pc \notin {"arrive", "reset", "pass"}
    BY <1>0, <1>4, <1>10, Zenon DEF AtWork, Released
  <2>3. \A t \in Threads : th[t].pc \notin {"arrive", "reset", "pass"}
    BY <1>7, SMTT(30) DEF AtWork, Released
  <2> QED BY <1>0, <1>2, <1>7, <2>1, <2>2, <2>3, ZenonT(30) DEF BarrierInv
<1>15. WorkInv'
  <2>1. done' = {} /\ abort' = 0
    BY <1>0, <1>2 DEF WorkInv
  <2>2. /\ Members' \subseteq Threads /\ Members' = 0 .. n_graph'.nth - 1
        /\ PosOf' \in [0 .. n_graph'.nth - 1 -> Positions]
        /\ \A t \in Members' : PosOf'[t] = Pos(t)'
    <3>1. PosFacts'
      BY <1>13, PosType, PTL
    <3> QED BY <3>1 DEF PosFacts
  <2>3. \A t \in 0 .. n_graph'.nth - 1 : PosOf'[t] = At("node", 1, 0, 0)
    BY <1>0, <1>4, <1>9, <1>10, <2>2, Zenon DEF Pos, AtBarrier
  <2>4. /\ cgraph' \in Seq(Nodes) /\ current_chunk' \in Nat /\ n_graph'.nth \in Nat \ {0}
        /\ Segmented(cgraph')
    BY <1>2, <1>8, PoolAssumption DEF TypeOK
  <2>5. Walk(cgraph', n_graph'.nth, PosOf', 0, current_chunk', {})
    BY <2>2, <2>3, <2>4, WalkBegins, Zenon
  <2> QED BY <1>4, <1>9, <2>1, <2>5, SMTT(30) DEF WorkInv
<1> QED BY <1>13, <1>14, <1>15 DEF IInv

-----------------------------------------------------------------------------
(* In a graph                                                               *)

\* A worker takes the graph, while thread 0 is in it.
LEMMA TakeKeeps ==
  ASSUME IInv, TypeOK', NEW t \in Workers, Take(t)
  PROVE  IInv'
<1>0. /\ TypeOK /\ ControlInv /\ BarrierInv /\ WorkInv /\ t \in Threads /\ t # 0 /\ 0 \in Threads
      /\ th \in [Threads -> ThreadStates] /\ th[t] \in ThreadStates
  BY ThreadSets, Zenon DEF IInv, TypeOK
<1>1. /\ Alone(t) /\ UNCHANGED <<n_barrier, current_chunk, abort, done>>
      /\ th[t].pc = "take"
  BY <1>0 DEF Take, Moves, Alone, shared
<1>2. /\ th'[t].pc = "node" /\ th'[t].node = 1 /\ th'[t].graph = cgraph
      /\ th'[t].nth = n_graph.nth /\ ~ th'[t].pending
      /\ th'[t].last_graph = th[t].last_graph
  <2> DEFINE s == [Started(t, th[t]) EXCEPT !.pending = FALSE]
  <2>1. th'[t] = s
    BY <1>0 DEF Take, Moves
  <2>2. /\ s.pc = "node" /\ s.node = 1 /\ s.graph = cgraph /\ s.nth = n_graph.nth
        /\ ~ s.pending /\ s.last_graph = th[t].last_graph
    BY <1>0 DEF Started, ThreadStates
  <2> HIDE DEF s
  <2> QED BY <2>1, <2>2
<1>3. (Active' <=> Active) /\ Members' = Members /\ n_graph' = n_graph /\ cgraph' = cgraph /\ th'[0] = th[0]
  BY <1>0, <1>1, OthersStay, SMTT(30) DEF Active, Alone, Members
<1>4. ~ Working(t) /\ Working(t)' /\ ~ Released(t)'
  BY <1>1, <1>2 DEF Working, AtWork, Released
<1>5. ThreadInv(t)
  BY <1>0, SMTT(30) DEF ControlInv
<1>6. th[t].last_graph = n_graph /\ t \in Members /\ Active
  BY <1>0, <1>1, <1>4, <1>5, Zenon DEF ThreadInv, Due
<1>7. ThreadInv(t)'
  <2>1. th'[t].pc \notin AtBarrier \cup MainPcs \cup {"setchunk", "spin", "take"} /\ ~ Due(t)'
    BY <1>2, <1>3, <1>6 DEF AtBarrier, MainPcs, Due
  <2>2. n_graph.count \in Nat
    BY <1>0 DEF TypeOK
  <2> QED BY <1>0, <1>2, <1>3, <1>4, <1>6, <2>1, <2>2, SMTT(30) DEF ThreadInv
<1>8. ControlInv'
  BY <1>0, <1>1, <1>3, <1>7, ControlAlone, Zenon DEF ControlInv
<1>9. BarrierInv'
  BY <1>0, <1>1, <1>2, BarrierAlone, Zenon
<1>10. PosOf' = PosOf
  <2>1. Pos(t)' = Pos(t)
    BY <1>2, <1>4, Zenon DEF Pos, At, AtBarrier
  <2> QED BY <1>0, <1>1, <2>1, PosAlone, SMTT(30)
<1>11. WorkInv'
  BY <1>0, <1>1, <1>3, <1>10, Zenon DEF WorkInv
<1> QED BY <1>8, <1>9, <1>11 DEF IInv

\* thread t is in the graph, and its step keeps it there
Continues(t) ==
  /\ Alone(t) /\ Working(t)
  /\ th'[t].pc \in AtWork /\ ~ Released(t)'
  /\ th'[t].pc \in AtBarrier => th'[t].ret # "none"
  /\ th'[t].pc = "spin" => th'[t].np <= n_barrier_passed
  /\ t # 0 => th'[t].pc # "setchunk"
  /\ th'[t].graph = th[t].graph /\ th'[t].nth = th[t].nth
  /\ th'[t].pending = th[t].pending /\ th'[t].last_graph = th[t].last_graph

Stays(t) == Continues(t) /\ ~ Released(t)

\* A thread that goes on in the graph.
LEMMA ContinuesKeeps ==
  ASSUME TypeOK, ControlInv, NEW t \in Threads, Continues(t)
  PROVE  /\ ControlInv' /\ Working(t)' /\ Active /\ Active' /\ t \in Members
         /\ th[t].graph = cgraph /\ th[t].nth = n_graph.nth
         /\ n_graph' = n_graph /\ cgraph' = cgraph /\ Members' = Members
<1>0. 0 \in Threads
  BY PoolAssumption DEF Threads
<1>1. Working(t)' /\ Working(t) /\ Alone(t)
  BY Zenon DEF Continues, Working
<1>2. ThreadInv(t)
  BY DEF ControlInv
<1>3. Active /\ t \in Members /\ th[t].graph = cgraph /\ th[t].nth = n_graph.nth
  BY <1>1, <1>2, Zenon DEF ThreadInv
<1>4. Active'
  BY <1>0, <1>1, <1>3, OthersStay, SMTT(30) DEF Active
<1>5. n_graph' = n_graph /\ cgraph' = cgraph /\ Members' = Members
      /\ n_barrier_passed' = n_barrier_passed
  BY <1>1, SMTT(30) DEF Alone, Members
<1>6. ThreadInv(t)'
  <2>1. th'[t].pc \notin WorkerPcs /\ th'[t].pc \notin MainPcs
    BY Zenon DEF Continues, AtWork, WorkerPcs, MainPcs
  <2>2. (Due(t)' <=> Due(t)) /\ th[t].pc \in AtWork
    BY <1>1, <1>5, Zenon DEF Due, Continues, Working
  <2>3. th'[t].pc # "take"
    BY <2>1 DEF WorkerPcs
  <2> QED BY <1>1, <1>2, <1>3, <1>4, <1>5, <2>1, <2>2, <2>3, Zenon DEF ThreadInv, Continues
<1>7. th'[0].pc # "kickoff"
  BY <1>4 DEF Active, Working, AtWork
<1>8. ControlInv'
  BY <1>1, <1>3, <1>4, <1>6, <1>7, ControlAlone, SMTT(30)
<1> QED BY <1>1, <1>3, <1>4, <1>5, <1>8

\* The same for a thread that has not been released from a barrier.
LEMMA StaysKeeps ==
  ASSUME TypeOK, ControlInv, NEW t \in Threads, Stays(t)
  PROVE  /\ ControlInv' /\ Working(t)' /\ Active /\ Active' /\ t \in Members
         /\ th[t].graph = cgraph /\ th[t].nth = n_graph.nth
         /\ n_graph' = n_graph /\ cgraph' = cgraph /\ Members' = Members
BY ContinuesKeeps DEF Stays

\* thread t moves from one position to another in the graph
MoveFacts(t) ==
  /\ n_graph.nth \in Nat \ {0} /\ cgraph \in Seq(Nodes) /\ abort \in Nat /\ current_chunk \in Nat
  /\ t \in 0 .. n_graph.nth - 1
  /\ PosOf \in [0 .. n_graph.nth - 1 -> Positions]
  /\ PosOf' \in [0 .. n_graph.nth - 1 -> Positions]
  /\ PosOf[t] = Pos(t) /\ PosOf'[t] = Pos(t)'
  /\ Only(n_graph.nth, PosOf, PosOf', t)
  /\ Walk(cgraph, n_graph.nth, PosOf, abort, current_chunk, done)

\* A thread that stays in the graph is the only one to change its position.
LEMMA StaysMoves ==
  ASSUME IInv, TypeOK', NEW t \in Threads, Stays(t)
  PROVE  MoveFacts(t)
<1>0. TypeOK /\ ControlInv /\ WorkInv
  BY DEF IInv
<1>1. /\ ControlInv' /\ Active /\ t \in Members /\ n_graph' = n_graph /\ Members' = Members
  BY <1>0, StaysKeeps
<1>2. PosFacts
  BY <1>0, PosType
<1>3. PosFacts'
  BY <1>1, PosType, PTL
<1>4. n_graph.nth \in Nat \ {0}
  BY <1>0, <1>1, PoolAssumption, SMTT(30) DEF TypeOK, ControlInv
<1>5. Only(n_graph.nth, PosOf, PosOf', t)
  <2>1. \A u \in Members : u # t => Pos(u)' = Pos(u)
    BY <1>2, OthersStay, Zenon DEF PosFacts, Stays, Continues
  <2> QED BY <1>1, <1>2, <1>3, <2>1, Zenon DEF Only, PosFacts
<1>6. Walk(cgraph, n_graph.nth, PosOf, abort, current_chunk, done)
  BY <1>0, <1>1 DEF WorkInv
<1> QED BY <1>0, <1>1, <1>2, <1>3, <1>4, <1>5, <1>6, Zenon DEF MoveFacts, PosFacts, TypeOK

\* What remains to be shown of a thread that stays in the graph, outside the barrier.
LEMMA StaysInv ==
  ASSUME IInv, TypeOK', NEW t \in Threads, Stays(t), n_barrier' = n_barrier,
         th[t].pc \notin {"arrive", "spin", "reset", "pass"},
         th'[t].pc \notin {"arrive", "spin", "reset", "pass"},
         Walk(cgraph, n_graph.nth, PosOf', abort', current_chunk', done')
  PROVE  IInv'
<1>0. TypeOK /\ ControlInv /\ BarrierInv
  BY DEF IInv
<1>1. ControlInv' /\ Active' /\ n_graph' = n_graph /\ cgraph' = cgraph
  BY <1>0, StaysKeeps, SMTT(30)
<1>2. BarrierInv'
  BY <1>0, BarrierAlone, Zenon DEF Stays, Continues
<1>3. th'[0].pc # "kickoff"
  BY <1>1 DEF Active, Working, AtWork
<1>4. WorkInv'
  BY <1>1, <1>3 DEF WorkInv
<1> QED BY <1>1, <1>2, <1>4 DEF IInv

\* The loop over the nodes.
LEMMA NodeStep ==
  ASSUME IInv, TypeOK', NEW t \in Threads, Node(t)
  PROVE  IInv'
<1>0. /\ TypeOK /\ ControlInv /\ th \in [Threads -> ThreadStates] /\ th[t] \in ThreadStates
      /\ t \in Nat
  BY ThreadSets, Zenon DEF IInv, TypeOK
<1> DEFINE s == th[t]
           i == s.node
<1>1. /\ s.pc = "node" /\ UNCHANGED <<n_barrier, current_chunk, abort, done>>
      /\ Alone(t)
  BY <1>0, Zenon DEF Node, Moves, Alone, shared
<1>2. th'[t] = IF s.node > Len(s.graph) \/ abort = s.node THEN Barrier(s, "done")
               ELSE CASE s.graph[s.node].kind = "nop" -> [s EXCEPT !.node = @ + 1]
                      [] s.graph[s.node].kind = "split" -> [s EXCEPT !.pc = "part", !.half = 1, !.cur = t]
                      [] OTHER -> [s EXCEPT !.pc = "part", !.half = 0, !.cur = t]
  BY <1>0, Zenon DEF Node, Moves
<1>3. /\ Barrier(s, "done").pc = "barrier" /\ Barrier(s, "done").ret = "done"
      /\ Barrier(s, "done").node = i
      /\ [s EXCEPT !.node = @ + 1].pc = "node" /\ [s EXCEPT !.node = @ + 1].node = i + 1
      /\ \A b : /\ [s EXCEPT !.pc = "part", !.half = b, !.cur = t].pc = "part"
                /\ [s EXCEPT !.pc = "part", !.half = b, !.cur = t].node = i
                /\ [s EXCEPT !.pc = "part", !.half = b, !.cur = t].half = b
                /\ [s EXCEPT !.pc = "part", !.half = b, !.cur = t].cur = t
  BY <1>0, <1>1 DEF Barrier, ThreadStates
<1>4. /\ th'[t].graph = s.graph /\ th'[t].nth = s.nth
      /\ th'[t].pending = s.pending /\ th'[t].last_graph = s.last_graph
  BY <1>0, <1>2, SMTT(30) DEF Barrier, ThreadStates
<1>5. IF i > Len(s.graph) \/ abort = i
      THEN th'[t].pc = "barrier" /\ th'[t].ret = "done" /\ th'[t].node = i
      ELSE \/ s.graph[i].kind = "nop" /\ th'[t].pc = "node" /\ th'[t].node = i + 1
           \/ /\ s.graph[i].kind # "nop"
              /\ th'[t].pc = "part" /\ th'[t].node = i /\ th'[t].cur = t
              /\ th'[t].half = IF s.graph[i].kind = "split" THEN 1 ELSE 0
  <2>1. CASE i > Len(s.graph) \/ abort = i
    BY <1>2, <1>3, <2>1, Zenon
  <2>2. CASE ~ (i > Len(s.graph) \/ abort = i) /\ s.graph[i].kind = "nop"
    <3>1. th'[t] = [s EXCEPT !.node = @ + 1]
      BY <1>2, <2>2, Zenon
    <3> QED BY <1>3, <2>2, <3>1, Zenon
  <2>3. CASE ~ (i > Len(s.graph) \/ abort = i) /\ s.graph[i].kind = "split"
    <3>1. th'[t] = [s EXCEPT !.pc = "part", !.half = 1, !.cur = t]
      BY <1>2, <2>3, Zenon
    <3> QED BY <1>3, <2>3, <3>1
  <2>4. CASE ~ (i > Len(s.graph) \/ abort = i) /\ s.graph[i].kind # "nop" /\ s.graph[i].kind # "split"
    <3>1. th'[t] = [s EXCEPT !.pc = "part", !.half = 0, !.cur = t]
      BY <1>2, <2>4, Zenon
    <3>2. th'[t].pc = "part" /\ th'[t].node = i /\ th'[t].half = 0 /\ th'[t].cur = t
      BY <1>3, <3>1
    <3> QED BY <2>4, <3>2, Zenon
  <2> QED BY <2>1, <2>2, <2>3, <2>4, ZenonT(30)
<1>6. Stays(t)
  <2>1. Working(t) /\ ~ Released(t) /\ ~ Released(t)'
    BY <1>1, <1>5, Zenon DEF Working, Released, AtWork
  <2>2. th'[t].pc \in AtWork /\ th'[t].pc \notin {"spin", "setchunk"}
        /\ (th'[t].pc \in AtBarrier => th'[t].ret # "none")
    BY <1>5, Zenon DEF AtWork, AtBarrier
  <2> QED BY <1>1, <1>4, <2>1, <2>2, ZenonT(30) DEF Stays, Continues
<1>7. MoveFacts(t)
  BY <1>6, StaysMoves, SMTT(30)
<1>8. Working(t) /\ Working(t)' /\ s.graph = cgraph
  BY <1>0, <1>6, StaysKeeps, ZenonT(30) DEF Stays, Continues
<1>9. PosOf[t] = At("node", i, 0, 0)
  BY <1>1, <1>6, <1>7, <1>8, Zenon DEF MoveFacts, Pos, AtBarrier, Stays, Continues
<1>10. PosOf'[t] = IF th'[t].pc = "barrier" THEN At(th'[t].ret, th'[t].node, 0, 0)
                   ELSE IF th'[t].pc = "node" THEN At("node", th'[t].node, 0, 0)
                   ELSE At(th'[t].pc, th'[t].node, th'[t].half, th'[t].cur)
  BY <1>5, <1>6, <1>7, <1>8, ZenonT(30) DEF MoveFacts, Pos, AtBarrier, Stays, Continues
<1>11. LET p == PosOf'[t]
           j == PosOf[t].node
       IN  IF j > Len(cgraph) \/ abort = j THEN p.pc = "done" /\ p.node = j
           ELSE \/ cgraph[j].kind = "nop" /\ p.pc = "node" /\ p.node = j + 1
                \/ /\ cgraph[j].kind # "nop"
                   /\ p.pc = "part" /\ p.node = j /\ p.cur = t
                   /\ p.half = IF cgraph[j].kind = "split" THEN 1 ELSE 0
  <2>1. PosOf[t].node = i
    BY <1>9 DEF At
  <2>2. CASE i > Len(s.graph) \/ abort = i
    <3>1. PosOf'[t] = At("done", i, 0, 0)
      BY <1>5, <1>10, <2>2, Zenon
    <3>2. PosOf'[t].pc = "done" /\ PosOf'[t].node = i
      BY <3>1 DEF At
    <3> QED BY <1>8, <2>1, <2>2, <3>2, Zenon
  <2>3. CASE ~ (i > Len(s.graph) \/ abort = i) /\ th'[t].pc = "node"
    <3>1. PosOf'[t] = At("node", i + 1, 0, 0) /\ s.graph[i].kind = "nop"
      BY <1>5, <1>10, <2>3
    <3>2. PosOf'[t].pc = "node" /\ PosOf'[t].node = i + 1
      BY <3>1 DEF At
    <3> QED BY <1>8, <2>1, <2>3, <3>1, <3>2, Zenon
  <2>4. CASE ~ (i > Len(s.graph) \/ abort = i) /\ th'[t].pc = "part"
    <3>1. /\ PosOf'[t] = At("part", i, th'[t].half, t) /\ s.graph[i].kind # "nop"
          /\ th'[t].half = IF s.graph[i].kind = "split" THEN 1 ELSE 0
      BY <1>5, <1>10, <2>4
    <3>2. /\ PosOf'[t].pc = "part" /\ PosOf'[t].node = i /\ PosOf'[t].cur = t
          /\ PosOf'[t].half = th'[t].half
      BY <3>1 DEF At
    <3> QED BY <1>8, <2>1, <2>4, <3>1, <3>2, Zenon
  <2> QED BY <1>5, <2>2, <2>3, <2>4, Zenon
<1>12. PosOf[t].pc = "node"
  BY <1>9 DEF At
<1>13. Walk(cgraph, n_graph.nth, PosOf', abort, current_chunk, done)
  BY <1>7, <1>11, <1>12, NodeKeeps, Zenon DEF MoveFacts
<1>14. /\ th[t].pc \notin {"arrive", "spin", "reset", "pass"}
       /\ th'[t].pc \notin {"arrive", "spin", "reset", "pass"}
  BY <1>1, <1>5, Zenon
<1> QED BY <1>1, <1>6, <1>13, <1>14, StaysInv, SMTT(30)

\* A part is computed.
LEMMA PartStep ==
  ASSUME IInv, TypeOK', NEW t \in Threads, Part(t)
  PROVE  IInv'
<1>0. /\ TypeOK /\ ControlInv /\ th \in [Threads -> ThreadStates] /\ th[t] \in ThreadStates
  BY Zenon DEF IInv, TypeOK
<1> DEFINE s == th[t]
<1>1. /\ s.pc = "part" /\ UNCHANGED <<n_barrier, current_chunk, abort>>
      /\ Alone(t) /\ done' = done \cup {<<s.node, s.half, s.cur>>}
  BY <1>0, Zenon DEF Part, Moves, Alone, shared
<1>2. th'[t] = CASE s.half = 0 /\ t = 0 -> [s EXCEPT !.pc = "setchunk"]
                 [] s.half = 0 /\ t # 0 -> Barrier(s, "chunks")
                 [] s.half = 1 /\ NChunks(s.graph[s.node], s.nth) <= s.nth -> [s EXCEPT !.pc = "opdone"]
                 [] OTHER -> [s EXCEPT !.pc = "fetch"]
  BY <1>0, Zenon DEF Part, Moves
<1>3. s.half \in {0, 1}
  BY <1>0 DEF ThreadStates
<1>4. /\ \A p : /\ [s EXCEPT !.pc = p].pc = p /\ [s EXCEPT !.pc = p].node = s.node
                /\ [s EXCEPT !.pc = p].half = s.half /\ [s EXCEPT !.pc = p].cur = s.cur
                /\ [s EXCEPT !.pc = p].graph = s.graph /\ [s EXCEPT !.pc = p].nth = s.nth
                /\ [s EXCEPT !.pc = p].pending = s.pending
                /\ [s EXCEPT !.pc = p].last_graph = s.last_graph
      /\ Barrier(s, "chunks").pc = "barrier" /\ Barrier(s, "chunks").ret = "chunks"
      /\ Barrier(s, "chunks").node = s.node /\ Barrier(s, "chunks").half = s.half
      /\ Barrier(s, "chunks").graph = s.graph /\ Barrier(s, "chunks").nth = s.nth
      /\ Barrier(s, "chunks").pending = s.pending
      /\ Barrier(s, "chunks").last_graph = s.last_graph
  BY <1>0, SMTT(30) DEF Barrier, ThreadStates
<1>5. /\ th'[t].node = s.node /\ th'[t].half = s.half
      /\ th'[t].graph = s.graph /\ th'[t].nth = s.nth
      /\ th'[t].pending = s.pending /\ th'[t].last_graph = s.last_graph
      /\ th'[t].pc = "barrier" => th'[t].ret = "chunks"
      /\ th'[t].pc = IF s.half = 0 THEN IF t = 0 THEN "setchunk" ELSE "barrier"
                     ELSE IF NChunks(s.graph[s.node], s.nth) <= s.nth THEN "opdone" ELSE "fetch"
  <2>1. CASE s.half = 0 /\ t = 0
    <3>1. th'[t] = [s EXCEPT !.pc = "setchunk"]
      BY <1>2, <2>1
    <3> QED BY <1>4, <2>1, <3>1
  <2>2. CASE s.half = 0 /\ t # 0
    <3>1. th'[t] = Barrier(s, "chunks")
      BY <1>2, <2>2
    <3> QED BY <1>4, <2>2, <3>1, Zenon
  <2>3. CASE s.half = 1 /\ NChunks(s.graph[s.node], s.nth) <= s.nth
    <3>1. th'[t] = [s EXCEPT !.pc = "opdone"]
      BY <1>2, <2>3
    <3> QED BY <1>4, <2>3, <3>1
  <2>4. CASE s.half = 1 /\ ~ (NChunks(s.graph[s.node], s.nth) <= s.nth)
    <3>1. th'[t] = [s EXCEPT !.pc = "fetch"]
      BY <1>2, <2>4, SMTT(30)
    <3> QED BY <1>4, <2>4, <3>1
  <2> QED BY <1>3, <2>1, <2>2, <2>3, <2>4, ZenonT(30)
<1>6. Stays(t)
  <2>1. Working(t) /\ ~ Released(t) /\ ~ Released(t)'
    BY <1>1, <1>5, Zenon DEF Working, Released, AtWork
  <2>2. /\ th'[t].pc \in AtWork /\ th'[t].pc # "spin" /\ (t # 0 => th'[t].pc # "setchunk")
        /\ (th'[t].pc \in AtBarrier => th'[t].ret # "none")
    BY <1>5, Zenon DEF AtWork, AtBarrier
  <2> QED BY <1>1, <1>5, <2>1, <2>2, Zenon DEF Stays, Continues
<1>7. MoveFacts(t)
  BY <1>6, StaysMoves
<1>8. Working(t) /\ Working(t)' /\ s.graph = cgraph /\ s.nth = n_graph.nth
  BY <1>0, <1>6, StaysKeeps, Zenon DEF Stays, Continues
<1>9. PosOf[t] = At("part", s.node, s.half, s.cur)
  BY <1>1, <1>6, <1>7, <1>8, Zenon DEF MoveFacts, Pos, AtBarrier, Stays, Continues
<1>10. PosOf'[t] = IF th'[t].pc = "barrier" THEN At("chunks", s.node, 0, 0)
                   ELSE At(th'[t].pc, s.node, s.half, th'[t].cur)
  BY <1>5, <1>6, <1>7, <1>8, ZenonT(30) DEF MoveFacts, Pos, AtBarrier, Stays, Continues
<1>11. /\ PosOf[t].pc = "part" /\ PosOf'[t].node = PosOf[t].node
       /\ PosOf'[t].half = PosOf[t].half
       /\ PosOf'[t].pc = IF PosOf[t].half = 0 THEN IF t = 0 THEN "setchunk" ELSE "chunks"
                         ELSE IF NChunks(cgraph[PosOf[t].node], n_graph.nth) <= n_graph.nth
                              THEN "opdone" ELSE "fetch"
       /\ PosOf[t].node = s.node /\ PosOf[t].half = s.half /\ PosOf[t].cur = s.cur
  <2>1. /\ PosOf[t].pc = "part" /\ PosOf[t].node = s.node
        /\ PosOf[t].half = s.half /\ PosOf[t].cur = s.cur
    BY <1>9 DEF At
  <2>2. /\ PosOf'[t].node = s.node
        /\ PosOf'[t].half = IF th'[t].pc = "barrier" THEN 0 ELSE s.half
        /\ PosOf'[t].pc = IF th'[t].pc = "barrier" THEN "chunks" ELSE th'[t].pc
    BY <1>10 DEF At
  <2> QED BY <1>3, <1>5, <1>8, <2>1, <2>2
<1>12. Walk(cgraph, n_graph.nth, PosOf', abort, current_chunk,
            done \cup {<<PosOf[t].node, PosOf[t].half, PosOf[t].cur>>})
  BY <1>7, <1>11, PartKeeps, Zenon DEF MoveFacts
<1>13. done' = done \cup {<<PosOf[t].node, PosOf[t].half, PosOf[t].cur>>}
  BY <1>1, <1>11, ZenonT(30)
<1>14. /\ th[t].pc \notin {"arrive", "spin", "reset", "pass"}
       /\ th'[t].pc \notin {"arrive", "spin", "reset", "pass"}
  BY <1>1, <1>5, Zenon
<1> QED BY <1>1, <1>6, <1>12, <1>13, <1>14, StaysInv, ZenonT(30)

\* Thread 0 resets current_chunk.
LEMMA SetChunkStep ==
  ASSUME IInv, TypeOK', SetChunk
  PROVE  IInv'
<1>0. /\ TypeOK /\ ControlInv /\ th \in [Threads -> ThreadStates] /\ 0 \in Threads
      /\ th[0] \in ThreadStates
  BY ThreadSets, Zenon DEF IInv, TypeOK
<1> DEFINE s == th[0]
<1>1. /\ s.pc = "setchunk" /\ UNCHANGED <<n_barrier, abort, done>>
      /\ Alone(0) /\ current_chunk' = s.nth /\ th'[0] = Barrier(s, "chunks")
  BY <1>0 DEF SetChunk, Moves, Alone
<1>2. /\ th'[0].pc = "barrier" /\ th'[0].ret = "chunks" /\ th'[0].node = s.node
      /\ th'[0].graph = s.graph /\ th'[0].nth = s.nth
      /\ th'[0].pending = s.pending /\ th'[0].last_graph = s.last_graph
  BY <1>0, <1>1, SMTT(30) DEF Barrier, ThreadStates
<1>3. Stays(0)
  BY <1>1, <1>2, Zenon DEF Stays, Continues, Working, Released, AtWork
<1>4. MoveFacts(0)
  BY <1>0, <1>3, StaysMoves, SMTT(30)
<1>5. Working(0) /\ Working(0)' /\ s.nth = n_graph.nth
  BY <1>0, <1>3, StaysKeeps, Zenon DEF Stays, Continues
<1>6. PosOf[0] = At("setchunk", s.node, s.half, s.cur)
  BY <1>1, <1>3, <1>4, <1>5, Zenon DEF MoveFacts, Pos, AtBarrier, Stays, Continues
<1>7. PosOf'[0] = At("chunks", s.node, 0, 0)
  BY <1>2, <1>3, <1>4, <1>5, ZenonT(30) DEF MoveFacts, Pos, AtBarrier, Stays, Continues
<1>8. PosOf[0].pc = "setchunk" /\ PosOf'[0].pc = "chunks" /\ PosOf'[0].node = PosOf[0].node
  BY <1>6, <1>7 DEF At
<1>9. Walk(cgraph, n_graph.nth, PosOf', abort, n_graph.nth, done)
  BY <1>4, <1>8, SetChunkKeeps, Zenon DEF MoveFacts
<1>10. /\ th[0].pc \notin {"arrive", "spin", "reset", "pass"}
       /\ th'[0].pc \notin {"arrive", "spin", "reset", "pass"}
  BY <1>1, <1>2, Zenon
<1> QED BY <1>0, <1>1, <1>3, <1>5, <1>9, <1>10, StaysInv, Zenon

\* A thread fetches a chunk.
LEMMA FetchStep ==
  ASSUME IInv, TypeOK', NEW t \in Threads, FetchChunk(t)
  PROVE  IInv'
<1>0. /\ TypeOK /\ ControlInv /\ th \in [Threads -> ThreadStates] /\ th[t] \in ThreadStates
  BY Zenon DEF IInv, TypeOK
<1> DEFINE s == th[t]
           p == IF current_chunk < NChunks(s.graph[s.node], s.nth) THEN "part" ELSE "opdone"
<1>1. /\ s.pc = "fetch" /\ UNCHANGED <<n_barrier, abort, done>>
      /\ Alone(t) /\ current_chunk' = current_chunk + 1
      /\ th'[t] = [s EXCEPT !.pc = p, !.cur = current_chunk]
  BY <1>0 DEF FetchChunk, Moves, Alone
<1>2. p \in {"part", "opdone"}
  OBVIOUS
<1>3. /\ th'[t].pc = p /\ th'[t].node = s.node /\ th'[t].half = s.half
      /\ th'[t].cur = current_chunk
      /\ th'[t].graph = s.graph /\ th'[t].nth = s.nth
      /\ th'[t].pending = s.pending /\ th'[t].last_graph = s.last_graph
  <2> HIDE DEF p
  <2> QED BY <1>0, <1>1 DEF ThreadStates
<1>4. Stays(t)
  <2>1. Working(t) /\ ~ Released(t) /\ ~ Released(t)'
    BY <1>1, <1>2, <1>3, SMTT(30) DEF Working, Released, AtWork
  <2>2. th'[t].pc \in AtWork /\ th'[t].pc \notin {"spin", "setchunk"} \cup AtBarrier
    BY <1>2, <1>3, Zenon DEF AtWork, AtBarrier
  <2> QED BY <1>1, <1>3, <2>1, <2>2, Zenon DEF Stays, Continues
<1>5. MoveFacts(t)
  BY <1>4, StaysMoves
<1>6. Working(t) /\ Working(t)' /\ s.graph = cgraph /\ s.nth = n_graph.nth
  BY <1>0, <1>4, StaysKeeps, Zenon DEF Stays, Continues
<1>7. PosOf[t] = At("fetch", s.node, s.half, s.cur)
  BY <1>1, <1>4, <1>5, <1>6, Zenon DEF MoveFacts, Pos, AtBarrier, Stays, Continues
<1>8. PosOf'[t] = At(p, s.node, s.half, current_chunk)
  <2>1. th'[t].pc \notin AtBarrier /\ th'[t].pc # "node"
    BY <1>2, <1>3, Zenon DEF AtBarrier
  <2> HIDE DEF p
  <2> QED BY <1>3, <1>4, <1>5, <1>6, <2>1, ZenonT(30) DEF MoveFacts, Pos, Stays, Continues
<1>9. /\ PosOf[t].pc = "fetch" /\ PosOf'[t].node = PosOf[t].node
      /\ PosOf'[t].half = PosOf[t].half /\ PosOf'[t].cur = current_chunk
      /\ PosOf'[t].pc = IF current_chunk < NChunks(cgraph[PosOf[t].node], n_graph.nth)
                        THEN "part" ELSE "opdone"
  BY <1>6, <1>7, <1>8 DEF At
<1>10. Walk(cgraph, n_graph.nth, PosOf', abort, current_chunk + 1, done)
  BY <1>5, <1>9, FetchKeeps, Zenon DEF MoveFacts
<1>11. /\ th[t].pc \notin {"arrive", "spin", "reset", "pass"}
       /\ th'[t].pc \notin {"arrive", "spin", "reset", "pass"}
  BY <1>1, <1>2, <1>3, Zenon
<1> QED BY <1>1, <1>4, <1>10, <1>11, StaysInv, Zenon

\* A node is left; thread 0 may be told to abort.
LEMMA OpDoneStep ==
  ASSUME IInv, TypeOK', NEW t \in Threads, OpDone(t)
  PROVE  IInv'
<1>0. /\ TypeOK /\ ControlInv /\ th \in [Threads -> ThreadStates] /\ th[t] \in ThreadStates
  BY Zenon DEF IInv, TypeOK
<1> DEFINE s == th[t]
<1>1. /\ s.pc = "opdone" /\ UNCHANGED <<n_barrier, current_chunk, done>>
      /\ Alone(t) /\ abort' \in {abort, s.node + 1}
  BY <1>0 DEF OpDone, Moves, Alone
<1>2. th'[t] = IF s.node < Len(s.graph) THEN Barrier(s, "next")
               ELSE [s EXCEPT !.pc = "node", !.node = @ + 1, !.half = 0, !.cur = 0]
  BY <1>0, SMTT(30) DEF OpDone, Moves
<1>3. /\ th'[t].graph = s.graph /\ th'[t].nth = s.nth
      /\ th'[t].pending = s.pending /\ th'[t].last_graph = s.last_graph
      /\ IF s.node < Len(s.graph)
         THEN th'[t].pc = "barrier" /\ th'[t].ret = "next" /\ th'[t].node = s.node
         ELSE th'[t].pc = "node" /\ th'[t].node = s.node + 1
  <2>1. CASE s.node < Len(s.graph)
    <3>1. th'[t] = Barrier(s, "next")
      BY <1>2, <2>1
    <3> QED BY <1>0, <2>1, <3>1 DEF Barrier, ThreadStates
  <2>2. CASE ~ (s.node < Len(s.graph))
    <3>1. th'[t] = [s EXCEPT !.pc = "node", !.node = @ + 1, !.half = 0, !.cur = 0]
      BY <1>2, <2>2, SMTT(30)
    <3> QED BY <1>0, <2>2, <3>1 DEF ThreadStates
  <2> QED BY <2>1, <2>2, Zenon
<1>4. Stays(t)
  <2>1. Working(t) /\ ~ Released(t) /\ ~ Released(t)'
    BY <1>1, <1>3, Zenon DEF Working, Released, AtWork
  <2>2. /\ th'[t].pc \in AtWork /\ th'[t].pc \notin {"spin", "setchunk"}
        /\ th'[t].pc \in AtBarrier => th'[t].ret # "none"
    BY <1>3, Zenon DEF AtWork, AtBarrier
  <2> QED BY <1>1, <1>3, <2>1, <2>2, Zenon DEF Stays, Continues
<1>5. MoveFacts(t)
  BY <1>4, StaysMoves
<1>6. Working(t) /\ Working(t)' /\ s.graph = cgraph
  BY <1>0, <1>4, StaysKeeps, Zenon DEF Stays, Continues
<1>7. PosOf[t] = At("opdone", s.node, s.half, s.cur)
  BY <1>1, <1>4, <1>5, <1>6, Zenon DEF MoveFacts, Pos, AtBarrier, Stays, Continues
<1>8. PosOf'[t] = IF s.node < Len(s.graph) THEN At("next", s.node, 0, 0)
                  ELSE At("node", s.node + 1, 0, 0)
  BY <1>3, <1>4, <1>5, <1>6, ZenonT(30) DEF MoveFacts, Pos, AtBarrier, Stays, Continues
<1>9. /\ PosOf[t].pc = "opdone" /\ (abort' = abort \/ abort' = PosOf[t].node + 1)
      /\ IF PosOf[t].node < Len(cgraph)
         THEN PosOf'[t].pc = "next" /\ PosOf'[t].node = PosOf[t].node
         ELSE PosOf'[t].pc = "node" /\ PosOf'[t].node = PosOf[t].node + 1
  <2>1. /\ PosOf[t].pc = "opdone" /\ PosOf[t].node = s.node
        /\ PosOf'[t].pc = IF s.node < Len(s.graph) THEN "next" ELSE "node"
        /\ PosOf'[t].node = IF s.node < Len(s.graph) THEN s.node ELSE s.node + 1
    BY <1>7, <1>8 DEF At
  <2> QED BY <1>1, <1>6, <2>1, Zenon
<1>10. Walk(cgraph, n_graph.nth, PosOf', abort', current_chunk, done)
  BY <1>5, <1>9, OpDoneKeeps, Zenon DEF MoveFacts
<1>11. /\ th[t].pc \notin {"arrive", "spin", "reset", "pass"}
       /\ th'[t].pc \notin {"arrive", "spin", "reset", "pass"}
  BY <1>1, <1>3, Zenon
<1> QED BY <1>1, <1>4, <1>10, <1>11, StaysInv, Zenon

-----------------------------------------------------------------------------
(* The barrier                                                              *)

\* While a thread of the graph is not spinning, no other has been the last to arrive.
LEMMA NoneLast ==
  ASSUME TypeOK, ControlInv, BarrierInv, NEW t \in Threads, Working(t), th[t].pc # "spin",
         NEW u \in Threads \ {t}
  PROVE  th[u].pc \notin {"reset", "pass"}
<1>1. t \in Members
  BY Zenon DEF ControlInv, ThreadInv
<1> QED BY <1>1, Zenon DEF BarrierInv, Others

\* thread t goes on in the barrier that it is in
InBarrier(t) ==
  /\ Alone(t) /\ UNCHANGED <<current_chunk, abort, done>>
  /\ th[t].pc \in AtBarrier \ {"spin"} /\ th'[t].pc \in AtBarrier
  /\ th'[t].pc = "spin" => th'[t].np = n_barrier_passed
  /\ th'[t].node = th[t].node /\ th'[t].ret = th[t].ret
  /\ th'[t].graph = th[t].graph /\ th'[t].nth = th[t].nth
  /\ th'[t].pending = th[t].pending /\ th'[t].last_graph = th[t].last_graph

\* The graph does not go on while a thread goes on in the barrier.
LEMMA InBarrierKeeps ==
  ASSUME IInv, TypeOK', NEW t \in Threads, InBarrier(t)
  PROVE  ControlInv' /\ WorkInv' /\ Working(t) /\ Working(t)' /\ t \in Members
<1>0. TypeOK /\ ControlInv /\ WorkInv /\ n_barrier_passed \in Nat
  BY DEF IInv, TypeOK
<1>1. Working(t) /\ ~ Released(t) /\ ~ Released(t)'
  BY Zenon DEF InBarrier, Working, Released, AtBarrier, AtWork, Alone
<1>2. th[t].ret # "none"
  BY <1>0, Zenon DEF ControlInv, ThreadInv, InBarrier
<1>3. Stays(t)
  <2>1. th'[t].pc \in AtWork /\ th'[t].pc # "setchunk"
    BY Zenon DEF InBarrier, AtBarrier, AtWork
  <2> QED BY <1>0, <1>1, <1>2, <2>1, SMTT(30) DEF Stays, Continues, InBarrier
<1>4. /\ ControlInv' /\ Working(t)' /\ Active /\ Active' /\ t \in Members
      /\ n_graph' = n_graph /\ cgraph' = cgraph
  BY <1>0, <1>3, StaysKeeps, Zenon
<1>5. Pos(t)' = Pos(t)
  BY <1>1, <1>4, Zenon DEF Pos, At, InBarrier
<1>6. PosOf' = PosOf
  BY <1>0, <1>5, PosAlone, Zenon DEF InBarrier
<1>7. th'[0].pc # "kickoff"
  BY <1>4, Zenon DEF Active, Working, AtWork
<1>8. WorkInv'
  BY <1>0, <1>4, <1>6, <1>7, Zenon DEF WorkInv, InBarrier
<1> QED BY <1>1, <1>4, <1>8

\* With several threads: the barrier is entered.
LEMMA ReadStep ==
  ASSUME IInv, TypeOK', NEW t \in Threads, BarrierRead(t), n_graph.nth # 1
  PROVE  IInv'
<1>0. /\ TypeOK /\ ControlInv /\ BarrierInv /\ th \in [Threads -> ThreadStates]
      /\ th[t] \in ThreadStates
  BY Zenon DEF IInv, TypeOK
<1>1. /\ Alone(t) /\ UNCHANGED <<n_barrier, current_chunk, abort, done>> /\ th[t].pc = "barrier"
      /\ th'[t] = [th[t] EXCEPT !.pc = "arrive", !.nb = n_graph.nth, !.np = n_barrier_passed]
  BY <1>0 DEF BarrierRead, Moves, Alone, shared
<1>2. /\ th'[t].pc = "arrive" /\ th'[t].nb = n_graph.nth /\ th'[t].np = n_barrier_passed
      /\ th'[t].node = th[t].node /\ th'[t].ret = th[t].ret
      /\ th'[t].graph = th[t].graph /\ th'[t].nth = th[t].nth
      /\ th'[t].pending = th[t].pending /\ th'[t].last_graph = th[t].last_graph
  BY <1>0, <1>1 DEF ThreadStates
<1>3. InBarrier(t)
  BY <1>1, <1>2 DEF InBarrier, AtBarrier
<1>4. ControlInv' /\ WorkInv' /\ Working(t)
  BY <1>3, InBarrierKeeps
<1>5. \A u \in Threads \ {t} : /\ th'[u] = th[u] /\ (Released(u)' <=> Released(u))
                               /\ th[u].pc \notin {"reset", "pass"}
  BY <1>0, <1>1, <1>4, OthersStay, NoneLast, Zenon DEF Alone
<1>6. Arrived' = Arrived
  <2>1. t \notin Arrived /\ t \notin Arrived'
    BY <1>1, <1>2, Zenon DEF Arrived
  <2>2. ASSUME NEW u \in Threads \ {t}
        PROVE  u \in Arrived' <=> u \in Arrived
    BY <1>5 DEF Arrived
  <2>3. Arrived \subseteq Threads /\ Arrived' \subseteq Threads
    BY DEF Arrived
  <2> QED BY <2>1, <2>2, <2>3
<1>7. \A u \in Threads : th[u].pc # "pass" /\ th'[u].pc \notin {"reset", "pass"}
  BY <1>1, <1>2, <1>5, ZenonT(30)
<1>8. ASSUME NEW u \in Threads, th'[u].pc = "arrive"
      PROVE  th'[u].np = n_barrier_passed' /\ th'[u].nb = n_graph'.nth
  <2>1. UNCHANGED <<n_graph, n_barrier_passed>>
    BY <1>1 DEF Alone
  <2>2. CASE u = t
    BY <1>2, <2>1, <2>2, Zenon
  <2>3. CASE u # t
    BY <1>0, <1>5, <1>8, <2>1, <2>3, Zenon DEF BarrierInv
  <2> QED BY <2>2, <2>3
<1>9. BarrierInv'
  BY <1>0, <1>1, <1>6, <1>7, <1>8, Zenon DEF BarrierInv
<1> QED BY <1>4, <1>9 DEF IInv

\* The last thread resets n_barrier while the others spin.
LEMMA ResetStep ==
  ASSUME IInv, TypeOK', NEW t \in Threads, BarrierReset(t)
  PROVE  IInv'
<1>0. /\ TypeOK /\ ControlInv /\ BarrierInv /\ th \in [Threads -> ThreadStates]
      /\ th[t] \in ThreadStates
  BY Zenon DEF IInv, TypeOK
<1>1. /\ Alone(t) /\ UNCHANGED <<current_chunk, abort, done>> /\ th[t].pc = "reset"
      /\ n_barrier' = 0 /\ th'[t] = [th[t] EXCEPT !.pc = "pass"]
  BY <1>0 DEF BarrierReset, Goto, Alone
<1>2. /\ th'[t].pc = "pass"
      /\ th'[t].node = th[t].node /\ th'[t].ret = th[t].ret
      /\ th'[t].graph = th[t].graph /\ th'[t].nth = th[t].nth
      /\ th'[t].pending = th[t].pending /\ th'[t].last_graph = th[t].last_graph
  BY <1>0, <1>1 DEF ThreadStates
<1>3. InBarrier(t)
  BY <1>1, <1>2 DEF InBarrier, AtBarrier
<1>4. ControlInv' /\ WorkInv' /\ Working(t)
  BY <1>3, InBarrierKeeps
<1>5. \A u \in Threads \ {t} : /\ th'[u] = th[u] /\ (Released(u)' <=> Released(u))
                               /\ th[u].pc \notin {"reset", "pass"}
  BY <1>0, <1>1, <1>4, OthersStay, NoneLast, SMTT(30) DEF Alone
<1>6. Others(t)'
  <2>1. Others(t)
    BY <1>0, <1>1 DEF BarrierInv
  <2>2. Members' = Members /\ Members \subseteq Threads
    BY <1>0, <1>1, PosType, Zenon DEF Members, Alone, PosFacts
  <2> QED BY <1>5, <2>1, <2>2 DEF Others
<1>7. ASSUME NEW u \in Threads
      PROVE  /\ th'[u].pc = "arrive" => th'[u].np = n_barrier_passed' /\ th'[u].nb = n_graph'.nth
             /\ th'[u].pc \in {"reset", "pass"} => Others(u)'
  <2>1. CASE u = t
    BY <1>2, <1>6, <2>1, Zenon
  <2>2. CASE u # t
    BY <1>0, <1>1, <1>5, <2>2 DEF BarrierInv, Alone
  <2> QED BY <2>1, <2>2, Zenon
<1>8. BarrierInv'
  BY <1>1, <1>2, <1>7, Zenon DEF BarrierInv
<1> QED BY <1>4, <1>8 DEF IInv

-----------------------------------------------------------------------------
(* Beyond the barrier                                                       *)

\* where a thread goes from a barrier
PastFacts(t, s, p) ==
  /\ p.last_graph = s.last_graph
  /\ s.ret = "chunks" => /\ p.pc = IF t < NChunks(s.graph[s.node], s.nth) THEN "part" ELSE "opdone"
                         /\ p.node = s.node /\ p.half = 1 /\ p.cur = t
  /\ s.ret = "next" => p.pc = "node" /\ p.node = s.node + 1
  /\ s.ret \in {"chunks", "next"} =>
       p.graph = s.graph /\ p.nth = s.nth /\ p.pending = s.pending
  /\ s.ret = "done" => p.pc = (IF t = 0 THEN "idle" ELSE "top") /\ ~ p.pending

\* Past, field by field.
LEMMA PastShape ==
  ASSUME NEW t \in Threads, NEW s \in ThreadStates, s.ret # "none"
  PROVE  PastFacts(t, s, Past(t, s)) /\ s.ret \in {"chunks", "next", "done"}
<1>0. s.ret \in {"chunks", "next", "done"}
  BY DEF ThreadStates, Rets, Barriers
<1>1. CASE s.ret = "chunks"
  <2> DEFINE pc == IF t < NChunks(s.graph[s.node], s.nth) THEN "part" ELSE "opdone"
  <2>1. Past(t, s) = [s EXCEPT !.pc = pc, !.half = 1, !.cur = t, !.np = 0, !.nb = 0, !.ret = "none"]
    BY <1>1 DEF Past
  <2> HIDE DEF pc
  <2>2. /\ Past(t, s).pc = pc /\ Past(t, s).node = s.node /\ Past(t, s).half = 1
        /\ Past(t, s).cur = t /\ Past(t, s).graph = s.graph /\ Past(t, s).nth = s.nth
        /\ Past(t, s).pending = s.pending /\ Past(t, s).last_graph = s.last_graph
    BY <2>1, SMTT(30) DEF ThreadStates
  <2> QED BY <1>0, <1>1, <2>2, Zenon DEF PastFacts, pc
<1>2. CASE s.ret = "next"
  <2>1. Past(t, s) = [s EXCEPT !.pc = "node", !.node = @ + 1, !.half = 0, !.cur = 0,
                               !.np = 0, !.nb = 0, !.ret = "none"]
    BY <1>2 DEF Past
  <2>2. /\ Past(t, s).pc = "node" /\ Past(t, s).node = s.node + 1
        /\ Past(t, s).graph = s.graph /\ Past(t, s).nth = s.nth
        /\ Past(t, s).pending = s.pending /\ Past(t, s).last_graph = s.last_graph
    BY <2>1 DEF ThreadStates
  <2> QED BY <1>0, <1>2, <2>2, Zenon DEF PastFacts
<1>3. CASE s.ret = "done"
  BY <1>0, <1>3 DEF Past, Idle, PastFacts
<1> QED BY <1>0, <1>1, <1>2, <1>3

\* A released thread leaves the barrier, and is then where it was counted to be.
LEMMA SpinStep ==
  ASSUME IInv, TypeOK', NEW t \in Threads, BarrierSpin(t)
  PROVE  IInv'
<1>0. /\ TypeOK /\ ControlInv /\ BarrierInv /\ WorkInv /\ 0 \in Threads
      /\ th \in [Threads -> ThreadStates] /\ th[t] \in ThreadStates
  BY ThreadSets, Zenon DEF IInv, TypeOK
<1>1. /\ Alone(t) /\ UNCHANGED <<n_barrier, current_chunk, abort, done>>
      /\ th[t].pc = "spin" /\ Released(t) /\ th'[t] = Past(t, th[t])
  BY <1>0, Zenon DEF BarrierSpin, Moves, Alone, shared, Released
<1>2. ThreadInv(t) /\ th[t].ret # "none" /\ (t # 0 => ~ th[t].pending)
  BY <1>0, <1>1, Zenon DEF ControlInv, ThreadInv, AtBarrier, AtWork
<1>3. PastFacts(t, th[t], th'[t]) /\ th[t].ret \in {"chunks", "next", "done"}
  BY <1>0, <1>1, <1>2, PastShape, Zenon
<1>4. CASE th[t].ret = "done"
  <2>1. th'[t].pc = (IF t = 0 THEN "idle" ELSE "top") /\ ~ th'[t].pending
        /\ th'[t].last_graph = th[t].last_graph
    BY <1>3, <1>4, Zenon DEF PastFacts
  <2>2. ~ Working(t) /\ ~ Working(t)'
    BY <1>1, <1>4, <2>1, Zenon DEF Working, AtWork
  <2>3. /\ (Active' <=> Active) /\ Members' = Members /\ n_graph' = n_graph /\ cgraph' = cgraph
        /\ th'[0].pc # "kickoff" \/ th'[0] = th[0]
    BY <1>0, <1>1, <2>1, <2>2, OthersStay, SMTT(30) DEF Active, Alone, Members
  <2>4. ThreadInv(t)'
    <3>1. t # 0 => (Due(t)' <=> Due(t))
      BY <1>2, <2>1, <2>3, Zenon DEF Due
    <3> QED BY <1>2, <2>1, <2>2, <2>3, <3>1, SMTT(30)
            DEF ThreadInv, AtBarrier, AtWork, WorkerPcs, MainPcs
  <2>5. ControlInv'
    BY <1>0, <1>1, <2>3, <2>4, ControlAlone, SMTT(30) DEF ControlInv
  <2>6. BarrierInv'
    BY <1>0, <1>1, <2>1, BarrierAlone, Zenon
  <2>7. PosOf' = PosOf
    <3>1. Pos(t)' = Pos(t)
      BY <2>2, Zenon DEF Pos, At
    <3> QED BY <1>0, <1>1, <3>1, PosAlone, Zenon
  <2>8. th[0].pc # "kickoff" \/ th'[0] = th[0]
    BY <1>0, <1>1, Zenon DEF Alone
  <2>9. WorkInv'
    BY <1>0, <1>1, <2>3, <2>7, <2>8, ZenonT(30) DEF WorkInv
  <2> QED BY <2>5, <2>6, <2>9 DEF IInv
<1>5. CASE th[t].ret \in {"chunks", "next"}
  <2>1. Working(t)
    BY <1>1, <1>5, Zenon DEF Working, AtWork
  <2>2. PosFacts /\ Active /\ t \in Members /\ th[t].graph = cgraph /\ th[t].nth = n_graph.nth
    BY <1>0, <1>2, <2>1, PosType, Zenon DEF ThreadInv
  <2>3. Pos(t) = IF th[t].ret = "chunks" THEN At("part", th[t].node, 1, t)
                 ELSE At("node", th[t].node + 1, 0, 0)
    BY <1>1, <2>1, Zenon DEF Pos
  <2>4. ASSUME th[t].ret = "chunks"
        PROVE  th'[t].pc = "part"
    <3>1. PosOf[t].pc = "part" /\ PosOf[t].node = th[t].node
      BY <2>2, <2>3, <2>4, SMTT(30) DEF PosFacts, At
    <3>2. /\ cgraph \in Seq(Nodes) /\ n_graph.nth \in Nat \ {0} /\ abort \in Nat
          /\ current_chunk \in Nat /\ PosOf \in [0 .. n_graph.nth - 1 -> Positions]
          /\ t \in 0 .. n_graph.nth - 1
          /\ Walk(cgraph, n_graph.nth, PosOf, abort, current_chunk, done)
      BY <1>0, <2>2, GraphTypes, Zenon DEF WorkInv, PosFacts
    <3>3. t < NChunks(cgraph[PosOf[t].node], n_graph.nth)
      BY <3>1, <3>2, PartNode, Zenon
    <3> QED BY <1>3, <2>2, <2>4, <3>1, <3>3, SMTT(30) DEF PastFacts
  <2>5. /\ th'[t].pc \in {"part", "node"} /\ th'[t].graph = th[t].graph /\ th'[t].nth = th[t].nth
        /\ th'[t].pending = th[t].pending /\ th'[t].last_graph = th[t].last_graph
    BY <1>3, <1>5, <2>4, Zenon DEF PastFacts
  <2>6. Continues(t)
    BY <1>1, <2>1, <2>5, Zenon DEF Continues, AtWork, AtBarrier, Released
  <2>7. /\ ControlInv' /\ Working(t)' /\ Active' /\ n_graph' = n_graph /\ cgraph' = cgraph
    BY <1>0, <2>6, ContinuesKeeps, ZenonT(30)
  <2>8. BarrierInv'
    BY <1>0, <1>1, <2>5, BarrierAlone, SMTT(30)
  <2>9. PosOf' = PosOf
    <3>1. ~ Released(t)' /\ th'[t].pc \notin AtBarrier
      BY <2>5, Zenon DEF Released, AtBarrier
    <3>2. Pos(t)' = Pos(t)
      BY <1>3, <1>5, <2>3, <2>4, <2>7, <3>1, ZenonT(30) DEF Pos, At, PastFacts
    <3> QED BY <1>0, <1>1, <3>2, PosAlone, Zenon
  <2>10. th'[0].pc # "kickoff"
    BY <2>7, Zenon DEF Active, Working, AtWork
  <2>11. WorkInv'
    BY <1>0, <1>1, <2>2, <2>7, <2>9, <2>10, ZenonT(30) DEF WorkInv
  <2> QED BY <2>7, <2>8, <2>11, SMTT(30) DEF IInv
<1> QED BY <1>3, <1>4, <1>5, SMTT(30)

\* thread t takes all threads of the graph over the barrier
Cross(t) ==
  /\ \A u \in Threads \ {t} : th'[u] = th[u]
  /\ UNCHANGED <<n_graph, n_barrier, cgraph, abort, current_chunk, done>>
  /\ n_barrier_passed <= n_barrier_passed'
  /\ th[t].pc \in AtBarrier \ {"spin"} /\ th'[t] = Past(t, th[t])
  /\ n_barrier = 0
  /\ Others(t) /\ \A u \in Members \ {t} : Released(u)'

CrossFacts(t) ==
  /\ Working(t) /\ Active /\ t \in Members /\ 0 \in Members /\ Members' = Members
  /\ PosFacts /\ PastFacts(t, th[t], th'[t]) /\ th[t].ret \in {"chunks", "next", "done"}
  /\ \A u \in Members : /\ Working(u) /\ PosOf[u] = At(th[t].ret, th[t].node, 0, 0)
                        /\ th[u].ret = th[t].ret /\ th[u].node = th[t].node
  /\ \A u \in Threads \ {t} : th[u].pc \in AtWork => th[u].pc = "spin" /\ Released(u)'
  /\ \A u \in Threads \ Members : th[u].pc \in AtWork => th[u].ret = "done"

\* All threads of the graph are at the barrier that is crossed.
LEMMA CrossShape ==
  ASSUME IInv, NEW t \in Threads, Cross(t)
  PROVE  CrossFacts(t)
<1>0. /\ TypeOK /\ ControlInv /\ BarrierInv /\ WorkInv /\ 0 \in Threads
      /\ th \in [Threads -> ThreadStates] /\ th[t] \in ThreadStates
      /\ n_barrier_passed \in Nat /\ PosFacts
  BY ThreadSets, PosType, Zenon DEF IInv, TypeOK
<1>1. Working(t) /\ ~ Released(t) /\ th[t].pc \in AtBarrier
  BY Zenon DEF Cross, Working, Released, AtBarrier, AtWork
<1>2. ThreadInv(t) /\ th[t].ret # "none"
  BY <1>0, <1>1, Zenon DEF ControlInv, ThreadInv
<1>3. /\ Active /\ t \in Members /\ 0 \in Members /\ Members' = Members
      /\ n_graph.nth \in Nat \ {0}
  <2>1. Active /\ t \in Members
    BY <1>1, <1>2, Zenon DEF ThreadInv
  <2>2. Members' = Members
    BY Zenon DEF Members, Cross
  <2> QED BY <1>0, <2>1, <2>2, GraphTypes, Zenon
<1>4. PastFacts(t, th[t], th'[t]) /\ th[t].ret \in {"chunks", "next", "done"}
  BY <1>0, <1>2, PastShape, Zenon DEF Cross
<1>5. ASSUME NEW u \in Members
      PROVE  /\ Working(u) /\ ~ Released(u) /\ th[u].pc \in AtBarrier /\ th[u].ret # "none"
             /\ PosOf[u] = At(th[u].ret, th[u].node, 0, 0) /\ PosOf[u].pc \in Barriers
             /\ th[u].ret \in Rets
  <2>1. u \in Threads /\ th[u] \in ThreadStates
    BY <1>0, Zenon DEF PosFacts
  <2>2. Working(u) /\ ~ Released(u) /\ th[u].pc \in AtBarrier
    BY <1>1, <1>5, Zenon DEF Cross, Others, Working, AtWork, AtBarrier
  <2>3. th[u].ret # "none"
    BY <1>0, <2>1, <2>2, Zenon DEF ControlInv, ThreadInv
  <2>4. th[u].ret \in Rets
    BY <2>1, Zenon DEF ThreadStates
  <2>5. PosOf[u] = At(th[u].ret, th[u].node, 0, 0)
    BY <1>0, <2>2, Zenon DEF PosFacts, Pos
  <2>6. PosOf[u].pc \in Barriers
    BY <2>3, <2>4, <2>5, SMTT(30) DEF At, Rets
  <2> QED BY <2>2, <2>3, <2>4, <2>5, <2>6, Zenon
<1>6. ASSUME NEW u \in Members
      PROVE  th[u].ret = th[t].ret /\ th[u].node = th[t].node
  <2>1. /\ cgraph \in Seq(Nodes) /\ abort \in Nat /\ current_chunk \in Nat
        /\ PosOf \in [0 .. n_graph.nth - 1 -> Positions]
        /\ t \in 0 .. n_graph.nth - 1 /\ u \in 0 .. n_graph.nth - 1
        /\ Walk(cgraph, n_graph.nth, PosOf, abort, current_chunk, done)
    BY <1>0, <1>3, <1>6, Zenon DEF TypeOK, WorkInv, PosFacts
  <2>2. PosOf[u].pc \in Barriers /\ PosOf[t].pc \in Barriers
    BY <1>3, <1>5, <1>6, Zenon
  <2>3. PosOf[u].pc = PosOf[t].pc /\ PosOf[u].node = PosOf[t].node
    BY <1>3, <2>1, <2>2, SameBarrier, Zenon
  <2>4. PosOf[u] = At(th[u].ret, th[u].node, 0, 0) /\ PosOf[t] = At(th[t].ret, th[t].node, 0, 0)
    BY <1>3, <1>5, Zenon
  <2> QED BY <2>3, <2>4, SMTT(30) DEF At
<1>7. ASSUME NEW u \in Threads \ Members, th[u].pc \in AtWork
      PROVE  th[u].pc = "spin" /\ th[u].ret = "done" /\ Released(u)'
  <2>1. ThreadInv(u)
    BY <1>0, Zenon DEF ControlInv
  <2>2. Released(u) /\ th[u].ret = "done"
    BY <1>7, <2>1, Zenon DEF ThreadInv, Working
  <2>3. th[u].pc = "spin" /\ th[u].np \in Nat /\ th[u].np <= n_barrier_passed
        /\ th[u].np # n_barrier_passed
    BY <1>0, <2>1, <2>2, Zenon DEF ThreadInv, Released, ThreadStates
  <2>4. th'[u] = th[u] /\ n_barrier_passed <= n_barrier_passed'
    BY <1>3 DEF Cross
  <2>5. th[u].np < n_barrier_passed
    BY <1>0, <2>3, SMTT(30)
  <2> QED BY <1>0, <2>2, <2>3, <2>4, <2>5, SMT DEF Released
<1>8. ASSUME NEW u \in Threads \ {t}, th[u].pc \in AtWork
      PROVE  th[u].pc = "spin" /\ Released(u)'
  BY <1>7, <1>8, Zenon DEF Cross, Others
<1> QED BY <1>0, <1>1, <1>3, <1>4, <1>5, <1>6, <1>7, <1>8, SMTT(30) DEF CrossFacts

\* The threads are over the barrier, or out of the graph if it was the last.
LEMMA CrossWorking ==
  ASSUME IInv, NEW t \in Threads, Cross(t), CrossFacts(t)
  PROVE  /\ th[t].ret = "chunks" => th'[t].pc = "part"
         /\ th'[t].pc \in {"part", "node", "idle", "top"}
         /\ \A u \in Threads : Working(u)' <=> u \in Members /\ th[t].ret # "done"
         /\ Active' <=> th[t].ret # "done"
<1>0. /\ TypeOK /\ ControlInv /\ WorkInv /\ 0 \in Threads
  BY PoolAssumption, SMTT(30) DEF IInv, Threads
<1>1. ASSUME th[t].ret = "chunks"
      PROVE  th'[t].pc = "part"
  <2>1. /\ cgraph \in Seq(Nodes) /\ abort \in Nat /\ current_chunk \in Nat
        /\ n_graph.nth \in Nat \ {0} /\ th[t].graph = cgraph /\ th[t].nth = n_graph.nth
        /\ PosOf \in [0 .. n_graph.nth - 1 -> Positions] /\ t \in 0 .. n_graph.nth - 1
        /\ Walk(cgraph, n_graph.nth, PosOf, abort, current_chunk, done)
    BY <1>0, GraphTypes, Zenon DEF WorkInv, PosFacts, CrossFacts, ControlInv, ThreadInv
  <2>2. PosOf[t].pc = "chunks" /\ PosOf[t].node = th[t].node
    BY <1>1, SMTT(30) DEF CrossFacts, At
  <2>3. t < NChunks(cgraph[PosOf[t].node], n_graph.nth)
    BY <2>1, <2>2, ChunksNode, Zenon
  <2> QED BY <1>1, <2>1, <2>2, <2>3, ZenonT(30) DEF CrossFacts, PastFacts
<1>2. /\ th[t].ret = "next" => th'[t].pc = "node"
      /\ th[t].ret = "done" => th'[t].pc \in {"idle", "top"}
      /\ th[t].ret \in {"chunks", "next", "done"}
  BY ZenonT(30) DEF CrossFacts, PastFacts
<1>3. ASSUME NEW u \in Threads
      PROVE  Working(u)' <=> u \in Members /\ th[t].ret # "done"
  <2>1. CASE u = t
    BY <1>1, <1>2, <2>1, ZenonT(30) DEF Working, Released, AtWork, CrossFacts
  <2>2. CASE u # t
    <3>1. th'[u] = th[u]
      BY <2>2, Zenon DEF Cross
    <3>2. CASE u \in Members
      <4>1. th[u].ret = th[t].ret /\ th[u].pc \in AtWork
        BY <3>2, Zenon DEF CrossFacts, Working
      <4>2. Released(u)'
        BY <2>2, <4>1, Zenon DEF CrossFacts
      <4> QED BY <3>1, <3>2, <4>1, <4>2, SMTT(30) DEF Working
    <3>3. CASE u \notin Members
      BY <2>2, <3>1, <3>3, Zenon DEF CrossFacts, Working
    <3> QED BY <3>2, <3>3, ZenonT(30)
  <2> QED BY <2>1, <2>2, Zenon
<1>4. Active' <=> th[t].ret # "done"
  BY <1>0, <1>3, Zenon DEF Active, CrossFacts
<1> QED BY <1>1, <1>2, <1>3, <1>4, Zenon
==============================================================================
