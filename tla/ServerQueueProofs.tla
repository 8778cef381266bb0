-------------------------- MODULE ServerQueueProofs --------------------------
(***************************************************************************)
(* That the server loses track of no task and of no result, for any        *)
(* requests and any number of slots: a task is in one place at most, a     *)
(* request gets no result twice, and nothing of it stays behind.  And that *)
(* the server sleeps only while no slot works.                             *)
(***************************************************************************)
EXTENDS ServerQueueInv

-----------------------------------------------------------------------------
(* The steps of the requests                                                *)

FreshPcs == {"new", "sleepwait", "ready", "added"}

\* A step that moves no task.
LEMMA StillMoves ==
  ASSUME IInv, UNCHANGED <<queue_tasks, queue_tasks_deferred, loop, slots>>, NEW id \in TaskIds
  PROVE  Moved(id)
<1>1. Alone(id)
  BY DEF IInv, Placed
<1>2. /\ Queued(id)' <=> Queued(id)
      /\ Waits(id)' <=> Waits(id)
      /\ Current(id)' <=> Current(id)
      /\ Released' <=> Released
      /\ SlotsOf(id)' = SlotsOf(id)
  BY DEF Queued, Waits, Current, SlotsOf, Released
<1> QED BY <1>1, <1>2 DEF Moved, Alone, Nowhere, Leaving

\* The tasks of a request, and their ids, are among those it may post.
LEMMA RequestIds ==
  ASSUME TypeOK, NEW r \in Readers
  PROVE  IdTasks(r) \subseteq AllIds(r) /\ IdTasks(r) \subseteq TaskIds
<1>1. CASE reader[r].tasks \in Requests[r]
  BY <1>1, IdFacts DEF IdTasks
<1>2. CASE reader[r].tasks = <<>>
  <2>1. PostIds(<<>>) = {}
    BY DEF PostIds, Range
  <2> QED BY <1>2, <2>1 DEF IdTasks
<1> QED BY <1>1, <1>2 DEF TypeOK

\* A request goes on with the tasks it has.
LEMMA GotoFacts ==
  ASSUME TypeOK, NEW r \in Readers, NEW p \in Pcs, Goto(r, p)
  PROVE  /\ reader' \in [Readers -> ReaderStates]
         /\ \A q \in Readers : /\ reader'[q].tasks = reader[q].tasks
                               /\ reader'[q].got = reader[q].got
                               /\ reader'[q].pc = IF q = r THEN p ELSE reader[q].pc
                               /\ IdTasks(q)' = IdTasks(q)
<1>1. reader \in [Readers -> ReaderStates] /\ reader' = [reader EXCEPT ![r].pc = p]
  BY DEF TypeOK, Goto
<1>2. reader[r] \in ReaderStates /\ [reader[r] EXCEPT !.pc = p] \in ReaderStates
  BY <1>1, Zenon DEF ReaderStates
<1>3. reader' \in [Readers -> ReaderStates]
  <2> HIDE DEF ReaderStates
  <2> QED BY <1>1, <1>2
<1>4. ASSUME NEW q \in Readers
      PROVE  /\ reader'[q].tasks = reader[q].tasks
             /\ reader'[q].got = reader[q].got
             /\ reader'[q].pc = IF q = r THEN p ELSE reader[q].pc
  <2>1. reader[q] \in ReaderStates /\ reader'[q] = IF q = r THEN [reader[r] EXCEPT !.pc = p] ELSE reader[q]
    BY <1>1
  <2> QED BY <2>1 DEF ReaderStates
<1> QED BY <1>3, <1>4 DEF IdTasks

\* Nothing about a task goes wrong when its request goes on, if nothing else comes of it.
LEMMA GotoKeeps ==
  ASSUME IInv, NEW r \in Readers, NEW p \in Pcs, Goto(r, p), NEW id \in TaskIds, Moved(id),
         p \in FreshPcs => reader[r].pc \in FreshPcs,
         Pending(id)' => Pending(id),
         Has(queue_results', Ends(id)) => Has(queue_results, Ends(id)),
         After(queue_results', Sent(id), Ends(id)),
         id \in waiting_task_ids' => id \in waiting_task_ids,
         p \in {"purge", "cancel", "done"} /\ id \in IdTasks(r) => id \notin waiting_task_ids',
         p \in {"cancel", "done"} /\ id \in IdTasks(r) => ~ Pending(id)'
  PROVE  Placed(id)' /\ Answered(id)'
<1>1. \A q \in Readers : /\ reader'[q].got = reader[q].got
                         /\ reader'[q].pc = IF q = r THEN p ELSE reader[q].pc
                         /\ IdTasks(q)' = IdTasks(q)
  BY GotoFacts, Zenon DEF IInv
<1>2. Placed(id) /\ Answered(id)
  BY DEF IInv
<1>3. GotIt(id)' <=> GotIt(id)
  BY <1>1 DEF GotIt
<1>4. Fresh(id)' => Fresh(id)
  BY <1>1 DEF Fresh, FreshPcs
<1>5. Left(id)' => Left(id) \/ id \notin waiting_task_ids'
  BY <1>1 DEF Left, OfRequest
<1>6. Over(id)' => Over(id) \/ ~ Pending(id)'
  BY <1>1 DEF Over, OfRequest
<1>7. Ended(id)' => Ended(id)
  BY <1>3 DEF Ended
<1>8. Placed(id)'
  BY <1>2, <1>3, <1>4, <1>7, Zenon DEF Placed, Moved
<1>9. Answered(id)'
  BY <1>2, <1>3, <1>5, <1>6, Zenon DEF Answered
<1> QED BY <1>8, <1>9

\* What a request has got does not change as it goes on.
LEMMA GotoType ==
  ASSUME IInv, NEW r \in Readers, NEW p \in Pcs, Goto(r, p), UNCHANGED <<loop, slots>>,
         QueuesKept, waiting_task_ids' \in SUBSET TaskIds
  PROVE  TypeOK' /\ GotOnce'
<1>1. /\ reader' \in [Readers -> ReaderStates]
      /\ \A q \in Readers : /\ reader'[q].tasks = reader[q].tasks
                            /\ reader'[q].got = reader[q].got
                            /\ IdTasks(q)' = IdTasks(q)
  BY GotoFacts, Zenon DEF IInv
<1>2. TypeOK'
  BY <1>1, ZenonT(30) DEF IInv, TypeOK, QueuesKept
<1>3. GotOnce'
  BY <1>1 DEF IInv, GotOnce
<1> QED BY <1>2, <1>3


\* The elements of a sequence are finitely many.
LEMMA RangeFinite ==
  ASSUME NEW X, NEW q \in Seq(X)
  PROVE  IsFiniteSet(Range(q))
<1>1. IsFiniteSet(DOMAIN q)
  <2>1. DOMAIN q = 1 .. Len(q) /\ Len(q) \in Int
    OBVIOUS
  <2> QED BY <2>1, FS_Interval
<1>2. q \in Surjection(DOMAIN q, Range(q))
  <2>1. q \in [DOMAIN q -> Range(q)]
    BY DEF Range
  <2> QED BY <2>1, Zenon DEF Surjection, Range
<1> QED BY <1>1, <1>2, FS_Surjection, Zenon

\* A request waits for finitely many tasks.
LEMMA IdTasksFinite ==
  ASSUME TypeOK, NEW r \in Readers
  PROVE  IsFiniteSet(IdTasks(r)) /\ Cardinality(IdTasks(r)) \in Nat
<1> DEFINE ts == reader[r].tasks
           f  == [k \in DOMAIN ts |-> IdsOf(ts[k])]
           U  == {IdsOf(t) : t \in Range(ts)}
<1>1. ts \in Seq(AllTasks)
  BY DEF TypeOK, ReaderStates
<1>2. \A t \in AllTasks : IsFiniteSet(IdsOf(t))
  <2> SUFFICES ASSUME NEW t \in AllTasks PROVE IsFiniteSet(IdsOf(t))
    OBVIOUS
  <2>1. t.kids \in Seq(Nat)
    BY TaskFacts, Zenon DEF TaskRecords
  <2>2. IsFiniteSet(Range(t.kids)) /\ IsFiniteSet({t.id})
    BY <2>1, RangeFinite, FS_Singleton, Zenon
  <2> QED BY <2>2, FS_Union, Zenon DEF IdsOf
<1> HIDE DEF ts
<1>3. IsFiniteSet(DOMAIN ts)
  <2>1. DOMAIN ts = 1 .. Len(ts) /\ Len(ts) \in Int
    BY <1>1
  <2> QED BY <2>1, FS_Interval
<1>4. f \in Surjection(DOMAIN ts, U)
  <2>1. f \in [DOMAIN ts -> U]
    BY Zenon DEF Range
  <2>2. \A u \in U : \E k \in DOMAIN ts : f[k] = u
    BY Zenon DEF Range
  <2> HIDE DEF f, U
  <2> QED BY <2>1, <2>2, Zenon DEF Surjection
<1>5. IsFiniteSet(U)
  <2> HIDE DEF f, U
  <2> QED BY <1>3, <1>4, FS_Surjection, Zenon
<1>6. \A u \in U : IsFiniteSet(u)
  <2>1. Range(ts) \subseteq AllTasks
    BY <1>1 DEF Range
  <2> QED BY <1>2, <2>1, Zenon
<1>7. IdTasks(r) = UNION U
  BY Zenon DEF IdTasks, PostIds, ts
<1> HIDE DEF U
<1>8. IsFiniteSet(IdTasks(r))
  BY <1>5, <1>6, <1>7, FS_UNION, Zenon
<1> QED BY <1>8, FS_CardinalityType, Zenon

\* has_next() counts the results that were received: when it says no, all were.
LEMMA AllGot ==
  ASSUME IInv, NEW r \in Readers
  PROVE  /\ Len(reader[r].got) <= Cardinality(IdTasks(r))
         /\ ~ HasNext(r) => \A id \in IdTasks(r) : GotIt(id)
<1> DEFINE g == reader[r].got
           n == Len(g)
           S == IdTasks(r)
<1>1. g \in Seq(Nat) /\ Range(g) \subseteq S /\ IsInjective(g)
  BY DEF IInv, TypeOK, GotOnce, ReaderStates
<1>2. IsFiniteSet(S) /\ Cardinality(S) \in Nat
  BY IdTasksFinite DEF IInv
<1>3. (HasNext(r) <=> n < Cardinality(S)) /\ (\A id \in Range(g) : GotIt(id))
  BY DEF HasNext, GotIt
<1> HIDE DEF g, S
<1>4. n \in Nat /\ DOMAIN g = 1 .. n
  BY <1>1
<1>5. g \in Injection(1 .. n, S)
  <2>1. g \in [1 .. n -> S]
    <3>1. g = [k \in 1 .. n |-> g[k]] /\ \A k \in 1 .. n : g[k] \in S
      BY <1>1, <1>4 DEF Range
    <3> QED BY <3>1
  <2> QED BY <1>1, <2>1, Zenon DEF Injection
<1> HIDE DEF n
<1>6. /\ Cardinality(1 .. n) <= Cardinality(S)
      /\ Cardinality(1 .. n) = Cardinality(S) <=> g \in Surjection(1 .. n, S)
  BY <1>2, <1>5, FS_Injection, Zenon
<1>7. Cardinality(1 .. n) = n
  BY <1>4, FS_Interval
<1>8. ASSUME ~ HasNext(r), NEW id \in S PROVE GotIt(id)
  <2>1. g \in Surjection(1 .. n, S)
    BY <1>2, <1>3, <1>4, <1>6, <1>7, <1>8
  <2>2. \E k \in 1 .. n : g[k] = id
    BY <2>1, Zenon DEF Surjection
  <2> QED BY <1>3, <1>4, <2>2 DEF Range
<1> QED BY <1>6, <1>7, <1>8, SMTT(30) DEF g, S, n


\* Waiting for the server to wake, and closing the connection, touch no task.
LEMMA WaitKeeps ==
  ASSUME IInv, NEW r \in Readers, Arrive(r) \/ Woken(r) \/ Close(r) \/ Terminate
  PROVE  IInv'
<1>0. /\ UNCHANGED <<queue_tasks, queue_tasks_deferred, loop, slots>> /\ UNCHANGED rvars
      /\ UNCHANGED waiting_task_ids /\ UNCHANGED queue_results
  BY SMTT(30) DEF Arrive, Woken, Close, Terminate, qvars, rvars, mvars
<1>1. TypeOK /\ QueuesKept /\ waiting_task_ids' \in SUBSET TaskIds
  BY <1>0 DEF IInv, TypeOK, QueuesKept
<1>2. CASE reader' = reader
  <2>1. TypeOK' /\ GotOnce'
    BY <1>0, <1>2, ReadersSame, ZenonT(30) DEF IInv, TypeOK
  <2>2. ASSUME NEW id \in TaskIds PROVE Placed(id)' /\ Answered(id)'
    <3>1. Moved(id)
      BY <1>0, StillMoves, Zenon
    <3> QED BY <1>0, <1>2, <3>1, MovedKeeps, Zenon
  <2> QED BY <2>1, <2>2, SMTT(30) DEF IInv
<1>3. ASSUME NEW p \in Pcs, Goto(r, p), p \in FreshPcs => reader[r].pc \in FreshPcs,
             p \notin {"purge", "cancel", "done"}
      PROVE  IInv'
  <2>1. TypeOK' /\ GotOnce'
    BY <1>0, <1>1, <1>3, GotoType, Zenon
  <2>2. ASSUME NEW id \in TaskIds PROVE Placed(id)' /\ Answered(id)'
    <3>1. Moved(id)
      BY <1>0, StillMoves, Zenon
    <3>2. /\ Pending(id)' => Pending(id)
          /\ Has(queue_results', Ends(id)) => Has(queue_results, Ends(id))
          /\ After(queue_results', Sent(id), Ends(id))
      BY <1>0 DEF Pending, IInv, Answered
    <3> QED BY <1>0, <1>3, <3>1, <3>2, GotoKeeps
  <2> QED BY <2>1, <2>2 DEF IInv
<1>4. \/ reader' = reader
      \/ reader[r].pc \in FreshPcs /\ (Goto(r, "ready") \/ Goto(r, "sleepwait"))
      \/ Goto(r, "stop")
  BY DEF Arrive, Woken, Close, Terminate, FreshPcs
<1>5. {"ready", "sleepwait", "stop"} \subseteq Pcs /\ "stop" \notin FreshPcs
  BY DEF Pcs, FreshPcs
<1> QED BY <1>2, <1>3, <1>4, <1>5

\* stop() with all results received leaves none behind; otherwise it goes on.
LEMMA StopWaitingKeeps ==
  ASSUME IInv, NEW r \in Readers, StopWaiting(r)
  PROVE  IInv'
<1>0. PICK p : p = IF HasNext(r) THEN "purge" ELSE "done"
  OBVIOUS
<1>1. /\ UNCHANGED <<queue_tasks, queue_tasks_deferred, loop, slots>> /\ UNCHANGED queue_results
      /\ waiting_task_ids' = waiting_task_ids \ IdTasks(r)
      /\ Goto(r, p) /\ p \in Pcs /\ p \notin FreshPcs
  BY <1>0 DEF StopWaiting, qvars, mvars, Pcs, FreshPcs
<1>2. QueuesKept /\ waiting_task_ids' \in SUBSET TaskIds
  BY <1>1 DEF IInv, TypeOK, QueuesKept
<1>3. TypeOK' /\ GotOnce'
  BY <1>1, <1>2, GotoType, Zenon
<1>4. ASSUME NEW id \in TaskIds PROVE Placed(id)' /\ Answered(id)'
  <2>1. Moved(id)
    BY <1>1, StillMoves, Zenon
  <2>2. /\ Pending(id)' => Pending(id)
        /\ Has(queue_results', Ends(id)) => Has(queue_results, Ends(id))
        /\ After(queue_results', Sent(id), Ends(id))
    BY <1>1 DEF Pending, IInv, Answered
  <2>3. p \in {"cancel", "done"} /\ id \in IdTasks(r) => ~ Pending(id)'
    BY <1>0, <2>2, AllGot DEF IInv, Answered
  <2>4. id \in waiting_task_ids' => id \in waiting_task_ids /\ id \notin IdTasks(r)
    BY <1>1, SMTT(30)
  <2> QED BY <1>1, <2>1, <2>2, <2>3, <2>4, GotoKeeps
<1> QED BY <1>3, <1>4 DEF IInv

\* stop() removes the results that came before.
LEMMA PurgeKeeps ==
  ASSUME IInv, NEW r \in Readers, Purge(r)
  PROVE  IInv'
<1> DEFINE gone == {x \in Range(queue_results) : x.id \in IdTasks(r)}
           K    == {k \in DOMAIN queue_results : queue_results[k] \notin gone}
<1>1. /\ UNCHANGED <<queue_tasks, queue_tasks_deferred, loop, slots>>
      /\ waiting_task_ids' = waiting_task_ids \ IdTasks(r)
      /\ queue_results' = RemoveIf(queue_results, gone)
      /\ Goto(r, "cancel") /\ "cancel" \in Pcs /\ "cancel" \notin FreshPcs
  BY DEF Purge, WithoutResults, qvars, mvars, Pcs, FreshPcs
<1>2. \A k \in K : queue_results[k] \in Results /\ queue_results[k].id \notin IdTasks(r)
  BY DEF IInv, TypeOK, Range
<1>a. queue_results \in Seq(Results) /\ K \in SUBSET DOMAIN queue_results
  BY DEF IInv, TypeOK
<1> HIDE DEF gone
<1>3. queue_results' \in Seq(Results) /\ Part(queue_results', queue_results, K)
  BY <1>1, <1>a, RemoveIfPart
<1> HIDE DEF K
<1>4. /\ \A H : Has(queue_results', H) => \E k \in K : queue_results[k] \in H
      /\ \A A, H : After(queue_results, A, H) => After(queue_results', A, H)
  BY <1>3, <1>a, PartKeeps
<1>5. QueuesKept /\ waiting_task_ids' \in SUBSET TaskIds
  BY <1>1, <1>3 DEF IInv, TypeOK, QueuesKept
<1>6. TypeOK' /\ GotOnce'
  BY <1>1, <1>5, GotoType, Zenon
<1>7. ASSUME NEW id \in TaskIds PROVE Placed(id)' /\ Answered(id)'
  <2>1. Moved(id)
    BY <1>1, StillMoves, Zenon
  <2>2. \A H : Has(queue_results', H) => Has(queue_results, H)
    BY <1>4, <1>a DEF Has
  <2>3. /\ Pending(id)' => Pending(id)
        /\ Has(queue_results', Ends(id)) => Has(queue_results, Ends(id))
        /\ After(queue_results', Sent(id), Ends(id))
    BY <1>4, <2>2, SMTT(30) DEF Pending, IInv, Answered
  <2>4. id \in IdTasks(r) => ~ Pending(id)'
    BY <1>2, <1>4, SentFacts DEF Pending
  <2>5. id \in waiting_task_ids' => id \in waiting_task_ids /\ id \notin IdTasks(r)
    BY <1>1
  <2> QED BY <1>1, <2>1, <2>3, <2>4, <2>5, GotoKeeps
<1> QED BY <1>6, <1>7 DEF IInv


\* stop() puts cancel tasks into the queue, and takes the pending tasks out of it.
LEMMA PostCancelKeeps ==
  ASSUME IInv, NEW r \in Readers, PostCancel(r)
  PROVE  IInv'
<1> DEFINE lost(q) == {e \in Range(q) : e.type = "task" /\ e.task.id \in IdTasks(r)}
           rest(q) == RemoveIf(q, lost(q))
           left(q) == {k \in DOMAIN q : q[k] \notin lost(q)}
<1>0. PICK ids \in Bijection(1 .. Cardinality(IdTasks(r)), IdTasks(r)) :
        queue_tasks' = [k \in DOMAIN ids |-> Cancel(ids[k])] \o rest(queue_tasks)
  BY ZenonT(30) DEF PostCancel, CleanupPending
<1>1. /\ queue_tasks_deferred' = rest(queue_tasks_deferred)
      /\ UNCHANGED <<loop, slots>> /\ UNCHANGED queue_results
      /\ waiting_task_ids' = waiting_task_ids
      /\ reader[r].pc = "cancel" /\ Goto(r, "done") /\ "done" \in Pcs /\ "done" \notin FreshPcs
  BY DEF PostCancel, CleanupPending, rvars, mvars, Pcs, FreshPcs
<1>2. queue_tasks \in Seq(Entries) /\ queue_tasks_deferred \in Seq(Entries)
  BY DEF IInv, TypeOK
<1> HIDE DEF lost
<1>3. ASSUME NEW q \in Seq(Entries)
      PROVE  /\ rest(q) \in Seq(Entries)
             /\ \A H : Has(rest(q), H) => Has(q, H)
             /\ \A H : Once(q, H) => Once(rest(q), H)
  <2>1. rest(q) \in Seq(Entries) /\ Part(rest(q), q, left(q)) /\ left(q) \in SUBSET DOMAIN q
    BY RemoveIfPart
  <2> HIDE DEF rest, left
  <2>2. /\ \A H : Has(rest(q), H) => \E k \in left(q) : q[k] \in H
        /\ \A H : Once(q, H) => Once(rest(q), H)
    BY <2>1, PartKeeps
  <2> QED BY <2>1, <2>2 DEF Has
<1> HIDE DEF rest
<1> DEFINE c == [k \in DOMAIN ids |-> Cancel(ids[k])]
<1>4. /\ c \in Seq(Entries)
      /\ \A id : ~ Has(c, Holders(id))
  <2>1. ids \in [1 .. Cardinality(IdTasks(r)) -> IdTasks(r)]
    BY Zenon DEF Bijection, Injection
  <2>2. Cardinality(IdTasks(r)) \in Nat /\ IdTasks(r) \subseteq TaskIds
    BY IdTasksFinite, RequestIds DEF IInv
  <2>3. \A i \in TaskIds : Cancel(i) \in Entries
    BY Zenon DEF Entries
  <2>4. c \in [1 .. Cardinality(IdTasks(r)) -> Entries]
    BY <2>1, <2>2, <2>3
  <2>5. c \in Seq(Entries)
    BY <2>2, <2>4
  <2>6. ASSUME NEW id PROVE ~ Has(c, Holders(id))
    <3>1. \A i : Cancel(i) \notin Holders(id)
      BY HolderFacts, Zenon
    <3> QED BY <3>1, Zenon DEF Has
  <2> QED BY <2>5, <2>6
<1>5. queue_tasks' = c \o rest(queue_tasks)
  BY <1>0
<1> HIDE DEF c
<1>6. /\ queue_tasks' \in Seq(Entries)
      /\ \A H : Has(queue_tasks', H) <=> Has(c, H) \/ Has(rest(queue_tasks), H)
      /\ \A H : Once(c, H) /\ Once(rest(queue_tasks), H) /\ ~ (Has(c, H) /\ Has(rest(queue_tasks), H))
                  => Once(queue_tasks', H)
  BY <1>2, <1>3, <1>4, <1>5, Joined
<1>7. QueuesKept /\ waiting_task_ids' \in SUBSET TaskIds
  BY <1>1, <1>2, <1>3, <1>6, ZenonT(30) DEF IInv, TypeOK, QueuesKept
<1>8. TypeOK' /\ GotOnce'
  BY <1>1, <1>7, GotoType, Zenon
<1>9. ASSUME NEW id \in TaskIds PROVE Placed(id)' /\ Answered(id)'
  <2> DEFINE H == Holders(id)
  <2>1. ~ Has(c, H) /\ Once(c, H)
    BY <1>4 DEF Has, Once
  <2>2. Alone(id)
    BY SMTT(30) DEF IInv, Placed
  <2>3. /\ Queued(id)' => Queued(id)
        /\ Waits(id)' => Waits(id)
        /\ Once(queue_tasks', H) /\ Once(queue_tasks_deferred', H)
    BY <1>1, <1>2, <1>3, <1>6, <2>1, <2>2, ZenonT(30) DEF Queued, Waits, Alone
  <2>4. /\ Current(id)' <=> Current(id)
        /\ Released' <=> Released
        /\ SlotsOf(id)' = SlotsOf(id)
    BY <1>1, ZenonT(30) DEF Current, SlotsOf, Released
  <2>5. Moved(id)
    BY <1>1, <2>2, <2>3, <2>4, ZenonT(30) DEF Moved, Alone, Nowhere, Leaving
  <2>6. Answered(id)
    BY SMTT(30) DEF IInv
  <2>7. id \in IdTasks(r) => Left(id) /\ Over(id)
    BY <1>1, ZenonT(30) DEF Left, Over, OfRequest
  <2>8. /\ Pending(id)' <=> Pending(id)
        /\ After(queue_results', Sent(id), Ends(id))
        /\ Has(queue_results', Ends(id)) => Has(queue_results, Ends(id))
    BY <1>1, <2>6, SMTT(30) DEF Pending, Answered
  <2>9. id \in IdTasks(r) => id \notin waiting_task_ids' /\ ~ Pending(id)'
    BY <1>1, <2>6, <2>7, <2>8 DEF Answered
  <2> QED BY <1>1, <2>5, <2>8, <2>9, GotoKeeps, ZenonT(30)
<1> QED BY <1>8, <1>9, SMTT(30) DEF IInv

\* post() puts the tasks of a request into the queue, where they were not before.
LEMMA PostKeeps ==
  ASSUME IInv, NEW r \in Readers, Post(r)
  PROVE  IInv'
<1> DEFINE ts == reader[r].tasks
           p  == [k \in DOMAIN ts |-> Task(ts[k])]
<1>1. /\ queue_tasks' = queue_tasks \o p /\ UNCHANGED <<queue_tasks_deferred, loop, slots>>
      /\ UNCHANGED rvars /\ waiting_task_ids' = waiting_task_ids /\ queue_results' = queue_results
      /\ reader[r].pc = "added" /\ Goto(r, "recv") /\ "recv" \in Pcs /\ "recv" \notin FreshPcs
  BY DEF Post, rvars, mvars, Pcs, FreshPcs
<1>2. /\ queue_tasks \in Seq(Entries) /\ ts \in Seq(AllTasks)
      /\ ts \in Requests[r] \cup {<<>>} /\ IdTasks(r) = PostIds(ts)
  BY DEF IInv, TypeOK, ReaderStates, IdTasks
<1> HIDE DEF ts
<1>3. \A k \in DOMAIN ts : ts[k] \in AllTasks /\ IdsOf(ts[k]) \subseteq PostIds(ts)
  <2>1. \A k \in DOMAIN ts : ts[k] \in AllTasks
    BY <1>2
  <2>2. \A k \in DOMAIN ts : ts[k] \in Range(ts)
    BY DEF Range
  <2> QED BY <2>1, <2>2, Zenon DEF PostIds
<1>4. p \in Seq(Entries) /\ DOMAIN p = DOMAIN ts
  <2>1. \A t \in AllTasks : Task(t) \in Entries
    BY Zenon DEF Entries
  <2>2. p \in [1 .. Len(ts) -> Entries] /\ Len(ts) \in Nat
    BY <1>2, <1>3, <2>1, SMTT(30)
  <2> QED BY <2>2
<1>5. ASSUME NEW id, NEW k \in DOMAIN ts PROVE p[k] \in Holders(id) <=> id \in IdsOf(ts[k])
  BY <1>3, HolderFacts
<1>6. ASSUME NEW id PROVE Has(p, Holders(id)) => id \in PostIds(ts)
  BY <1>3, <1>4, <1>5 DEF Has
<1>7. ASSUME NEW id PROVE Once(p, Holders(id))
  <2>1. \A j, k \in DOMAIN ts : id \in IdsOf(ts[j]) /\ id \in IdsOf(ts[k]) => j = k
    <3>1. CASE ts \in Requests[r]
      BY <3>1, IdsAssumption
    <3>2. CASE ts = <<>>
      BY <3>2, SMTT(30)
    <3> QED BY <1>2, <3>1, <3>2, SMTT(30)
  <2> QED BY <1>4, <1>5, <2>1 DEF Once
<1> HIDE DEF p
<1>8. /\ queue_tasks' \in Seq(Entries)
      /\ \A H : Has(queue_tasks', H) <=> Has(queue_tasks, H) \/ Has(p, H)
      /\ \A H : Once(queue_tasks, H) /\ Once(p, H) /\ ~ (Has(queue_tasks, H) /\ Has(p, H))
                  => Once(queue_tasks', H)
  BY <1>1, <1>2, <1>4, Joined
<1>9. QueuesKept /\ waiting_task_ids' \in SUBSET TaskIds
  BY <1>1, <1>8, ZenonT(30) DEF IInv, TypeOK, QueuesKept
<1>10. TypeOK' /\ GotOnce'
  BY <1>1, <1>9, GotoType, Zenon
<1>11. ASSUME NEW id \in TaskIds PROVE Placed(id)' /\ Answered(id)'
  <2> DEFINE H == Holders(id)
  <2>1. Placed(id) /\ Alone(id) /\ Answered(id)
    BY SMTT(30) DEF IInv, Placed
  <2>2. /\ Waits(id)' <=> Waits(id)
        /\ Current(id)' <=> Current(id)
        /\ Released' <=> Released
        /\ SlotsOf(id)' = SlotsOf(id)
        /\ Once(queue_tasks_deferred', H)
        /\ Pending(id)' <=> Pending(id)
        /\ Has(queue_results', Ends(id)) <=> Has(queue_results, Ends(id))
        /\ After(queue_results', Sent(id), Ends(id))
    BY <1>1, <2>1, ZenonT(30) DEF Waits, Current, SlotsOf, Released, Pending, Alone, Answered
  <2>3. CASE ~ Has(p, H)
    <3>1. /\ Queued(id)' <=> Queued(id)
          /\ Once(queue_tasks', H)
      BY <1>7, <1>8, <2>1, <2>3 DEF Queued, Alone
    <3>2. Moved(id)
      BY <1>1, <2>1, <2>2, <3>1, ZenonT(30) DEF Moved, Alone, Nowhere, Leaving
    <3> QED BY <1>1, <2>2, <3>2, GotoKeeps, ZenonT(30)
  <2>4. CASE Has(p, H)
    <3>1. id \in AllIds(r)
      BY <1>2, <1>6, <2>4, RequestIds DEF IInv
    <3>2. Fresh(id)
      BY <1>1, <3>1 DEF Fresh
    <3>3. /\ ~ Queued(id) /\ ~ Waits(id) /\ ~ Current(id) /\ SlotsOf(id) = {}
          /\ ~ Pending(id) /\ ~ GotIt(id)
      BY <2>1, <3>2 DEF Placed, Nowhere
    <3>4. Once(queue_tasks', H)
      BY <1>7, <1>8, <2>1, <3>3 DEF Queued, Alone
    <3>5. \A q \in Readers : /\ reader'[q].got = reader[q].got
                             /\ reader'[q].pc = IF q = r THEN "recv" ELSE reader[q].pc
                             /\ IdTasks(q)' = IdTasks(q)
      BY <1>1, GotoFacts, Zenon DEF IInv
    <3>6. ~ GotIt(id)'
      BY <3>3, <3>5 DEF GotIt
    <3>7. ASSUME NEW q \in Readers, id \in AllIds(q) PROVE q = r
      BY <3>1, <3>7, IdFacts, SMTT(30)
    <3>8. ~ Fresh(id)'
      BY <3>5, <3>7, SMTT(30) DEF Fresh
    <3>9. ~ Left(id)' /\ ~ Over(id)'
      <4>1. \A q \in Readers : id \in IdTasks(q) => q = r
        BY <3>7, RequestIds DEF IInv
      <4> QED BY <3>5, <4>1 DEF Left, Over, OfRequest
    <3>10. ~ Ended(id)'
      <4>1. Has(queue_results, Ends(id)) => Pending(id)
        BY SentFacts DEF Pending, Has
      <4> QED BY <2>2, <3>3, <3>6, <4>1 DEF Ended
    <3>11. Placed(id)'
      BY <2>2, <3>3, <3>4, <3>8, <3>10 DEF Placed, Alone
    <3>12. Answered(id)'
      BY <2>2, <3>6, <3>9 DEF Answered
    <3> QED BY <3>11, <3>12
  <2> QED BY <2>3, <2>4
<1> QED BY <1>10, <1>11 DEF IInv


\* post() waits for the ids of a request first: nobody else has them.
LEMMA AddWaitingKeeps ==
  ASSUME IInv, NEW r \in Readers, AddWaiting(r)
  PROVE  IInv'
<1>1. PICK ts \in Requests[r] :
        /\ waiting_task_ids' = waiting_task_ids \cup PostIds(ts)
        /\ reader' = [reader EXCEPT ![r].pc = "added", ![r].tasks = ts]
  BY Zenon DEF AddWaiting
<1>2. /\ UNCHANGED <<queue_tasks, queue_tasks_deferred, loop, slots>> /\ queue_results' = queue_results
      /\ reader[r].pc = "ready" /\ TypeOK /\ reader \in [Readers -> ReaderStates]
  BY DEF AddWaiting, qvars, mvars, IInv, TypeOK
<1>3. ts \in Seq(AllTasks) /\ PostIds(ts) \subseteq AllIds(r) /\ AllIds(r) \subseteq TaskIds
  BY IdFacts
<1>4. reader' \in [Readers -> ReaderStates]
  <2>1. "added" \in Pcs
    BY DEF Pcs
  <2>2. [reader[r] EXCEPT !.pc = "added", !.tasks = ts] \in ReaderStates
    BY <1>2, <1>3, <2>1, ZenonT(30) DEF ReaderStates
  <2> HIDE DEF ReaderStates
  <2> QED BY <1>1, <1>2, <2>2, SMTT(30)
<1>5. /\ \A q \in Readers \ {r} : reader'[q] = reader[q]
      /\ reader'[r].pc = "added" /\ reader'[r].tasks = ts /\ reader'[r].got = reader[r].got
  BY <1>1, <1>2 DEF ReaderStates
<1>6. /\ \A q \in Readers \ {r} : IdTasks(q)' = IdTasks(q)
      /\ IdTasks(r)' = PostIds(ts)
  BY <1>5 DEF IdTasks
<1>7. Range(reader[r].got) = {}
  <2> SUFFICES ASSUME NEW id \in Range(reader[r].got) PROVE FALSE
    OBVIOUS
  <2>1. id \in AllIds(r)
    BY RequestIds DEF IInv, GotOnce
  <2>2. Fresh(id) /\ GotIt(id) /\ id \in TaskIds
    BY <1>2, <1>3, <2>1, SMTT(30) DEF Fresh, GotIt
  <2> QED BY <2>2 DEF IInv, Placed
<1>8. TypeOK'
  <2>1. waiting_task_ids' \in SUBSET TaskIds
    BY <1>1, <1>2, <1>3, SMTT(30) DEF TypeOK
  <2>2. \A q \in Readers : reader'[q].tasks \in Requests[q] \cup {<<>>}
    BY <1>2, <1>5 DEF TypeOK
  <2> QED BY <1>2, <1>4, <2>1, <2>2 DEF TypeOK
<1>9. GotOnce'
  <2>1. ASSUME NEW q \in Readers
        PROVE  Range(reader'[q].got) \subseteq IdTasks(q)' /\ IsInjective(reader'[q].got)
    <3>1. Range(reader[q].got) \subseteq IdTasks(q) /\ IsInjective(reader[q].got)
      BY DEF IInv, GotOnce
    <3>2. CASE q = r
      BY <1>5, <1>6, <1>7, <3>1, <3>2
    <3>3. CASE q # r
      BY <1>5, <1>6, <3>1, <3>3
    <3> QED BY <3>2, <3>3
  <2> QED BY <2>1 DEF GotOnce
<1>10. ASSUME NEW id \in TaskIds PROVE Placed(id)' /\ Answered(id)'
  <2>1. Placed(id) /\ Answered(id)
    BY DEF IInv
  <2>2. Moved(id)
    BY <1>2, StillMoves, Zenon
  <2>3. /\ Pending(id)' <=> Pending(id)
        /\ Has(queue_results', Ends(id)) <=> Has(queue_results, Ends(id))
        /\ After(queue_results', Sent(id), Ends(id))
    BY <1>2, <2>1, ZenonT(30) DEF Pending, Answered
  <2>4. GotIt(id)' <=> GotIt(id)
    BY <1>5, SMTT(30) DEF GotIt
  <2>5. Fresh(id)' => Fresh(id)
    BY <1>2, <1>5 DEF Fresh
  <2>6. ASSUME NEW P, "added" \notin P, NEW q \in Readers, id \in IdTasks(q)', reader'[q].pc \in P
        PROVE  q # r /\ id \in IdTasks(q) /\ reader[q].pc \in P /\ id \notin PostIds(ts)
    <3>1. q # r
      BY <1>5, <2>6, SMTT(30)
    <3>2. id \in IdTasks(q) /\ reader[q].pc \in P
      BY <1>5, <1>6, <2>6, <3>1
    <3>3. id \notin PostIds(ts)
      BY <1>2, <1>3, <3>1, <3>2, IdFacts, RequestIds
    <3> QED BY <3>1, <3>2, <3>3, SMTT(30)
  <2>7. Left(id)' => Left(id) /\ id \notin PostIds(ts)
    BY <2>6, Zenon DEF Left, OfRequest
  <2>8. Over(id)' => Over(id)
    BY <2>6, ZenonT(30) DEF Over, OfRequest
  <2>9. Ended(id)' <=> Ended(id)
    BY <2>3, <2>4 DEF Ended
  <2>10. Placed(id)'
    BY <2>1, <2>2, <2>3, <2>4, <2>5, <2>9, Zenon DEF Placed, Moved
  <2>11. Answered(id)'
    BY <1>1, <2>1, <2>3, <2>4, <2>7, <2>8 DEF Answered
  <2> QED BY <2>10, <2>11, SMTT(30)
<1> QED BY <1>8, <1>9, <1>10 DEF IInv

\* next() takes the first result of the request: with the last one of a task nothing of
\* that task remains in the queue.
LEMMA ReceiveKeeps ==
  ASSUME IInv, NEW r \in Readers, Receive(r)
  PROVE  IInv'
<1>0. PICK k : k = CHOOSE j \in ResultsOf(r) : \A i \in ResultsOf(r) : j <= i
  OBVIOUS
<1>1. PICK res : res = queue_results[k]
  OBVIOUS
<1>2. PICK got : got = IF res.kind = "final" THEN Append(reader[r].got, res.id) ELSE reader[r].got
  BY Zenon
<1>3. PICK p : p = IF res.kind = "error" \/ Len(got) = Cardinality(IdTasks(r)) THEN "stop" ELSE "recv"
  OBVIOUS
<1>4. /\ ResultsOf(r) # {} /\ reader[r].pc = "recv" /\ queue_results' = Erase(queue_results, k)
      /\ reader' = [reader EXCEPT ![r].got = got, ![r].pc = p]
      /\ UNCHANGED <<queue_tasks, queue_tasks_deferred, loop, slots>>
      /\ waiting_task_ids' = waiting_task_ids
      /\ TypeOK /\ reader \in [Readers -> ReaderStates] /\ queue_results \in Seq(Results)
  BY <1>0, <1>1, <1>2, <1>3 DEF Receive, qvars, mvars, IInv, TypeOK
<1>5. k \in ResultsOf(r) /\ \A i \in ResultsOf(r) : k <= i
  <2>1. ResultsOf(r) \in SUBSET Nat
    BY <1>4 DEF ResultsOf
  <2>2. \E j \in ResultsOf(r) : \A i \in ResultsOf(r) : j <= i
    BY <1>4, <2>1, LeastNumber, Zenon
  <2> QED BY <1>0, <2>2, Zenon
<1>6. /\ k \in DOMAIN queue_results /\ k \in Nat /\ res \in Results /\ res.id \in IdTasks(r)
      /\ res.id \in TaskIds /\ res.id \in Nat
  <2>1. k \in DOMAIN queue_results /\ k \in Nat /\ res \in Results /\ res.id \in IdTasks(r)
    BY <1>1, <1>4, <1>5, SMTT(30) DEF ResultsOf
  <2>2. res.id \in TaskIds
    BY <2>1 DEF Results
  <2>3. res.id \in Nat
    BY <2>2, IdFacts, Zenon
  <2> QED BY <2>1, <2>2, <2>3, Zenon
<1> DEFINE K == DOMAIN queue_results \ {k}
<1>7. queue_results' \in Seq(Results) /\ Part(queue_results', queue_results, K)
  BY <1>4, <1>6, ErasePart, SMTT(30)
<1>8. /\ \A H : Has(queue_results', H) => \E j \in K : queue_results[j] \in H
      /\ \A A, H : After(queue_results, A, H) => After(queue_results', A, H)
  <2>1. K \in SUBSET DOMAIN queue_results
    OBVIOUS
  <2> QED BY <1>4, <1>7, <2>1, PartKeeps
<1>9. got \in Seq(Nat) /\ p \in {"stop", "recv"}
  <2>1. reader[r].got \in Seq(Nat)
    BY <1>4 DEF ReaderStates
  <2> QED BY <1>2, <1>3, <1>6, <2>1, SMTT(30)
<1>10. reader' \in [Readers -> ReaderStates]
  <2>1. p \in Pcs
    BY <1>9 DEF Pcs
  <2>2. [reader[r] EXCEPT !.got = got, !.pc = p] \in ReaderStates
    BY <1>4, <1>9, <2>1, ZenonT(30) DEF ReaderStates
  <2> HIDE DEF ReaderStates
  <2> QED BY <1>4, <2>2, SMTT(30)
<1>11. /\ \A q \in Readers \ {r} : reader'[q] = reader[q]
       /\ reader'[r].pc = p /\ reader'[r].tasks = reader[r].tasks /\ reader'[r].got = got
       /\ \A q \in Readers : reader'[q].tasks = reader[q].tasks
  BY <1>4 DEF ReaderStates
<1>12. \A q \in Readers : IdTasks(q)' = IdTasks(q)
  BY <1>11 DEF IdTasks
<1>13. TypeOK'
  BY <1>4, <1>7, <1>10, <1>11 DEF TypeOK
<1>14. ~ GotIt(res.id)
  <2>1. Pending(res.id)
    BY <1>1, <1>6, SentFacts DEF Pending, Has
  <2> QED BY <1>6, <2>1, SMTT(30) DEF IInv, Answered
<1>15. /\ Range(got) \subseteq Range(reader[r].got) \cup {res.id}
       /\ IsInjective(got)
       /\ res.kind = "final" <=> res.id \in Range(got)
       /\ Range(reader[r].got) \subseteq Range(got)
  <2> DEFINE g == reader[r].got
  <2>1. g \in Seq(Nat) /\ IsInjective(g) /\ res.id \notin Range(g)
    BY <1>4, <1>14 DEF IInv, GotOnce, ReaderStates, GotIt
  <2> HIDE DEF g
  <2>2. got = IF res.kind = "final" THEN Append(g, res.id) ELSE g
    BY <1>2 DEF g
  <2>3. CASE res.kind # "final"
    BY <2>1, <2>2, <2>3, SMTT(30) DEF g
  <2>4. CASE res.kind = "final"
    <3>1. /\ DOMAIN got = 1 .. Len(g) + 1 /\ DOMAIN g = 1 .. Len(g) /\ Len(g) \in Nat
          /\ got[Len(g) + 1] = res.id
          /\ \A i \in 1 .. Len(g) : got[i] = g[i]
      BY <1>6, <2>1, <2>2, <2>4, SMTT(30)
    <3>2. \A i \in DOMAIN g : g[i] # res.id
      BY <2>1 DEF Range
    <3>3. \A i \in DOMAIN got : i \in DOMAIN g \/ i = Len(g) + 1
      BY <3>1
    <3>4. IsInjective(got)
      <4>1. ASSUME NEW i \in DOMAIN got, NEW j \in DOMAIN got, got[i] = got[j] PROVE i = j
        BY <2>1, <3>1, <3>2, <3>3, <4>1 DEF IsInjective
      <4> QED BY <4>1 DEF IsInjective
    <3>5. Range(got) = Range(g) \cup {res.id}
      BY <3>1, <3>3 DEF Range
    <3> QED BY <2>4, <3>4, <3>5, SMTT(30) DEF g
  <2> QED BY <2>3, <2>4, SMTT(30)
<1>16. GotOnce'
  <2>1. ASSUME NEW q \in Readers
        PROVE  Range(reader'[q].got) \subseteq IdTasks(q)' /\ IsInjective(reader'[q].got)
    <3>1. Range(reader[q].got) \subseteq IdTasks(q) /\ IsInjective(reader[q].got)
      BY SMTT(30) DEF IInv, GotOnce
    <3>2. CASE q = r
      BY <1>6, <1>11, <1>12, <1>15, <3>1, <3>2
    <3>3. CASE q # r
      BY <1>11, <1>12, <3>1, <3>3, SMTT(30)
    <3> QED BY <3>2, <3>3
  <2> QED BY <2>1 DEF GotOnce
<1>17. ASSUME NEW id \in TaskIds PROVE Placed(id)' /\ Answered(id)'
  <2>1. Placed(id) /\ Answered(id)
    BY DEF IInv
  <2>2. Moved(id)
    BY <1>4, StillMoves, Zenon
  <2>3. \A H : Has(queue_results', H) => Has(queue_results, H)
    BY <1>8, SMTT(30) DEF Has
  <2>4. /\ Pending(id)' => Pending(id)
        /\ Has(queue_results', Ends(id)) => Has(queue_results, Ends(id))
        /\ After(queue_results', Sent(id), Ends(id))
    BY <1>8, <2>1, <2>3, ZenonT(30) DEF Pending, Answered
  <2>5. GotIt(id)' => GotIt(id) \/ (id = res.id /\ res.kind = "final")
    <3>1. ASSUME NEW q \in Readers, id \in Range(reader'[q].got)
          PROVE  GotIt(id) \/ (id = res.id /\ res.kind = "final")
      <4>1. CASE q = r
        BY <1>11, <1>15, <3>1, <4>1 DEF GotIt
      <4>2. CASE q # r
        BY <1>11, <3>1, <4>2 DEF GotIt
      <4> QED BY <4>1, <4>2, SMTT(30)
    <3> QED BY <3>1 DEF GotIt
  <2>6. Fresh(id)' => Fresh(id)
    BY <1>9, <1>11, SMTT(30) DEF Fresh
  <2>7. Left(id)' => Left(id)
    BY <1>9, <1>11, <1>12, SMTT(30) DEF Left, OfRequest
  <2>8. Over(id)' => Over(id)
    BY <1>9, <1>11, <1>12 DEF Over, OfRequest
  <2>9. ASSUME id = res.id, res.kind = "final"
        PROVE  ~ Pending(id)' /\ Has(queue_results, Ends(id)) /\ ~ Fresh(id)
    <3>1. res \in Ends(id) /\ res \in Sent(id)
      BY <1>6, <2>9, SentFacts
    <3>2. Has(queue_results, Ends(id)) /\ Pending(id)
      BY <1>1, <1>6, <3>1 DEF Has, Pending
    <3>3. ASSUME NEW j \in K, queue_results[j] \in Sent(id) PROVE FALSE
      <4>1. j <= k
        BY <1>1, <1>6, <2>1, <3>1, <3>3 DEF Answered, After
      <4>2. queue_results[j].id = id
        BY <1>4, <3>3, SentFacts
      <4>3. k <= j
        BY <1>5, <1>6, <2>9, <4>2 DEF ResultsOf
      <4>4. j \in Nat /\ j # k
        BY <1>4, SMTT(30)
      <4> QED BY <1>6, <4>1, <4>3, <4>4
    <3>4. ~ Pending(id)'
      BY <1>8, <3>3 DEF Pending
    <3>5. ~ Fresh(id)
      BY <2>1, <3>2, SMTT(30) DEF Placed
    <3> QED BY <3>2, <3>4, <3>5
  <2>10. Ended(id)' => Ended(id)
    BY <2>4, <2>5, <2>9 DEF Ended
  <2>11. Placed(id)'
    BY <2>1, <2>2, <2>4, <2>5, <2>6, <2>9, <2>10, Zenon DEF Placed, Moved
  <2>12. Answered(id)'
    BY <1>4, <2>1, <2>4, <2>5, <2>7, <2>8, <2>9 DEF Answered
  <2> QED BY <2>11, <2>12
<1> QED BY <1>13, <1>16, <1>17 DEF IInv


-----------------------------------------------------------------------------
(* The invariant holds                                                      *)

\* Nothing is anywhere when the server starts.
LEMMA InitInv == Init => IInv
<1> SUFFICES ASSUME Init PROVE IInv
  OBVIOUS
<1>1. \A H, A : ~ Has(<<>>, H) /\ Once(<<>>, H) /\ After(<<>>, A, H)
  BY SMTT(30) DEF Has, Once, After
<1>2. TypeOK
  <2>1. queue_tasks \in Seq(Entries) /\ queue_tasks_deferred \in Seq(Entries) /\ queue_results \in Seq(Results)
    BY DEF Init
  <2>2. loop \in LoopStates
    <3>1. "take" \in Ats /\ 0 \in Slots
      BY ServerAssumption, SMTT(30) DEF Ats, Slots
    <3> QED BY <3>1 DEF Init, LoopStates
  <2>3. slots \in [Slots -> SlotStates]
    <3>1. <<>> \in Seq(Nat) /\ "idle" \in States /\ NoId \in Int
      BY DEF NoId, States
    <3>2. IdleSlot \in SlotStates
      BY <3>1 DEF IdleSlot, SlotStates
    <3> HIDE DEF IdleSlot, SlotStates
    <3> QED BY <3>2 DEF Init
  <2>4. reader \in [Readers -> ReaderStates] /\ \A r \in Readers : reader[r].tasks = <<>>
    <3>1. <<>> \in Seq(Nat) /\ <<>> \in Seq(AllTasks) /\ "new" \in Pcs
      BY DEF Pcs
    <3>2. [pc |-> "new", tasks |-> <<>>, got |-> <<>>] \in ReaderStates
      BY <3>1, SMTT(30) DEF ReaderStates
    <3> HIDE DEF ReaderStates
    <3> QED BY <3>2 DEF Init
  <2> QED BY <2>1, <2>2, <2>3, <2>4, ZenonT(30) DEF TypeOK, Init
<1>3. \A r \in Readers : reader[r].pc = "new" /\ reader[r].got = <<>> /\ Range(reader[r].got) = {}
  BY DEF Init, Range
<1>4. GotOnce
  BY <1>3, SMTT(30) DEF GotOnce, IsInjective
<1>5. ASSUME NEW id \in TaskIds PROVE Placed(id) /\ Answered(id)
  <2>1. ~ GotIt(id) /\ ~ Left(id) /\ ~ Over(id)
    BY <1>3, SMTT(30) DEF GotIt, Left, Over, OfRequest
  <2>2. ~ Queued(id) /\ ~ Waits(id) /\ ~ Pending(id) /\ ~ Ended(id)
    BY <1>1, <2>1, ZenonT(30) DEF Init, Queued, Waits, Pending, Ended
  <2>3. ~ Current(id)
    BY HolderFacts DEF Init, Current
  <2>4. SlotsOf(id) = {}
    <3>1. IdleSlot.id # id
      BY IdFacts, SMTT(30) DEF IdleSlot, NoId
    <3> HIDE DEF IdleSlot
    <3> QED BY <3>1, SMTT(30) DEF Init, SlotsOf
  <2>5. Once(queue_tasks, Holders(id)) /\ Once(queue_tasks_deferred, Holders(id))
        /\ After(queue_results, Sent(id), Ends(id))
    BY <1>1 DEF Init
  <2> QED BY <2>1, <2>2, <2>3, <2>4, <2>5 DEF Placed, Alone, Nowhere, Answered
<1> QED BY <1>2, <1>4, <1>5 DEF IInv

\* Every step keeps the invariant.
LEMMA NextInv == IInv /\ [Next]_vars => IInv'
<1> SUFFICES ASSUME IInv, [Next]_vars PROVE IInv'
  OBVIOUS
<1>1. CASE MainLoop \/ Sleep
  <2>1. QueuesKept /\ waiting_task_ids' = waiting_task_ids /\ reader' = reader
    BY <1>1, MainQueues
  <2>2. loop' \in LoopStates /\ slots' \in [Slots -> SlotStates]
    BY <1>1, MainStates, SMTT(30)
  <2>3. TypeOK'
    BY <2>1, <2>2, SMTT(30) DEF IInv, TypeOK, QueuesKept
  <2>4. GotOnce'
    BY <2>1, ReadersSame, SMTT(30) DEF IInv
  <2> QED BY <1>1, <2>3, <2>4, MainKeeps DEF IInv
<1>2. CASE Terminate
  <2>1. /\ UNCHANGED <<queue_tasks, queue_tasks_deferred, loop, slots>> /\ UNCHANGED rvars
        /\ reader' = reader
    BY <1>2, SMTT(30) DEF Terminate, mvars
  <2>2. TypeOK' /\ GotOnce'
    BY <2>1, ReadersSame DEF IInv, TypeOK, rvars
  <2>3. ASSUME NEW id \in TaskIds PROVE Placed(id)' /\ Answered(id)'
    <3>1. Moved(id)
      BY <2>1, StillMoves, Zenon
    <3> QED BY <2>1, <3>1, MovedKeeps, Zenon
  <2> QED BY <2>2, <2>3 DEF IInv
<1>3. CASE UNCHANGED vars
  <2>1. /\ UNCHANGED <<queue_tasks, queue_tasks_deferred, loop, slots>> /\ UNCHANGED rvars
        /\ reader' = reader
    BY <1>3 DEF vars, qvars, mvars
  <2>2. TypeOK' /\ GotOnce'
    BY <2>1, ReadersSame DEF IInv, TypeOK, rvars
  <2>3. ASSUME NEW id \in TaskIds PROVE Placed(id)' /\ Answered(id)'
    <3>1. Moved(id)
      BY <2>1, StillMoves, Zenon
    <3> QED BY <2>1, <3>1, MovedKeeps, Zenon
  <2> QED BY <2>2, <2>3 DEF IInv
<1>4. ASSUME NEW r \in Readers, Request(r) \/ Arrive(r) \/ Close(r) PROVE IInv'
  BY SMTT(30), <1>4, WaitKeeps, AddWaitingKeeps, PostKeeps, ReceiveKeeps, StopWaitingKeeps, PurgeKeeps,
     PostCancelKeeps DEF Request
<1> QED BY <1>1, <1>2, <1>3, <1>4 DEF Next

\* The places of every task, and the results of it, for any requests on any number of
\* slots: server_queue, server_response and the readers keep the invariant.
THEOREM ServerInvariant == Spec => []IInv
  BY InitInv, NextInv, PTL DEF Spec

-----------------------------------------------------------------------------
(* What it says                                                             *)

\* A task is moved, never copied: post, defer, pop_deferred_task and launch leave it in
\* one place at most, whatever is cancelled, refused or released in between.
THEOREM ServerMovesTasks == Spec => []TaskInOnePlace
<1>1. IInv => TaskInOnePlace
  <2> SUFFICES ASSUME IInv, NEW id \in TaskIds PROVE Cardinality(Places(id)) <= 1
    BY DEF TaskInOnePlace
  <2> DEFINE holds(e) == e.type = "task" /\ id \in IdsOf(e.task)
             A == {<<"queue", k>> : k \in {j \in DOMAIN queue_tasks : holds(queue_tasks[j])}}
             B == {<<"deferred", k>> : k \in {j \in DOMAIN queue_tasks_deferred : holds(queue_tasks_deferred[j])}}
             C == {<<"process", 0>> : k \in {j \in {0} : holds(loop.cur)}}
             D == {<<"slot", s>> : s \in SlotsOf(id)}
  <2>1. Places(id) = A \cup B \cup C \cup D
    BY DEF Places
  <2>2. ASSUME NEW e \in Entries \cup {NoTask}, holds(e) PROVE e \in Holders(id)
    BY <2>2, HolderFacts, SMTT(30)
  <2>3. /\ \A k \in DOMAIN queue_tasks : queue_tasks[k] \in Entries
        /\ \A k \in DOMAIN queue_tasks_deferred : queue_tasks_deferred[k] \in Entries
        /\ loop.cur \in Entries \cup {NoTask} /\ Alone(id)
    BY DEF IInv, TypeOK, LoopStates, Placed
  <2> HIDE DEF holds
  <2>4. ASSUME NEW x \in A PROVE \E k \in DOMAIN queue_tasks : x = <<"queue", k>> /\ queue_tasks[k] \in Holders(id)
    BY <2>2, <2>3, SMTT(30)
  <2>5. ASSUME NEW x \in B
        PROVE  \E k \in DOMAIN queue_tasks_deferred :
                 x = <<"deferred", k>> /\ queue_tasks_deferred[k] \in Holders(id)
    BY <2>2, <2>3, SMTT(30)
  <2>6. ASSUME NEW x \in C PROVE x = <<"process", 0>> /\ Current(id)
    BY <2>2, <2>3, SMTT(30) DEF Current
  <2>7. ASSUME NEW x \in D PROVE \E s \in SlotsOf(id) : x = <<"slot", s>>
    BY SMTT(30)
  <2> HIDE DEF A, B, C, D
  <2>8. /\ A # {} => Queued(id)
        /\ B # {} => Waits(id)
        /\ C # {} => Current(id)
        /\ D # {} => SlotsOf(id) # {}
    BY <2>4, <2>5, <2>6, <2>7 DEF Queued, Waits, Has
  <2>9. /\ \A x, y \in A : x = y
        /\ \A x, y \in B : x = y
        /\ \A x, y \in C : x = y
        /\ \A x, y \in D : x = y
    <3>1. \A x, y \in A : x = y
      BY <2>3, <2>4, SMTT(30) DEF Alone, Once
    <3>2. \A x, y \in B : x = y
      BY <2>3, <2>5, SMTT(30) DEF Alone, Once
    <3>3. \A x, y \in C : x = y
      BY <2>6, SMTT(30)
    <3>4. \A x, y \in D : x = y
      BY <2>3, <2>7, ZenonT(30) DEF Alone
    <3> QED BY <3>1, <3>2, <3>3, <3>4
  <2>10. \A x, y \in Places(id) : x = y
    BY <2>1, <2>3, <2>8, <2>9, ZenonT(30) DEF Alone
  <2>11. Places(id) = {} \/ \E x : Places(id) = {x}
    BY <2>10
  <2>12. Cardinality({}) = 0 /\ \A x : Cardinality({x}) = 1
    BY FS_EmptySet, FS_Singleton, Zenon
  <2>13. Cardinality(Places(id)) = 0 \/ Cardinality(Places(id)) = 1
    BY <2>11, <2>12, ZenonT(30)
  <2> QED BY <2>13
<1> QED BY <1>1, ServerInvariant, PTL

\* Once a request is over nobody waits for its tasks, and no result of them stays in
\* queue_results: server_response_reader::stop leaves nothing behind.
THEOREM ServerCleansUp == Spec => []NoResultLeftBehind
<1>1. IInv => NoResultLeftBehind
  <2> SUFFICES ASSUME IInv, NEW r \in Readers, reader[r].pc = "done"
               PROVE  waiting_task_ids \cap IdTasks(r) = {} /\ ResultsOf(r) = {}
    BY SMTT(30) DEF NoResultLeftBehind
  <2>1. ASSUME NEW id \in IdTasks(r) PROVE id \notin waiting_task_ids /\ ~ Pending(id) /\ id \in TaskIds
    <3>1. id \in TaskIds
      BY RequestIds DEF IInv
    <3>2. Left(id) /\ Over(id)
      BY DEF Left, Over, OfRequest
    <3> QED BY <3>1, <3>2, ZenonT(30) DEF IInv, Answered
  <2>2. ASSUME NEW k \in ResultsOf(r) PROVE FALSE
    <3>1. k \in DOMAIN queue_results /\ queue_results[k].id \in IdTasks(r) /\ queue_results[k] \in Results
      BY SMTT(30) DEF ResultsOf, IInv, TypeOK
    <3>2. queue_results[k] \in Sent(queue_results[k].id)
      BY <2>1, <3>1, SentFacts, SMTT(30)
    <3> QED BY <2>1, <3>1, <3>2, SMTT(30) DEF Pending, Has
  <2> QED BY <2>1, <2>2
<1> QED BY <1>1, ServerInvariant, PTL

\* A request receives at most one final result of each task: the assertion "duplicate
\* result received" of wait_for_all never fails, and has_next counts right.
THEOREM ServerAnswersOnce == Spec => []NoDuplicateResult
<1>1. IInv => NoDuplicateResult
  BY DEF IInv, GotOnce, NoDuplicateResult
<1> QED BY <1>1, ServerInvariant, PTL

-----------------------------------------------------------------------------
(* The sleep                                                                *)

\* remove_if drops no element but those that are `gone'.
LEMMA RemoveIfKeeps ==
  ASSUME NEW X, NEW q \in Seq(X), NEW gone, NEW x, x \notin gone, Has(q, {x})
  PROVE  Has(RemoveIf(q, gone), {x})
<1> DEFINE g == CHOOSE f : Kept(f, q, gone, Len(q))
<1>1. Len(q) \in Nat /\ DOMAIN q = 1 .. Len(q) /\ \A k \in 1 .. Len(q) : q[k] \in X
  OBVIOUS
<1>2. RemoveIf(q, gone) = g[Len(q)]
  BY DEF RemoveIf, Kept
<1>3. Kept(g, q, gone, Len(q))
  BY <1>1, KeptExists, SMTT(30)
<1> HIDE DEF g
<1>4. g[0] = <<>> /\ \A k \in 1 .. Len(q) : g[k] = IF q[k] \in gone THEN g[k - 1]
                                                   ELSE Append(g[k - 1], q[k])
  <2>1. \A k \in 0 .. Len(q) : g[k] = IF k = 0 THEN <<>>
                                      ELSE IF q[k] \in gone THEN g[k - 1] ELSE Append(g[k - 1], q[k])
    BY <1>3, Zenon DEF Kept
  <2>2. 0 \in 0 .. Len(q) /\ \A k \in 1 .. Len(q) : k \in 0 .. Len(q) /\ k # 0
    BY <1>1
  <2> QED BY <2>1, <2>2, Zenon
<1>5. PICK i \in 1 .. Len(q) : q[i] = x
  BY <1>1 DEF Has
<1> DEFINE fine(n) == g[n] \in Seq(X) /\ (i <= n => Has(g[n], {x}))
           Bad     == {n \in 0 .. Len(q) : ~ fine(n)}
<1>6. Bad = {}
  <2> SUFFICES ASSUME Bad # {} PROVE FALSE
    OBVIOUS
  <2>1. Bad \in SUBSET Nat
    OBVIOUS
  <2> HIDE DEF Bad
  <2>2. PICK n \in Bad : \A m \in Bad : n <= m
    BY <2>1, LeastNumber, Zenon
  <2>3. n \in 0 .. Len(q) /\ ~ fine(n)
    BY <2>2 DEF Bad
  <2>4. n # 0
    <3>1. <<>> \in Seq(X) /\ ~ (i <= 0)
      OBVIOUS
    <3> QED BY <1>4, <2>3, <3>1
  <2>5. n \in 1 .. Len(q) /\ n - 1 \in 0 .. Len(q) /\ ~ (n <= n - 1)
    BY <1>1, <2>3, <2>4
  <2>6. n - 1 \notin Bad
    BY <2>2, <2>5, Zenon
  <2>7. fine(n - 1)
    BY <2>5, <2>6 DEF Bad
  <2>8. CASE q[n] \in gone
    <3>1. g[n] = g[n - 1] /\ i # n
      BY <1>4, <1>5, <2>5, <2>8
    <3>2. i <= n => i <= n - 1
      BY <2>5, <3>1
    <3> QED BY <2>3, <2>7, <3>1, <3>2
  <2>9. CASE q[n] \notin gone
    <3>1. g[n] = Append(g[n - 1], q[n]) /\ q[n] \in X
      BY <1>1, <1>4, <2>5, <2>9
    <3>2. /\ g[n] \in Seq(X)
          /\ \A H : Has(g[n], H) <=> Has(g[n - 1], H) \/ q[n] \in H
      <4> DEFINE p == g[n - 1]
                 e == q[n]
      <4>1. p \in Seq(X) /\ e \in X /\ g[n] = Append(p, e)
        BY <2>7, <3>1
      <4> HIDE DEF p, e
      <4>2. Append(p, e) \in Seq(X) /\ \A H : Has(Append(p, e), H) <=> Has(p, H) \/ e \in H
        BY <4>1, Appended, Zenon
      <4> QED BY <4>1, <4>2 DEF p, e
    <3>3. i <= n => i <= n - 1 \/ q[n] = x
      BY <1>5, <2>5
    <3>4. i <= n => Has(g[n], {x})
      BY <2>7, <3>2, <3>3, Zenon
    <3> QED BY <2>3, <3>2, <3>4
  <2> QED BY <2>8, <2>9
<1>7. Len(q) \in 0 .. Len(q) /\ i <= Len(q)
  BY <1>1
<1>8. fine(Len(q))
  BY <1>6, <1>7, Zenon
<1> QED BY <1>2, <1>7, <1>8

\* Where update_slots() goes through the slots.
Updating == {"prompts", "prompts_release", "sample", "sample_release", "fail", "fail_release"}

\* The NEXT_RESPONSE task that update_slots() posts first is in the queue.
GoesOn == Has(queue_tasks, {NextResponse})

\* Why the server does not sleep while a slot works: update_slots() has posted
\* NEXT_RESPONSE before it touches the slots, and only the loop that takes it removes it,
\* so that the queue is empty after update_slots() only when every slot was idle.
SleepInv ==
  /\ loop.at \in Updating => GoesOn
  /\ loop.at = "idle" => GoesOn \/ FreeSlots = Slots
  /\ sleeping => /\ FreeSlots = Slots
                 /\ loop.at = "asleep" \/ (~ running /\ loop.at \in {"take", "ended"})

\* A request takes no NEXT_RESPONSE task out of the queue.
LEMMA RequestGoesOn ==
  ASSUME IInv, NEW r \in Readers, Request(r) \/ Arrive(r) \/ Close(r), GoesOn
  PROVE  GoesOn'
<1>1. queue_tasks \in Seq(Entries) /\ TypeOK
  BY DEF IInv, TypeOK
<1>2. CASE Post(r)
  <2> DEFINE p == [k \in DOMAIN reader[r].tasks |-> Task(reader[r].tasks[k])]
  <2>1. p \in Seq(Entries)
    <3>1. reader[r].tasks \in Seq(AllTasks)
      BY <1>1, SMTT(30) DEF TypeOK, ReaderStates
    <3>2. \A t \in AllTasks : Task(t) \in Entries
      BY DEF Entries
    <3> HIDE DEF Entries, AllTasks
    <3> QED BY <3>1, <3>2, SMTT(30)
  <2>2. queue_tasks' = queue_tasks \o p
    BY <1>2 DEF Post
  <2> HIDE DEF p
  <2>3. \A H : Has(queue_tasks \o p, H) <=> Has(queue_tasks, H) \/ Has(p, H)
    BY <1>1, <2>1, Joined, Zenon
  <2> QED BY <2>2, <2>3, Zenon DEF GoesOn
<1>3. CASE PostCancel(r)
  <2>1. PICK ids \in Bijection(1 .. Cardinality(IdTasks(r)), IdTasks(r)) :
          queue_tasks' = [k \in DOMAIN ids |-> Cancel(ids[k])] \o CleanupPending(queue_tasks, IdTasks(r))
    BY <1>3 DEF PostCancel
  <2> DEFINE lost == {e \in Range(queue_tasks) : e.type = "task" /\ e.task.id \in IdTasks(r)}
             rest == RemoveIf(queue_tasks, lost)
             c    == [k \in DOMAIN ids |-> Cancel(ids[k])]
  <2>2. queue_tasks' = c \o rest
    BY <2>1 DEF CleanupPending
  <2>3. NextResponse \notin lost
    BY DEF NextResponse
  <2>4. c \in Seq(Entries)
    <3>1. ids \in [1 .. Cardinality(IdTasks(r)) -> IdTasks(r)]
      BY Zenon DEF Bijection, Injection
    <3>2. Cardinality(IdTasks(r)) \in Nat /\ IdTasks(r) \subseteq TaskIds
      BY <1>1, IdTasksFinite, RequestIds
    <3>3. \A i \in TaskIds : Cancel(i) \in Entries
      BY Zenon DEF Entries
    <3>4. c \in [1 .. Cardinality(IdTasks(r)) -> Entries]
      BY <3>1, <3>2, <3>3
    <3> QED BY <3>2, <3>4
  <2> HIDE DEF lost, c
  <2>5. rest \in Seq(Entries) /\ Has(rest, {NextResponse})
    BY <1>1, <2>3, RemoveIfPart, RemoveIfKeeps, Zenon DEF GoesOn
  <2> HIDE DEF rest
  <2>6. \A H : Has(c \o rest, H) <=> Has(c, H) \/ Has(rest, H)
    BY <2>4, <2>5, Joined, Zenon
  <2> QED BY <2>2, <2>5, <2>6, Zenon DEF GoesOn
<1>4. CASE queue_tasks' = queue_tasks
  BY <1>4 DEF GoesOn
<1>5. Woken(r) \/ AddWaiting(r) \/ Receive(r) \/ StopWaiting(r) \/ Purge(r) \/ Arrive(r) \/ Close(r)
        => queue_tasks' = queue_tasks
  BY Zenon DEF Woken, AddWaiting, Receive, StopWaiting, Purge, Arrive, Close, qvars
<1> QED BY <1>2, <1>3, <1>4, <1>5 DEF Request

\* pop_deferred_task() puts a task before those in the queue.
LEMMA PopGoesOn ==
  ASSUME IInv, NEW s, PopDeferred(s), GoesOn
  PROVE  GoesOn'
<1>1. queue_tasks \in Seq(Entries) /\ queue_tasks_deferred \in Seq(Entries)
  BY DEF IInv, TypeOK
<1>2. CASE queue_tasks_deferred = <<>>
  BY <1>2 DEF PopDeferred, GoesOn
<1>3. CASE queue_tasks_deferred # <<>>
  <2> DEFINE e == queue_tasks_deferred[Deferred(s)]
  <2>1. queue_tasks' = <<e>> \o queue_tasks
    BY <1>3 DEF PopDeferred
  <2>2. e \in Entries
    BY <1>1, <1>3, DeferredFacts
  <2> HIDE DEF e
  <2>3. <<e>> \in Seq(Entries)
    BY <2>2
  <2>4. \A H : Has(<<e>> \o queue_tasks, H) <=> Has(<<e>>, H) \/ Has(queue_tasks, H)
    BY <1>1, <2>3, Joined, Zenon
  <2> QED BY <2>1, <2>4, Zenon DEF GoesOn
<1> QED BY <1>2, <1>3

\* A step of the main loop, or one of a request, keeps SleepInv.
LEMMA SleepStep ==
  ASSUME IInv, SleepInv, [Next]_vars
  PROVE  SleepInv'
<1>0. loop \in LoopStates
  BY DEF IInv, TypeOK
<1>a. /\ \A x : [loop EXCEPT !.at = x].at = x
      /\ \A y : [loop EXCEPT !.todo = y].at = loop.at
  BY <1>0, SMTT(30) DEF LoopStates
<1>b. ASSUME NEW x, NEW y, loop' = [loop EXCEPT !.at = x, !.cur = y] PROVE loop'.at = x
  BY <1>0, <1>b, SMTT(30) DEF LoopStates
<1>c. ASSUME NEW x, NEW y, loop' = [loop EXCEPT !.at = x, !.todo = y] PROVE loop'.at = x
  BY <1>0, <1>c, SMTT(30) DEF LoopStates
<1>1. ASSUME UNCHANGED <<loop, slots, running, sleeping>>, GoesOn => GoesOn'
      PROVE  SleepInv'
  BY <1>1 DEF SleepInv, FreeSlots
<1>2. CASE Take
  <2>1. /\ loop'.at \in {"ended", "update", "process"} /\ UNCHANGED <<slots, running, sleeping>>
        /\ loop'.at # "ended" => running
        /\ loop.at = "take"
    <3>1. loop.at = "take" /\ UNCHANGED <<slots, running, sleeping>>
      BY <1>2 DEF Take, At
    <3>2. \/ ~ running /\ loop' = [loop EXCEPT !.at = "ended"]
          \/ running /\ loop' = [loop EXCEPT !.at = "update"]
          \/ running /\ loop' = [loop EXCEPT !.at = "process", !.cur = Head(queue_tasks)]
      BY <1>2, Zenon DEF Take, Move
    <3> QED BY <1>a, <1>b, <3>1, <3>2, Zenon
  <2> QED BY <2>1, SMTT(30) DEF SleepInv, FreeSlots, Updating
<1>3. CASE ProcessDefer \/ ProcessLaunch \/ ProcessRefuse \/ ProcessOp \/ ProcessCancel \/ ProcessNext
  <2>1. loop.at = "process" /\ Processed /\ UNCHANGED sleeping
    BY <1>3, Zenon DEF ProcessDefer, ProcessLaunch, ProcessRefuse, ProcessOp, ProcessCancel,
                       ProcessNext, At, qvars
  <2>2. loop'.at = "take"
    BY <1>0, <2>1, SMTT(30) DEF Processed, LoopStates
  <2> QED BY <2>1, <2>2, SMTT(30) DEF SleepInv, Updating
<1>4. CASE Update
  <2>1. loop.at = "update" /\ UNCHANGED <<slots, sleeping>>
    BY <1>4 DEF Update, At
  <2>2. ~ sleeping
    BY <2>1, SMTT(30) DEF SleepInv
  <2>3. CASE FreeSlots = Slots
    <3>1. loop'.at = "idle"
      BY <1>0, <1>4, <2>3, SMTT(30) DEF Update, Move, LoopStates
    <3> QED BY <2>1, <2>2, <2>3, <3>1, SMTT(30) DEF SleepInv, Updating, FreeSlots
  <2>4. CASE FreeSlots # Slots
    <3>0. /\ loop' = [loop EXCEPT !.at = "prompts", !.todo = InState({"started"})]
          /\ queue_tasks' = Append(queue_tasks, NextResponse)
      BY <1>4, <2>4, Zenon DEF Update
    <3>1. loop'.at = "prompts" /\ queue_tasks' = Append(queue_tasks, NextResponse)
      BY <1>c, <3>0, Zenon
    <3>2. GoesOn'
      <4>1. queue_tasks \in Seq(Entries) /\ NextResponse \in Entries
        BY Zenon DEF IInv, TypeOK, Entries
      <4>2. \A H : Has(Append(queue_tasks, NextResponse), H) <=> Has(queue_tasks, H) \/ NextResponse \in H
        BY <4>1, Appended, Zenon
      <4> QED BY <3>1, <4>2, Zenon DEF GoesOn
    <3> QED BY <2>1, <2>2, <3>1, <3>2, SMTT(30) DEF SleepInv
  <2> QED BY <2>3, <2>4
<1>5. ASSUME loop.at \in Updating, loop'.at \in Updating \cup {"idle", "aborted"}, GoesOn => GoesOn',
             UNCHANGED sleeping
      PROVE  SleepInv'
  <2>1. GoesOn'
    BY <1>5, Zenon DEF SleepInv
  <2>2. ~ sleeping
    BY <1>5, SMTT(30) DEF SleepInv, Updating
  <2> QED BY <1>5, <2>1, <2>2, SMTT(30) DEF SleepInv
<1>6. CASE Release
  <2>1. loop.at \in Updating /\ loop'.at \in Updating /\ UNCHANGED sleeping
    BY <1>0, <1>6, SMTT(30) DEF Release, Updating, LoopStates
  <2>2. GoesOn => GoesOn'
    BY <1>6, PopGoesOn DEF Release
  <2> QED BY <1>5, <2>1, <2>2
<1>7. CASE DecodeEmpty \/ DecodeDone \/ DecodeFails \/ UpdateEnds
  <2>1. /\ loop.at \in Updating /\ loop'.at \in Updating \cup {"idle", "aborted"}
        /\ UNCHANGED <<queue_tasks, sleeping>>
    <3>1. UNCHANGED <<queue_tasks, sleeping>>
      BY <1>7, Zenon DEF DecodeEmpty, DecodeDone, DecodeFails, UpdateEnds, qvars
    <3>2. loop.at \in {"prompts", "sample", "fail"} /\ loop'.at \in {"idle", "aborted", "sample", "fail"}
      <4>1. CASE DecodeEmpty
        BY <1>a, <4>1, Zenon DEF DecodeEmpty, At, Move
      <4>2. CASE DecodeDone
        <5>1. loop.at = "prompts" /\ \E y : loop' = [loop EXCEPT !.at = "sample", !.todo = y]
          BY <4>2, Zenon DEF DecodeDone, At
        <5> QED BY <1>c, <5>1, Zenon
      <4>3. CASE DecodeFails
        <5>1. loop.at \in {"prompts", "sample"} /\ \E y : loop' = [loop EXCEPT !.at = "fail", !.todo = y]
          BY <4>3, Zenon DEF DecodeFails, At
        <5> QED BY <1>c, <5>1, Zenon
      <4>4. CASE UpdateEnds
        BY <1>a, <4>4, Zenon DEF UpdateEnds, Move
      <4> QED BY <1>7, <4>1, <4>2, <4>3, <4>4
    <3> QED BY <3>1, <3>2, Zenon DEF Updating
  <2> QED BY <1>5, <2>1 DEF GoesOn
<1>8. ASSUME NEW s \in Slots, Prompt(s) \/ FailSlot(s) \/ Sample(s)
      PROVE  SleepInv'
  <2>1. loop.at \in {"prompts", "fail", "sample"} /\ UNCHANGED <<queue_tasks, sleeping>>
    BY <1>8, SMTT(30) DEF Prompt, FailSlot, Sample, SendAndRelease, At, qvars
  <2>2. loop'.at \in {loop.at, Releasing(loop.at)}
    <3>1. CASE \E kind : SendAndRelease(s, kind)
      BY <1>0, <3>1, SMTT(30) DEF SendAndRelease, LoopStates
    <3>2. CASE loop' = [loop EXCEPT !.todo = @ \ {s}]
      BY <1>0, <3>2, SMTT(30) DEF LoopStates
    <3> QED BY <1>8, <3>1, <3>2, Zenon DEF Prompt, FailSlot, Sample
  <2>3. Releasing(loop.at) \in Updating /\ loop.at \in Updating
    BY <2>1, SMTT(30) DEF Releasing, Updating
  <2> QED BY <1>5, <2>1, <2>2, <2>3 DEF GoesOn
<1>9. CASE WaitEnds
  <2>1. loop.at = "idle" /\ loop'.at = "take" /\ UNCHANGED sleeping
    BY <1>0, <1>9, SMTT(30) DEF WaitEnds, At, Move, qvars, LoopStates
  <2> QED BY <2>1, SMTT(30) DEF SleepInv, Updating
<1>10. CASE Wake
  <2>1. /\ loop.at = "asleep" /\ UNCHANGED <<slots, running>>
        /\ \/ loop'.at = "take" /\ ~ running /\ UNCHANGED sleeping
           \/ loop'.at = "take" /\ ~ sleeping'
           \/ UNCHANGED <<loop, sleeping>>
    BY <1>0, <1>10, SMTT(30) DEF Wake, At, Move, LoopStates
  <2> QED BY <2>1, SMTT(30) DEF SleepInv, FreeSlots, Updating
<1>11. CASE Sleep
  <2>1. /\ loop.at = "idle" /\ queue_tasks = <<>> /\ loop'.at = "asleep" /\ UNCHANGED slots
    BY <1>0, <1>11, SMTT(30) DEF Sleep, At, Move, LoopStates
  <2>2. ~ GoesOn
    BY <2>1, SMTT(30) DEF GoesOn, Has
  <2> QED BY <2>1, <2>2, SMTT(30) DEF SleepInv, FreeSlots, Updating
<1>12. CASE Terminate
  <2>1. UNCHANGED <<loop, slots, queue_tasks, sleeping>> /\ running' = FALSE
    BY <1>12 DEF Terminate, mvars
  <2> QED BY <2>1, SMTT(30) DEF SleepInv, FreeSlots, GoesOn
<1>13. ASSUME NEW r \in Readers, Request(r) \/ Arrive(r) \/ Close(r)
       PROVE  SleepInv'
  <2>1. GoesOn => GoesOn'
    BY <1>13, RequestGoesOn
  <2>2. UNCHANGED <<loop, slots, running, sleeping>>
    BY <1>13, Zenon DEF Request, Woken, AddWaiting, Post, Receive, StopWaiting, Purge, PostCancel, Arrive,
                        Close, qvars, mvars
  <2> QED BY <1>1, <2>1, <2>2
<1>14. CASE UNCHANGED vars
  BY <1>1, <1>14 DEF vars, qvars, mvars, GoesOn
<1> QED BY <1>2, <1>3, <1>4, <1>6, <1>7, <1>8, <1>9, <1>10, <1>11, <1>12, <1>13, <1>14 DEF Next, MainLoop

\* The server sleeps, and handle_sleeping_state unloads the model, only while no slot
\* works: whatever is posted, cancelled or refused while it decides to.
THEOREM ServerSleepsUnused == Spec => [](sleeping => FreeSlots = Slots)
<1>1. Init => SleepInv
  BY SMTT(30) DEF Init, SleepInv, Updating
<1>2. IInv /\ SleepInv /\ [Next]_vars => SleepInv'
  BY SleepStep
<1>3. SleepInv => (sleeping => FreeSlots = Slots)
  BY DEF SleepInv
<1> QED BY <1>1, <1>2, <1>3, ServerInvariant, PTL DEF Spec
==============================================================================
