----------------------------- MODULE ServerQueue -----------------------------
(***************************************************************************)
(* The task and result queues of the server                                *)
(* (src/tools/server/server-queue.cpp), with the main loop and the slots   *)
(* of server-context.cpp that consume tasks, and the HTTP requests that    *)
(* post them and wait for results through a server_response_reader.        *)
(*                                                                         *)
(* Threads: the main loop and one thread for each request.  A step is what *)
(* a thread does while it holds mutex_tasks or mutex_results, with the     *)
(* thread-local work around it.  A thread in condition_tasks.wait() is in  *)
(* `blocked'; notify_one takes any thread out of it, and the thread then   *)
(* evaluates its predicate again.  The waits with a timeout (wait_for)     *)
(* lose no wake-up and are not in `blocked'.                               *)
(*                                                                         *)
(* Of a generation only this is kept: a prompt may be refused, a decode    *)
(* may fail for all slots, and a slot ends after at most MaxDecoded        *)
(* tokens.  Every started prompt fits in the next batch.                   *)
(***************************************************************************)
EXTENDS Integers, Sequences, FiniteSets, Functions

CONSTANTS
  Readers,      \* the HTTP requests, each with its server_response_reader
  Requests,     \* Requests[r]: what request r may post, each a sequence of tasks
  NSlots,       \* n_parallel
  Streaming,    \* the requests with "stream": true
  Closing,      \* the requests whose client may close the connection
  BadLaunch,    \* the tasks launch_slot_with_task may refuse
  BadPrompt,    \* the tasks whose prompt may be empty, or refused
  DecodeErrors, \* may llama_decode fail?
  MaxDecoded,   \* bound on the tokens of a generation (n_predict, n_ctx)
  Sleeps,       \* sleep_idle_seconds >= 0
  LongIdle,     \* a request posts its tasks within the idle time
  Stops,        \* may terminate() be called?
  Main          \* the main loop as a thread

(* A task is [id, kind, id_slot, kids]: kind "gen" runs in a slot (in slot *)
(* id_slot unless that is NoId), together with its child tasks kids, one   *)
(* more slot each; kind "op" saves, restores or erases slot id_slot.       *)

NoId   == -1
Slots  == 0 .. NSlots - 1

TaskRecords == [id : Nat, kind : {"gen", "op"}, id_slot : Int, kids : Seq(Nat)]
IdsOf(t)    == {t.id} \cup Range(t.kids)
PostIds(ts) == UNION {IdsOf(t) : t \in Range(ts)}
AllIds(r)   == UNION {PostIds(ts) : ts \in Requests[r]}
AllTasks    == UNION {Range(ts) : ts \in UNION {Requests[r] : r \in Readers}}
TaskIds     == UNION {AllIds(r) : r \in Readers}

ASSUME ServerAssumption ==
  /\ NSlots \in Nat \ {0} /\ MaxDecoded \in Nat \ {0}
  /\ Main \notin Readers

\* get_new_id(): every task has an id of its own
ASSUME IdsAssumption ==
  /\ \A r, q \in Readers : r # q => AllIds(r) \cap AllIds(q) = {}
  /\ \A r \in Readers : \A ts \in Requests[r] :
       /\ ts \in Seq(TaskRecords)
       /\ \A k \in DOMAIN ts : IsInjective(<<ts[k].id>> \o ts[k].kids)
       /\ \A j, k \in DOMAIN ts : j # k => IdsOf(ts[j]) \cap IdsOf(ts[k]) = {}

VARIABLES
  queue_tasks, queue_tasks_deferred,      \* server_queue
  running, sleeping, req_stop_sleeping,
  blocked,                                \* threads waiting on condition_tasks
  waiting_task_ids, queue_results,        \* server_response
  loop,                                   \* where the main loop is
  slots,                                  \* the task of each slot and its state
  n_empty_consecutive,
  reader                                  \* the requests

qvars == <<queue_tasks, queue_tasks_deferred, running, sleeping, req_stop_sleeping, blocked>>
rvars == <<waiting_task_ids, queue_results>>
mvars == <<loop, slots, n_empty_consecutive>>
vars  == <<qvars, rvars, mvars, reader>>

IdleSlot == [id |-> NoId, kids |-> <<>>, state |-> "idle", left |-> 0]
NoTask   == [type |-> "none"]
Task(t)  == [type |-> "task", task |-> t]
Cancel(i) == [type |-> "cancel", id_target |-> i]
NextResponse == [type |-> "next"]

Init ==
  /\ queue_tasks = <<>> /\ queue_tasks_deferred = <<>>
  /\ running = TRUE /\ sleeping = FALSE /\ req_stop_sleeping = FALSE
  /\ blocked = {}
  /\ waiting_task_ids = {} /\ queue_results = <<>>
  /\ loop = [at |-> "take", cur |-> NoTask, todo |-> {}, slot |-> 0]
  /\ slots = [s \in Slots |-> IdleSlot]
  /\ n_empty_consecutive = 0
  /\ reader = [r \in Readers |-> [pc |-> "new", tasks |-> <<>>, got |-> <<>>]]

NotifyOne == IF blocked = {} THEN blocked' = {} ELSE \E w \in blocked : blocked' = blocked \ {w}
NotifyAll == blocked' = {}

\* erase: the queue without its k-th element
Erase(q, k) == SubSeq(q, 1, k - 1) \o SubSeq(q, k + 1, Len(q))

\* std::remove_if and erase: the elements of q that are not in `gone', in order
RemoveIf(q, gone) ==
  LET keep[k \in 0 .. Len(q)] ==
        IF k = 0 THEN <<>>
        ELSE IF q[k] \in gone THEN keep[k - 1] ELSE Append(keep[k - 1], q[k])
  IN  keep[Len(q)]

-----------------------------------------------------------------------------
(* server_response                                                         *)

\* send(): the result is dropped unless its task is waited for
Send(id, kind) ==
  /\ queue_results' = IF id \in waiting_task_ids
                      THEN Append(queue_results, [id |-> id, kind |-> kind]) ELSE queue_results
  /\ UNCHANGED waiting_task_ids

\* mutant of remove_waiting_task_id: pending results stay in the queue
WithoutResultsKept(res, I) == res

\* remove_waiting_task_id() for every id of I
WithoutResults(res, I) == RemoveIf(res, {x \in Range(res) : x.id \in I})

-----------------------------------------------------------------------------
(* server_queue                                                            *)

\* cleanup_pending_task() for every id of I
CleanupPending(q, I) ==
  RemoveIf(q, {e \in Range(q) : e.type = "task" /\ e.task.id \in I})

\* the deferred task that pop_deferred_task(s) takes: the first that asks for
\* slot s, else the first
Deferred(s) ==
  LET same == {k \in DOMAIN queue_tasks_deferred : queue_tasks_deferred[k].task.kind = "gen"
                                               /\ queue_tasks_deferred[k].task.id_slot = s}
  IN  IF same = {} THEN 1 ELSE CHOOSE k \in same : \A j \in same : k <= j

\* mutant of pop_deferred_task: the task is copied
PopDeferredCopies(s) ==
  /\ NotifyOne
  /\ queue_tasks' = IF queue_tasks_deferred = <<>> THEN queue_tasks
                    ELSE <<queue_tasks_deferred[Deferred(s)]>> \o queue_tasks
  /\ UNCHANGED queue_tasks_deferred

PopDeferred(s) ==
  LET k == Deferred(s)
  IN  /\ NotifyOne
      /\ IF queue_tasks_deferred = <<>>
         THEN UNCHANGED <<queue_tasks, queue_tasks_deferred>>
         ELSE /\ queue_tasks' = <<queue_tasks_deferred[k]>> \o queue_tasks
              /\ queue_tasks_deferred' = Erase(queue_tasks_deferred, k)

Defer(e) ==
  /\ queue_tasks_deferred' = Append(queue_tasks_deferred, e)
  /\ NotifyOne
  /\ UNCHANGED queue_tasks

-----------------------------------------------------------------------------
(* The requests.                                                           *)

Goto(r, pc) == reader' = [reader EXCEPT ![r].pc = pc]

\* id_tasks of the reader
IdTasks(r) == PostIds(reader[r].tasks)

\* server_res_generator: wait_until_no_sleep(), up to the wait
Arrive(r) ==
  /\ reader[r].pc = "new"
  /\ \/ ~ sleeping /\ Goto(r, "ready") /\ UNCHANGED <<req_stop_sleeping, blocked>>
     \/ /\ sleeping
        /\ Goto(r, "sleepwait")
        /\ req_stop_sleeping' = TRUE
        /\ IF req_stop_sleeping \/ blocked = {}
           THEN blocked' = blocked \cup {r}
           ELSE \E w \in blocked : blocked' = (blocked \ {w}) \cup {r}
  /\ UNCHANGED <<queue_tasks, queue_tasks_deferred, running, sleeping, rvars, mvars>>

\* a notified request evaluates "!sleeping"
Woken(r) ==
  /\ reader[r].pc = "sleepwait" /\ r \notin blocked
  /\ IF sleeping THEN blocked' = blocked \cup {r} /\ UNCHANGED reader
                 ELSE Goto(r, "ready") /\ UNCHANGED blocked
  /\ UNCHANGED <<queue_tasks, queue_tasks_deferred, running, sleeping, req_stop_sleeping,
                 rvars, mvars>>

\* post_task(), post_tasks(): first the ids are waited for
AddWaiting(r) ==
  /\ reader[r].pc = "ready"
  /\ \E ts \in Requests[r] :
       /\ waiting_task_ids' = waiting_task_ids \cup PostIds(ts)
       /\ reader' = [reader EXCEPT ![r].pc = "added", ![r].tasks = ts]
  /\ UNCHANGED <<qvars, queue_results, mvars>>

\* post_task(), post_tasks(): then the tasks are posted
Post(r) ==
  /\ reader[r].pc = "added"
  /\ queue_tasks' = queue_tasks \o [k \in DOMAIN reader[r].tasks |-> Task(reader[r].tasks[k])]
  /\ NotifyOne
  /\ Goto(r, "recv")
  /\ UNCHANGED <<queue_tasks_deferred, running, sleeping, req_stop_sleeping, rvars, mvars>>

ResultsOf(r) == {k \in DOMAIN queue_results : queue_results[k].id \in IdTasks(r)}

HasNext(r) == Len(reader[r].got) < Cardinality(IdTasks(r))

\* next(): the first result for the request; an error stops the request, and so
\* does the last result
Receive(r) ==
  /\ reader[r].pc = "recv" /\ ResultsOf(r) # {}
  /\ LET k   == CHOOSE j \in ResultsOf(r) : \A i \in ResultsOf(r) : j <= i
         res == queue_results[k]
         got == IF res.kind = "final" THEN Append(reader[r].got, res.id) ELSE reader[r].got
     IN  /\ queue_results' = Erase(queue_results, k)
         /\ reader' = [reader EXCEPT ![r].got = got,
                         ![r].pc = IF res.kind = "error" \/ Len(got) = Cardinality(IdTasks(r))
                                   THEN "stop" ELSE "recv"]
  /\ UNCHANGED <<qvars, waiting_task_ids, mvars>>

\* recv_with_timeout() times out and should_stop() finds the connection closed
Close(r) ==
  /\ reader[r].pc = "recv" /\ r \in Closing
  /\ Goto(r, "stop")
  /\ UNCHANGED <<qvars, rvars, mvars>>

\* stop(): nobody waits for the results any more
StopWaiting(r) ==
  /\ reader[r].pc = "stop"
  /\ waiting_task_ids' = waiting_task_ids \ IdTasks(r)
  /\ Goto(r, IF HasNext(r) THEN "purge" ELSE "done")
  /\ UNCHANGED <<qvars, queue_results, mvars>>

\* stop(): the results that came before are removed
Purge(r) ==
  /\ reader[r].pc = "purge"
  /\ waiting_task_ids' = waiting_task_ids \ IdTasks(r)
  /\ queue_results' = WithoutResults(queue_results, IdTasks(r))
  /\ Goto(r, "cancel")
  /\ UNCHANGED <<qvars, mvars>>

\* stop(): a cancel task for each task, in any order (id_tasks is an unordered_set),
\* at the front of the queue; post() removes the pending tasks
PostCancel(r) ==
  /\ reader[r].pc = "cancel"
  /\ \E ids \in Bijection(1 .. Cardinality(IdTasks(r)), IdTasks(r)) :
       queue_tasks' = [k \in DOMAIN ids |-> Cancel(ids[k])] \o CleanupPending(queue_tasks, IdTasks(r))
  /\ queue_tasks_deferred' = CleanupPending(queue_tasks_deferred, IdTasks(r))
  /\ NotifyOne
  /\ Goto(r, "done")
  /\ UNCHANGED <<running, sleeping, req_stop_sleeping, rvars, mvars>>

\* when start_loop() has returned, or the server has aborted, the process exits
Exited == loop.at \in {"ended", "aborted"}

Request(r) ==
  /\ ~ Exited
  /\ \/ Woken(r) \/ AddWaiting(r) \/ Post(r) \/ Receive(r)
     \/ StopWaiting(r) \/ Purge(r) \/ PostCancel(r)

-----------------------------------------------------------------------------
(* The main loop: taking a task.                                           *)

At(where) == loop.at = where
Move(where) == loop' = [loop EXCEPT !.at = where]

Take ==
  /\ At("take")
  /\ \/ ~ running /\ Move("ended") /\ UNCHANGED queue_tasks
     \/ running /\ queue_tasks = <<>> /\ Move("update") /\ UNCHANGED queue_tasks
     \/ /\ running /\ queue_tasks # <<>>
        /\ loop' = [loop EXCEPT !.at = "process", !.cur = Head(queue_tasks)]
        /\ queue_tasks' = Tail(queue_tasks)
  /\ UNCHANGED <<queue_tasks_deferred, running, sleeping, req_stop_sleeping, blocked, rvars,
                 slots, n_empty_consecutive, reader>>

FreeSlots == {s \in Slots : slots[s].state = "idle"}

\* get_slot_by_id(): an id out of bounds wraps around
GetSlotById(i) == i % NSlots

Processed == loop' = [loop EXCEPT !.at = "take", !.cur = NoTask]

\* process_single_task() puts the task back for later
ProcessDefer ==
  LET t == loop.cur.task
  IN  /\ At("process") /\ loop.cur.type = "task"
      /\ \/ t.id_slot # NoId /\ GetSlotById(t.id_slot) \notin FreeSlots
         \/ t.kind = "gen" /\ Cardinality(FreeSlots) < 1 + Len(t.kids)
      /\ Defer(loop.cur)
      /\ Processed
      /\ UNCHANGED <<running, sleeping, req_stop_sleeping, rvars, slots, n_empty_consecutive, reader>>

Started(id, kids, state) == [id |-> id, kids |-> kids, state |-> state, left |-> MaxDecoded]

\* the free slots a task takes: its own, any of them, and the first others for
\* its children
CanTake(t, s) ==
  /\ s \in FreeSlots
  /\ t.id_slot # NoId => s = GetSlotById(t.id_slot)
  /\ Cardinality(FreeSlots) >= 1 + Len(t.kids)

\* get_free_slots(): x is the how-many-eth free slot beside s
Rank(s, x) == Cardinality({y \in FreeSlots \ {s} : y <= x})

\* launch_slot_with_task() and launch_slots_with_parent_task()
Launch(t, s) ==
  [x \in Slots |-> IF x = s THEN Started(t.id, t.kids, "started")
                   ELSE IF x \in FreeSlots /\ Rank(s, x) \in DOMAIN t.kids
                        THEN Started(t.kids[Rank(s, x)], <<>>, "wait")
                        ELSE slots[x]]

\* process_single_task() launches the task
ProcessLaunch ==
  LET t == loop.cur.task
  IN  /\ At("process") /\ loop.cur.type = "task" /\ t.kind = "gen"
      /\ \E s \in Slots : CanTake(t, s) /\ slots' = Launch(t, s)
      /\ n_empty_consecutive' = 0
      /\ Processed
      /\ UNCHANGED <<qvars, rvars, reader>>

\* launch_slot_with_task() refuses the task: it is dropped with an error.  Children
\* are launched first and have the parameters of their parent, so that the first
\* of them is refused and no slot is left to release.
ProcessRefuse ==
  LET t == loop.cur.task
  IN  /\ At("process") /\ loop.cur.type = "task" /\ t.kind = "gen"
      /\ t.id \in BadLaunch
      /\ \E s \in Slots : CanTake(t, s)
      /\ Send(IF t.kids = <<>> THEN t.id ELSE t.kids[1], "error")
      /\ Processed
      /\ UNCHANGED <<qvars, slots, n_empty_consecutive, reader>>

\* a slot is saved, restored or erased; an error when that fails
ProcessOp ==
  LET t == loop.cur.task
  IN  /\ At("process") /\ loop.cur.type = "task" /\ t.kind = "op"
      /\ GetSlotById(t.id_slot) \in FreeSlots
      /\ \E kind \in {"final", "error"} : Send(t.id, kind)
      /\ Processed
      /\ UNCHANGED <<qvars, slots, n_empty_consecutive, reader>>

SlotsOf(id) == {s \in Slots : slots[s].id = id}

\* a cancel task releases the slot of its target
ProcessCancel ==
  /\ At("process") /\ loop.cur.type = "cancel"
  /\ IF SlotsOf(loop.cur.id_target) = {}
     THEN UNCHANGED <<slots, queue_tasks, queue_tasks_deferred, blocked>>
     ELSE \E s \in SlotsOf(loop.cur.id_target) :
            slots' = [slots EXCEPT ![s] = IdleSlot] /\ PopDeferred(s)
  /\ Processed
  /\ UNCHANGED <<running, sleeping, req_stop_sleeping, rvars, n_empty_consecutive, reader>>

ProcessNext ==
  /\ At("process") /\ loop.cur.type = "next"
  /\ Processed
  /\ UNCHANGED <<qvars, rvars, slots, n_empty_consecutive, reader>>

-----------------------------------------------------------------------------
(* The main loop: update_slots().                                          *)

InState(S) == {s \in Slots : slots[s].state \in S}

\* the loops over the slots go in their order
NextSlot(s) == s \in loop.todo /\ \A x \in loop.todo : s <= x

\* mutant: nothing is posted for the next iteration
UpdateNoNext ==
  /\ At("update")
  /\ loop' = IF FreeSlots = Slots THEN [loop EXCEPT !.at = "idle"]
             ELSE [loop EXCEPT !.at = "prompts", !.todo = InState({"started"})]
  /\ UNCHANGED <<qvars, rvars, slots, n_empty_consecutive, reader>>

\* all slots idle, or a NEXT_RESPONSE task keeps the loop going
Update ==
  /\ At("update")
  /\ \/ /\ FreeSlots = Slots
        /\ Move("idle")
        /\ UNCHANGED <<queue_tasks, blocked>>
     \/ /\ FreeSlots # Slots
        /\ queue_tasks' = Append(queue_tasks, NextResponse)
        /\ NotifyOne
        /\ loop' = [loop EXCEPT !.at = "prompts", !.todo = InState({"started"})]
  /\ UNCHANGED <<queue_tasks_deferred, running, sleeping, req_stop_sleeping, rvars,
                 slots, n_empty_consecutive, reader>>

\* where the loop over the slots is interrupted to release one
Releasing(at) == CASE at = "prompts" -> "prompts_release"
                   [] at = "sample"  -> "sample_release"
                   [] at = "fail"    -> "fail_release"

\* a result is sent, and the slot is released next
SendAndRelease(s, kind) ==
  /\ Send(slots[s].id, kind)
  /\ loop' = [loop EXCEPT !.todo = @ \ {s}, !.slot = s, !.at = Releasing(@)]
  /\ UNCHANGED <<qvars, slots, n_empty_consecutive, reader>>

\* a new prompt goes into the batch, unless it is empty (the result is final) or
\* does not fit the context (an error)
Prompt(s) ==
  /\ At("prompts") /\ NextSlot(s)
  /\ \/ slots[s].id \in BadPrompt /\ \E kind \in {"final", "error"} : SendAndRelease(s, kind)
     \/ /\ slots' = [slots EXCEPT ![s].state = "prompt"]
        /\ loop' = [loop EXCEPT !.todo = @ \ {s}]
        /\ UNCHANGED <<qvars, rvars, n_empty_consecutive, reader>>

\* release(): the slot is idle and pops a deferred task
Release ==
  /\ loop.at \in {"prompts_release", "sample_release", "fail_release"}
  /\ slots' = [slots EXCEPT ![loop.slot] = IdleSlot]
  /\ PopDeferred(loop.slot)
  /\ loop' = [loop EXCEPT !.slot = 0,
                !.at = CASE loop.at = "prompts_release" -> "prompts"
                         [] loop.at = "sample_release" -> "sample"
                         [] loop.at = "fail_release" -> "fail"]
  /\ UNCHANGED <<running, sleeping, req_stop_sleeping, rvars, n_empty_consecutive, reader>>

\* an empty batch is counted: the fourth in a row aborts the server
DecodeEmpty ==
  /\ At("prompts") /\ loop.todo = {}
  /\ InState({"prompt", "gen"}) = {}
  /\ n_empty_consecutive' = n_empty_consecutive + 1
  /\ Move(IF n_empty_consecutive' > 3 THEN "aborted" ELSE "idle")
  /\ UNCHANGED <<qvars, rvars, slots, reader>>

Parents == {s \in Slots : slots[s].state = "prompt"}

\* mutant: the children are not activated
DecodeDoneKeepsKids ==
  /\ At("prompts") /\ loop.todo = {}
  /\ InState({"prompt", "gen"}) # {}
  /\ n_empty_consecutive' = 0
  /\ slots' = [s \in Slots |-> IF slots[s].state = "prompt"
                               THEN [slots[s] EXCEPT !.state = "gen"] ELSE slots[s]]
  /\ loop' = [loop EXCEPT !.at = "sample", !.todo = InState({"prompt", "gen"})]
  /\ UNCHANGED <<qvars, rvars, reader>>

\* llama_decode succeeds: prompts are done, and so are those of the children
DecodeDone ==
  LET kids == UNION {Range(slots[s].kids) : s \in Parents}
      new  == [s \in Slots |-> IF slots[s].state = "prompt"
                                  \/ (slots[s].state = "wait" /\ slots[s].id \in kids)
                               THEN [slots[s] EXCEPT !.state = "gen"] ELSE slots[s]]
  IN  /\ At("prompts") /\ loop.todo = {}
      /\ InState({"prompt", "gen"}) # {}
      /\ n_empty_consecutive' = 0
      /\ slots' = new
      /\ loop' = [loop EXCEPT !.at = "sample", !.todo = {s \in Slots : new[s].state = "gen"}]
      /\ UNCHANGED <<qvars, rvars, reader>>

\* llama_decode fails: every slot gets an error.  A batch may be decoded in parts
\* (half of it is tried when there is no room for all), and a later part may fail
\* when the slots of the earlier ones have been sampled; the attempts that find no
\* room change nothing here.
DecodeFails ==
  /\ DecodeErrors
  /\ \/ At("prompts") /\ loop.todo = {} /\ InState({"prompt", "gen"}) # {}
     \/ At("sample") /\ loop.todo # {}
  /\ n_empty_consecutive' = 0
  /\ loop' = [loop EXCEPT !.at = "fail", !.todo = Slots \ FreeSlots]
  /\ UNCHANGED <<qvars, rvars, slots, reader>>

FailSlot(s) == At("fail") /\ NextSlot(s) /\ SendAndRelease(s, "error")

StreamedIds == UNION {IdTasks(r) : r \in Streaming}

\* mutant: a child's result bears the id of its parent
SampleParentId(s) ==
  /\ At("sample") /\ NextSlot(s)
  /\ Send((CHOOSE t \in AllTasks : slots[s].id \in IdsOf(t)).id, "final")
  /\ loop' = [loop EXCEPT !.todo = @ \ {s}, !.slot = s, !.at = "sample_release"]
  /\ UNCHANGED <<qvars, slots, n_empty_consecutive, reader>>

\* a token is sampled: it ends the generation, or is sent when streaming
Sample(s) ==
  /\ At("sample") /\ NextSlot(s)
  /\ \/ SendAndRelease(s, "final")
     \/ /\ slots[s].left > 1
        /\ slots' = [slots EXCEPT ![s].left = @ - 1]
        /\ loop' = [loop EXCEPT !.todo = @ \ {s}]
        /\ IF slots[s].id \in StreamedIds THEN Send(slots[s].id, "partial") ELSE UNCHANGED rvars
        /\ UNCHANGED <<qvars, n_empty_consecutive, reader>>

UpdateEnds ==
  /\ loop.at \in {"sample", "fail"} /\ loop.todo = {}
  /\ Move("idle")
  /\ UNCHANGED <<qvars, rvars, slots, n_empty_consecutive, reader>>

-----------------------------------------------------------------------------
(* The main loop: waiting and sleeping.                                    *)

\* a task or terminate() ends the wait
WaitEnds ==
  /\ At("idle")
  /\ ~ running \/ queue_tasks # <<>>
  /\ Move("take")
  /\ UNCHANGED <<qvars, rvars, slots, n_empty_consecutive, reader>>

\* the idle time has passed.  It is measured from the last task, so with LongIdle
\* no request is between its own check of `sleeping' and its post.
Sleep ==
  /\ At("idle") /\ Sleeps
  /\ running /\ queue_tasks = <<>>
  /\ LongIdle => \A r \in Readers : reader[r].pc \notin {"ready", "added"}
                                    /\ ~ (reader[r].pc = "sleepwait" /\ r \notin blocked)
  /\ sleeping' = TRUE
  /\ req_stop_sleeping' = FALSE
  /\ blocked' = blocked \cup {Main}
  /\ Move("asleep")
  /\ UNCHANGED <<queue_tasks, queue_tasks_deferred, running, rvars, slots,
                 n_empty_consecutive, reader>>

\* mutants: the waiting requests are not notified; the sleeping loop waits for req_stop_sleeping only
WakeSilently ==
  /\ At("asleep") /\ Main \notin blocked
  /\ \/ ~ running /\ Move("take") /\ UNCHANGED <<sleeping, req_stop_sleeping, blocked>>
     \/ /\ running /\ req_stop_sleeping
        /\ req_stop_sleeping' = FALSE /\ sleeping' = FALSE
        /\ Move("take")
        /\ UNCHANGED blocked
     \/ /\ running /\ ~ req_stop_sleeping
        /\ blocked' = blocked \cup {Main}
        /\ UNCHANGED <<sleeping, req_stop_sleeping, loop>>
  /\ UNCHANGED <<queue_tasks, queue_tasks_deferred, running, rvars, slots,
                 n_empty_consecutive, reader>>
WakeIgnoresStop ==
  /\ At("asleep") /\ Main \notin blocked
  /\ \/ /\ req_stop_sleeping
        /\ req_stop_sleeping' = FALSE /\ sleeping' = FALSE
        /\ Move("take")
        /\ NotifyAll
     \/ /\ ~ req_stop_sleeping
        /\ blocked' = blocked \cup {Main}
        /\ UNCHANGED <<sleeping, req_stop_sleeping, loop>>
  /\ UNCHANGED <<queue_tasks, queue_tasks_deferred, running, rvars, slots,
                 n_empty_consecutive, reader>>

\* the notified loop evaluates "!running || req_stop_sleeping"
Wake ==
  /\ At("asleep") /\ Main \notin blocked
  /\ \/ ~ running /\ Move("take") /\ UNCHANGED <<sleeping, req_stop_sleeping, blocked>>
     \/ /\ running /\ req_stop_sleeping
        /\ req_stop_sleeping' = FALSE /\ sleeping' = FALSE
        /\ Move("take")
        /\ NotifyAll
     \/ /\ running /\ ~ req_stop_sleeping
        /\ blocked' = blocked \cup {Main}
        /\ UNCHANGED <<sleeping, req_stop_sleeping, loop>>
  /\ UNCHANGED <<queue_tasks, queue_tasks_deferred, running, rvars, slots,
                 n_empty_consecutive, reader>>

Terminate ==
  /\ Stops /\ running /\ ~ Exited
  /\ running' = FALSE
  /\ NotifyAll
  /\ UNCHANGED <<queue_tasks, queue_tasks_deferred, sleeping, req_stop_sleeping, rvars,
                 mvars, reader>>

-----------------------------------------------------------------------------
MainLoop ==
  \/ Take
  \/ ProcessDefer \/ ProcessLaunch \/ ProcessRefuse \/ ProcessOp \/ ProcessCancel \/ ProcessNext
  \/ Update \/ Release \/ DecodeEmpty \/ DecodeDone \/ DecodeFails \/ UpdateEnds
  \/ \E s \in Slots : Prompt(s) \/ FailSlot(s) \/ Sample(s)
  \/ WaitEnds \/ Wake

Next ==
  \/ MainLoop \/ Sleep \/ Terminate
  \/ \E r \in Readers : Request(r) \/ (~ Exited /\ (Arrive(r) \/ Close(r)))

\* The main loop and the threads of the requests keep running; requests need not
\* come, clients need not close, and the server need not sleep or stop.
Fairness == WF_vars(MainLoop) /\ \A r \in Readers : WF_vars(Request(r))

Spec == Init /\ [][Next]_vars /\ Fairness

-----------------------------------------------------------------------------
(* Properties.                                                             *)

Kinds   == {"partial", "final", "error"}
\* the places of task id: queue entries, the task in process_single_task, slots
Places(id) ==
  LET holds(e) == e.type = "task" /\ id \in IdsOf(e.task)
  IN  {<<"queue", k>> : k \in {j \in DOMAIN queue_tasks : holds(queue_tasks[j])}}
      \cup {<<"deferred", k>> : k \in {j \in DOMAIN queue_tasks_deferred : holds(queue_tasks_deferred[j])}}
      \cup {<<"process", 0>> : k \in {j \in {0} : holds(loop.cur)}}
      \cup {<<"slot", s>> : s \in SlotsOf(id)}

\* A task is moved, never copied: whatever the requests, cancellations and slots do,
\* it is in one place at most (post, defer, pop_deferred_task, launch).
TaskInOnePlace == \A id \in TaskIds : Cardinality(Places(id)) <= 1

\* Once a request is over, nobody waits for its tasks and no result of them stays in
\* queue_results, where nothing would ever remove it (server_response_reader::stop).
NoResultLeftBehind ==
  \A r \in Readers : reader[r].pc = "done" =>
    /\ waiting_task_ids \cap IdTasks(r) = {}
    /\ ResultsOf(r) = {}

\* A request gets one final result of each task: the assertion "duplicate result
\* received" of wait_for_all, and the count has_next relies on.
NoDuplicateResult == \A r \in Readers : IsInjective(reader[r].got)

\* The model is unloaded (handle_sleeping_state) only while no slot works and no
\* task waits for one.
SleepsIdle ==
  sleeping => /\ FreeSlots = Slots
              /\ queue_tasks_deferred = <<>>

\* A child generates only after its parent's prompt was processed, so a waiting
\* child always has a parent in a slot that still works on the prompt: whoever
\* cancels, fails or finishes in between, no slot is left in SLOT_STATE_WAIT_OTHER.
\* There are two exceptions: a parent whose own prompt is refused (BadPrompt), and
\* a request closed while its task is being processed and then deferred, when the
\* cancel of another request lets it be launched between its own cancels.
WaitingHasParent ==
  At("update") => \A s \in InState({"wait"}) : \E p \in InState({"started"}) :
    slots[s].id \in Range(slots[p].kids)

\* Every request ends, unless the server stops: one that finds the server asleep gets
\* it woken (wait_until_no_sleep), no task is forgotten in queue_tasks or
\* queue_tasks_deferred, no slot is lost, no result goes elsewhere.
RequestEnds ==
  \A r \in Readers : reader[r].pc # "new" ~> reader[r].pc = "done" \/ ~ running

\* terminate() ends start_loop(), even while the main loop sleeps.
LoopEnds == ~ running ~> At("ended")

==============================================================================
