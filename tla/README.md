# TLA+ models of the KV cache, the server and the CPU backend

This directory is a verification development of mallana, a llama.cpp fork whose
KV cache pages the V tensors. It models the stateful parts of the
inference engine (`src/src`), of the HTTP server (`src/tools/server`) and of
ggml's CPU backend (`src/ggml/src`).

- TLC model-checks the models on small instances (`MC*.tla`, `*.cfg`).
- TLAPS proves the core invariants for every value of the constants
  (`*Proofs.tla`).
- `PROJECT.json` lists components, runs, the source lines of every definition,
  hazards, findings and theorems.

```
tlc -config MCKVCells.cfg MCKVCells        # one run
tlapm KVCellsProofs.tla                    # one proof module
```

## 1. The system

### Parts

| part | state | operations | interacts with |
|---|---|---|---|
| cell metadata, `llama-kv-cells.h` | `pos`, `shift`, `seq`, `used`, `seq_pos`, `has_shift` | `rm`, `seq_rm`, `seq_keep`, `seq_add`, `pos_set`, `pos_add`, `pos_div`, `set`/`cp`, `reset`, `reset_shift` | KV cache |
| V page pool, `llama-kv-cache.cpp` | `pg_page_table`, `pg_free_blocks` | allocate for a slot, evict, free a page, clear | KV cache |
| slot search, `find_slot` | locals of the loop, `v_heads` | scattered or contiguous search | cell metadata |
| batch splitter, `llama-batch.cpp` | `used`, output order | `init`, `split_simple`, `split_equal`, `split_seq` | KV cache, context |
| KV cache, `llama-kv-cache.cpp` | cells, heads, pool, pending copies, K and V rows | memory API, `prepare`, `apply_ubatch`, `update` | all of the above |
| decode, `llama-context.cpp` | decode in progress | `memory_update`, `decode` with its failure path | KV cache |
| task queue, `server-queue.cpp` | `queue_tasks`, `queue_tasks_deferred`, `running`, `sleeping`, `req_stop_sleeping`, threads waiting on `condition_tasks` | `post`, `defer`, `pop_deferred_task`, `start_loop`, `wait_until_no_sleep`, `terminate` | slots, requests |
| result queue, `server-queue.cpp` | `waiting_task_ids`, `queue_results` | `send`, `recv_with_timeout`, `add_`/`remove_waiting_task_ids` | slots, requests |
| slots, `server-context.cpp` | state and task of each slot, `n_empty_consecutive` | `process_single_task`, `update_slots`, `release` | both queues, decode |
| model router, `server-models.cpp` | status, `last_used`, instance of each model, `stopping_models`, the mutex | `load`, `unload`, `unload_lru`, `unload_all`, `ensure_model_ready`, the threads of an instance | child servers |
| CPU thread pool, `ggml-cpu.c` | `n_graph`, barrier counters, `current_chunk`, `stop`, `pause`, `abort` | `ggml_graph_compute`, `ggml_barrier`, pause, resume, free | computes what the allocator placed |
| graph allocator, `ggml-alloc.c` | chunks with their free blocks, `hash_values`, `node_allocs` | `ggml_gallocr_reserve`, `ggml_gallocr_alloc_graph` | |

The other parts (recurrent and hybrid memories, state files,
sampling, grammars, vocabulary, the rest of ggml, tools, scripts) are in `PROJECT.json` with
the reason why they are not modelled.

### What makes them hard

- Indexes maintained by hand. `used` and `seq_pos` duplicate what `pos` and `seq`
  say; every method has to update both.
- Two-phase operations. `prepare` plans all ubatches on the real cells, undoes
  that from saved copies, and the plan is used later. Copies between streams and
  K shifts change the metadata now and the data at the next decode.
- A shared pool. All streams take V blocks from one stack, and eviction runs in
  the middle of an allocation.
- Partial failure. A ubatch in the middle of a batch fails; one slot fails
  while others work.
- Memory shared by tensors. A tensor's memory is given to another one after its
  last use, which is counted ahead over children and views.
- Processes. The router learns that a child has ended from its output, from
  `waitpid` and from its own stop request, in three threads.
- Threads. HTTP requests post, wait, time out and cancel while the main loop takes
  tasks, defers them, sends results, falls asleep or stops.

## 2. Modules

| module | models | theorems |
|---|---|---|
| `KVCellOps`, `KVCells` | the class `llama_kv_cells`: methods as operators on a record, and as actions called in any order | `KVCellsProofs` |
| `VPageOps`, `VPagePool` | the page tables and the stack of free blocks | `VPagePoolProofs` |
| `BatchOps`, `BatchSplit` | the checks of `llama_batch_allocr::init` and the splits | `VPagePoolProofs` |
| `SlotOps`, `SlotSearch` | what `find_slot` has to return, and its loop | `KVCellsProofs` |
| `KVCacheOps`, `KVCache` | the composition: cells, pool, slots and splits in the KV cache, driven by the memory API and by decodes | |
| `ServerQueue` | both queues, the main loop with its slots, and the requests | `ServerQueueInv`, `ServerQueueProofs` |
| `ModelRouter` | the router's threads and the child processes | `ModelRouterProofs` |
| `GraphPlan`, `GraphExec` | how a graph is cut into parts; what computing it promises, without threads | `GraphSegments` |
| `ThreadPool` | the threads of the CPU backend; implements `GraphExec` | `ThreadPoolInv`, `ThreadPoolProofs` |
| `TallocOps`, `GraphAlloc` | the allocator's free lists, and the walk over a graph that places its tensors | |

The `...Ops` modules hold pure operators. `KVCacheOps` builds on those of
the other components, so the cache runs check the same definitions that the
component runs check and that the proofs are about.

### KVCells

`cells` is the record of the members of the class. `pos`, `shift` and `seq` are
functions of the cell index. `seq_pos[s][p]` is the count of the `std::map`.
Each action calls one method with the arguments that its assertions allow.
`SavedCell` and `DoSetCell` stand for `cp` and `set`, used to restore cells.

Two history variables are not in the code. `roped[i]` is the position that the
K row of cell `i` is rotated to. It changes where the code writes or rotates the
K row. `divided` is the set of the cells that `pos_div` was called on since
they were written.

### VPagePool

The pool is the record of `table` (page to block, for each stream) and `free`
(the stack). The loop of `pg_alloc_for_sinfo` is one step per page
(`AllocBegin`, then `AllocStep` for each page of the slot, `current_batch_pages`). The relevance
score that chooses the page to evict is a free choice among the candidates. Which
pages `seq_rm` releases is free here; `KVCacheOps!PageEmpty` has the code's
condition.

### BatchSplit

`SplitInit` picks a batch that `init` accepts and a way of splitting. Each step calls
the split method once, as the loop of `llama_kv_cache::init_batch` does.

### SlotSearch

The variables are the locals of the loop of `find_slot`. `FindsSlot` compares the
result with `FirstCells` or `FirstRun` of `SlotOps`, which define the slot
without a loop. `KVCache` uses those definitions.

### KVCache

- `kv` holds the cells and the head of each stream, and the pool.
- `sc_info` holds the pending copies between streams.
- `kmem` holds, for each K row, the position its rotation stands for.
- `vmem` holds, for each V row, the cells whose token was written to it.
- `ctx` is the decode in progress.

A call of the memory API is one step. A decode is `DecodeBegin` (pending updates,
`init_batch`, the dry run of `prepare`, retry) and then `UbatchDone` or
`UbatchFails` for each ubatch. No other call comes between, because a context is
not shared by threads. `Layout` chooses transposed V rows, flat rows or pages.

### ServerQueue

The threads are the main loop and one thread per request. A step is what a
thread does under `mutex_tasks` or `mutex_results` together with its local work.
`blocked` is the set of the threads in a wait without timeout on
`condition_tasks`; `notify_one` takes any of them out. Waits with a timeout miss
no wake-up for good and are not in `blocked`.

A task needs a slot for itself and one for each child (`n_cmpl > 1`), or it saves,
restores or erases a slot. `get_slot_by_id` wraps ids around; the instance uses
such an id. Of a generation the model keeps: a prompt may be empty or refused, a
decode may fail for all slots, and at most `MaxDecoded` tokens come. When the KV
cache has no room for a batch, `update_slots` tries again with half of it, so that a
batch is decoded in parts; this changes no state of the model, but a part may fail
when slots of an earlier part have been sampled (`DecodeFails`). Every started
prompt fits in one batch. When `start_loop` returns, `main` joins the
HTTP thread and exits, so the requests stop (`Exited`).

### ModelRouter

A step is a critical section of the router's mutex. `load()` is the exception: it
joins the old managing thread with the mutex held, so `lock` is explicit. An
instance (`inst`) has the child process, its pipes, and where its managing
thread (`mon`) and its stopping thread (`stop`) are. `New` is the instance that
`load()` has started but not yet put into `mapping`.

`cv_stop` is modelled with its notifications: a stopping thread that found its
condition false is `asleep` until somebody notifies. `cv` is waited on for a
status only, every change of which notifies it.

A process is `closing` when its output has ended and a `zombie` when it can be
waited for; on Linux the first comes before the second. `SlowCrash` says whether
a crashing child is ever seen in between. Time is abstracted: `fresh` holds the
models whose `last_used` is the current millisecond (`New` is stamped when its
child is started, before the join), and the kill at the timeout
may come at any time after the exit command.

### ThreadPool

A step is an access to a shared atomic variable or a section under the mutex.
Memory is sequentially consistent. A node is computed in parts: one for each
thread, or, for `mul_mat`, the conversion of the second operand, a barrier, and
chunks that are fetched from `current_chunk`. `done` is the set of parts computed.

`GraphExec` says what the caller of `ggml_graph_compute` relies on: each part is
computed once and after all it depends on, and the call returns with all parts of
the nodes up to some node, and no others: the last node, unless the abort callback
asked to stop. `ImplementsGraphExec` maps `busy` to whether thread 0 is inside
the call, and `nth` to the number of threads after clamping.

### GraphAlloc

`AddLeaf`, `AddOp` and `AddView` build a graph tensor by tensor. The sources of an
operation come in any order, and `Sizes` and `Outputs` limit the sizes and
the outputs by position. `Begin` and
`PlaceNode` are the walk of `ggml_gallocr_alloc_graph_impl`. As an address is
final when the walk is past a node, the same step writes the node's value to
`mem`. `Rebuild` then builds the graph again with other sizes, and
`ggml_gallocr_needs_realloc` decides between a new walk and the old addresses
(`Reuse`, `RunNode`).

Views of the tensors before, several readers of a tensor, operations in place,
outputs and weights (leafs with memory of their own) all occur. Left out are nodes
flagged as inputs, the `GGML_OP_NONE` nodes that the scheduler adds, and several
buffer types. The code that takes over the memory of a parent that is a view is
left out too, because `ggml_gallocr_is_own` is never true for a view.

## 3. Runs

| run | shows | instance |
|---|---|---|
| `cells` | `IndexesExact`, `ShiftTracksPos` under any sequence of calls | 2 cells, 2 sequences, positions 0..2, accumulated shifts up to 2 |
| `pool` | `BlocksConserved`, `NeverOutOfBlocks`, `SlotMapped`, `BudgetStep` | 2 streams of 2 pages, budget 1 |
| `split` | `EachTokenOnce`, `SequenceOrderKept`, `StreamsContiguous` | all batches of up to 5 tokens over 3 sequences and 6 sequence lists whose sets shrink, `n_ubatch` 4, four ways of splitting |
| `slot_search` | `FindsSlot`, `SearchEnds` | every set of usable cells out of 6, every head and size |
| `cache_paged` | `CellsConsistent`, `ReadsOwnV`, `PlanUsable`, `WindowKept`, `FailedUbatchGone` with pages and a sliding window | 4 cells in 2 pages, window 2, positions 0..3, 2 sequences, batches of 3 in ubatches of 1, few irregular cells at a time |
| `cache_streams` | `ReadsOwnV`, `KRotated`, `NoShiftInDecode`, `PrepareRestores` with a stream per sequence | 2 streams of 2 cells, up to 2 pending copies |
| `cache_paged_streams` | violates `ReadsOwnV`, see section 5 | pages, 2 streams |
| `server_queue` | `TaskInOnePlace`, `NoResultLeftBehind`, `NoDuplicateResult`, `SleepsIdle`, `WaitingHasParent`, `RequestEnds`, `LoopEnds` | 2 slots; a request with two completions that may be closed; a streaming completion or a slot save; errors, sleep and stop |
| `router` | `AtMostModelsMax`, `StatusTracksInstance`, `KillsOwnChild`, `LoadReturns`, `UnloadEnds` | 2 models, `models_max` 1, 2 HTTP threads with any number of requests; one model crashes, the other sleeps |
| `router_crash` | violates `CrashNoticed`, see section 5 | the same with `SlowCrash` |
| `thread_pool` | `EachPartOnce`, `WorkersOutOfGraph`, `ImplementsGraphExec`, `ComputeReturns`, `FreeReturns` | 3 threads, 2 calls with a plan of 1, 2 or 4 threads, graphs with operations, a skipped node and `mul_mat`s with and without chunks to hand out |
| `graph_alloc` | `NothingClobbered`, `FreeListExact`, `AllReleased` | a leaf and 4 nodes with up to 2 sources, 2 chunks, alignment 2; graphs of 3 nodes are built twice |

`cells` and `pool` check deadlock. The other systems stop legitimately: a batch is
used up, a search ends, positions reach their bound, no request is left, the
router or the pool has ended, the graph is done.

### Why the bounds are enough

- Cells: an index goes wrong between a cell and another one of the same sequence
  and position, or between two sequences of one cell. Two of each give all these
  pairs. The proofs cover every number.
- Pool: one budgeted page and two pages in two streams give eviction, the
  exhausted stack and a slot of all pages. The proofs cover every number.
- Split: five tokens give two rounds of a second sequence set after a first one
  is full. Three sequences give nested and disjoint sets.
- Slot search: six cells hold a wrapped run, a run broken by one cell and a run
  that would cross the end.
- Caches: two ubatches in a batch make the dry run apply one ubatch on top of
  another, and let the second fail. With three and a window of 2 the dry run takes
  back cells of its own tokens and purges what the first of them attends to. Pages
  of two cells can be half empty. `seq_cp` and `seq_div` reach too many states for
  a complete search. `cache_paged` follows those with at most two irregularities (a
  cell of several sequences, or a position that a sequence has in two cells) and no
  pending shift, or with one shifted cell and none (`FewIrregular`); the states one
  step beyond are checked as well. K rows are
  followed (`FollowK`) only where a property looks at them; no other state
  depends on them.
- Router: two models that compete for one place give eviction, reload and the
  re-check of `load()`. With a second HTTP thread a load meets an unload or
  another load between any two of its critical sections. One line of unread
  output is enough for a status that is read after its child has crashed.
- Thread pool: with three threads a barrier has a last thread, one that spins and
  one that is late, and a graph of two leaves a worker out. Plans of 1 and of
  more threads than there are take the short cut and the clamp. A second call
  shows what the first leaves behind.
- Allocator: sizes 1 and 3 with alignment 2 give blocks that fit exactly, split
  and join. A chunk size of 4 makes the second chunk necessary. Four nodes are
  enough for a bug in the rules of reuse and release to show: the mutants of
  these rules in `PROJECT.json` are all found.
- Server: two slots are needed for a parent and its child. The second request
  then has to be deferred, and it is popped by a release, a cancel or an error.

### Fairness

- `slot_search`: weak fairness of the loop. It is one thread that runs.
- `server_queue`: weak fairness of the main loop and of each request's thread
  once its request has arrived. Both are threads that never wait for longer than
  their conditions say. Arrivals, closed connections, sleeping and stopping need
  not happen.
- `router`: weak fairness of each HTTP thread inside a request, of the managing and
  the stopping thread, of the end of a process that is closing, and of the join
  at shutdown. A child need not load, a request need not come. `SlowCrash` is
  FALSE: see section 5 for what happens otherwise.
- `thread_pool`: weak fairness of each thread. The caller need not call anything.
  Spinning at a barrier is a step that waits for its condition.
- `LongIdle` is an assumption of the run: a request posts its task within the
  idle time after it looked at `sleeping`. See section 5 for what happens without
  it.
- `RequestEnds` exempts a stopped server.
- Prompts that are refused belong to tasks without children (`BadPrompt`). See
  section 5.

## 4. Proofs

### KVCellsProofs

`IndexesAlwaysExact` proves `TypeOK` and `IndexesExact` for any number of cells,
any sequences and any positions.

The argument rests on one lemma, `CellChange`. Changing position and sequences of
one cell changes the occurrences of a pair (sequence, position) by that cell
only. So the new count is the old one, one more or one less. Finiteness of the
occurrences (`OccurrencesFinite`) makes the counts numbers. Each method has a
lemma (`RmOK`, `SetCellOK`, ...) that its result is typed and consistent. The
conjunction of `TypeOK` and `IndexesExact` is inductive.

`ShiftsAreOwedRotations` proves `ShiftTracksPos`: for a cell that was not divided
the K rotation plus `shift` is its position, and a cell with a shift is announced
by `has_shift`. It is inductive together with the first theorem.

`SearchFindsSlot` proves `FindsSlot` for any number of cells, any usable ones, any
number of tokens and any head: the loop of `find_slot` ends with the slot that
`FirstCells` or `FirstRun` defines, and gives up only when there is none. Its
invariant `SearchInv` follows the cells in the order in which the search visits
them. A contiguous search has shown of every start behind it that no run of
`n_tokens` usable cells begins there. A scattered one has taken all usable cells
behind it. `n_tested` counts the cells behind, those
skipped at the end of the buffer included.

### VPagePoolProofs

The inductive invariant `IInv` replaces the cardinalities of `BlocksConserved` by
`Conserved`. That says in first-order terms that the stack has no duplicates, that
tables are injective over all streams, that stack and tables are disjoint, and
that together they cover all blocks. `IInv` also says that the pages of the slot
treated so far are mapped.

- `PoolSafe`: `TypeOK`, `BlocksConserved` and `NeverOutOfBlocks`. The last, which
  `BlocksAlwaysSuffice` states alone, is a counting argument (`BlocksSuffice`):
  there are at least as many blocks as pages of all streams, so an unmapped page
  leaves a block on the stack.
- `SlotAlwaysMapped`: when the loop over the slot ends, every page of it is mapped.
- `BudgetKept`: the action property about the budget.

The module also holds the theorems about `BatchSplit`, for any batch in which each
token has a sequence, any `n_ubatch` above 0 and any of the four ways of splitting.
These are its assumptions (`BatchesAssumption`, `NUbatchAssumption`, `ModesAssumption`);
the checks of `init` are not needed.

- `TokensSplitOnce`: `EachTokenOnce`.
- `SplitStreamsContiguous`: `StreamsContiguous`.

The invariant `SplitInv` says that the tokens of all ubatches are `used`, that
`split_simple` has used a prefix of the batch, and that a sequential split of coupled
sequences has used nothing. What remains is that a split method takes only unused
tokens, none twice, and at least one if there is one (`SplitSimpleOK`, `SplitEqualOK`,
`SplitSeqOK`). For `split_equal` this needs that the sequence sets are pairwise
disjoint (`SetsOK`), so that a token is in one of the lists only, and that each list
is as long as there are rounds (`RoundsOK`). For a sequential split `SetsOK` also has
that the sets are singletons of consecutive ids.

### ModelRouterProofs

The theorems hold for any finite set of models, any HTTP threads, any `models_max`
and either value of `SlowCrash`. `RouterAssumption` is the only assumption.

The three properties are not inductive: a status is right only because of where
the threads of the instance are. `IInv` adds these facts.

- `LockInv`: the mutex is kept across steps by the thread inside `load()` only.
- `InstanceInv`: a model is running exactly while its managing thread has not made
  its last status change. From the moment it has reaped the child, the process is
  gone and the stopping thread too.
- `NewInv`: outside `load()` there is no instance outside `mapping`. Inside, its
  threads have not entered a critical section, its model is not running, and the
  capacity that was checked is still there, as no status changes without the
  mutex.
- `CountInv`: at most `models_max` models are running.

`BecomesOK` covers all steps of one instance, `RequestOK` those of a request
outside `load()`. `LoadSpawnOK` and `LoadJoinOK` treat the two halves of `load()`.

- `StatusAlwaysTracks`, `OnlyOwnChildKilled`: from `InstanceInv`.
- `NeverOverModelsMax`: the living children are running models, and at most one
  more during `load()`.
- `JoinNeverDeadlocks`: the thread that `load()` joins with the mutex held needs the
  mutex no more.

### ThreadPoolProofs

The theorems hold for any number of threads, any graphs of the three kinds of nodes, any
numbers of chunks and any plans. The assumptions are `PoolAssumption` (there is a
thread, and a plan has one) and `GraphsAssumption` (the type of a graph).

What makes this hard is that a thread may be late: the last one at a barrier is already
in the next node, and thread 0 in the next graph, while another still spins. `IInv`
has three parts.

- `ControlInv`: who is inside a graph. A worker takes part in the graph of `n_graph`,
  or has it still before it, or is done with it; thread 0 cannot be done before.
- `BarrierInv`: `n_barrier` is the number of the threads that wait, except between the
  two stores of the last one. A thread for which `n_barrier_passed` has changed is
  `Released`: it counts as being beyond the barrier, although it has not looked yet.
- `WorkInv`: how far the graph is, by the `Walk` of `GraphSegments`. A segment is what
  lies between two barriers. All threads are in the same one; the parts computed are
  all of the segments before it, and those of this one that a thread is past.

`GraphSegments` is about graphs and positions alone. Its lemmas say what a thread may
do inside a segment (`PartKeeps`, `FetchKeeps`, ...) and that, when all have arrived,
the segment is complete (`SegmentEnds`) and the next one begins (`CrossChunks`,
`CrossNext`, `CrossDone`). `ThreadPoolInv` proves all steps but those that arrive at
the barrier and cross it, `ThreadPoolProofs` these and the theorems.

- `PoolComputesOnce`: `EachPartOnce`.
- `PoolPreparesAlone`: `WorkersOutOfGraph`.
- `PoolImplementsGraphExec`: the refinement. Finishing a part is `Compute`, taking the
  last barrier is `Return`, kick-off is `Begin`, all else is stuttering.

### ServerQueueProofs

The theorems hold for any requests, any number of slots, any tasks with any
number of children, and any of the values that let launches and prompts fail.
`IdsAssumption` is what `get_new_id` gives: no two tasks have the same id. In the code
it is a counter that only grows.

None of the three properties is inductive alone. That a request does not get a result
twice needs that nothing sends a result for a task that has ended, hence that
the task is nowhere then; and that needs that it was in one place before. So
`IInv` has, for each task:

- `Placed`: it is in one place at most, in none before it is posted, and once its last
  result was sent in none but the slot that is being released (`Leaving`).
- `Answered`: in `queue_results` nothing of it follows its last result. When the request
  has got that, or has purged the queue, nothing of it is left, and it is not waited
  for.

Each step of the main loop moves tasks from place to place (`Moved`), and most do no
more (`MovedKeeps`); those that send a result are covered by `SendKeeps`. What
`remove_if` leaves of a queue is a `Part` of it, in order. `RemoveIfPart` proves that by
induction on the queue. `ServerQueueInv` has all this and the steps
of the main loop, `ServerQueueProofs` those of the requests and the theorems.

- `ServerMovesTasks`: `TaskInOnePlace`.
- `ServerCleansUp`: `NoResultLeftBehind`.
- `ServerAnswersOnce`: `NoDuplicateResult`.
- `ServerSleepsUnused`: the server sleeps only while all slots are free, the first half
  of `SleepsIdle`. `update_slots` posts `NEXT_RESPONSE` before it touches a slot, and
  only the main loop takes that out of the queue: a cancel removes tasks of its own
  request (`RemoveIfKeeps`). So an empty queue after `update_slots` means that every
  slot was idle (`SleepInv`).

### Induction

The provers cannot instantiate the induction theorems of the library, whose parameter
is an operator. That a non-empty set of numbers has a least element (`LeastNumber`,
from `WFMin`) replaces them where the fact can be written as a set: a smallest
counterexample is refuted. This is how `RemoveIf`, the segments of a graph, the slot
search and the loops of the splits are treated. A recursive function is a `CHOOSE` to the
provers; that there is a function with its equations is proved the same way
(`KeptExists`, `SetsLoopExists`, ...).

### Only model-checked

- Liveness (`SearchEnds`, `RequestEnds`, `LoopEnds`, `LoadReturns`, `UnloadEnds`,
  `ComputeReturns`, `FreeReturns`): TLAPS 1.4.5 has no support
  for fairness and `ENABLED`.
- `WaitingHasParent` of `ServerQueue`, and of `SleepsIdle` that no task is deferred: they
  hold on the instance, and not for every value of the constants (section 5).
- `ReadsOwnV`, `PlanUsable`, `WindowKept`, `FailedUbatchGone`, `PrepareRestores` and
  `NoShiftInDecode` of `KVCache`: they too fail for some values of the constants (section 5).
- `SequenceOrderKept` of `BatchSplit`: it fails for sequence sets that overlap
  (section 5).
- `NothingClobbered` of `GraphAlloc`: it fails for some graphs (section 5).
- `FreeListExact`, `AllReleased`, `CellsConsistent`, `KRotated`: they rest on
  folds over sequences and sets (`TallocOps`, `KVCacheOps`). A fold takes an operator,
  and the library has no theorems about folds that the provers could use.

## 5. Where code and text disagree

Two runs show a disagreement between the code and a sentence of the repository.

- `cache_paged_streams`: a copy between streams copies V rows but no page table
  (`llama-kv-cache.cpp:928`). The copied cells read an unmapped or stale page.
  The comment at line 606 says that the data must be copied.
- `router_crash`: the stopping thread of an instance waits on `cv_stop` until the
  child has ended (`server-models.cpp:635`), but the end of a process notifies
  nobody. The managing thread notifies once, after the output has ended (line
  673). If the child cannot be waited for at that moment, the stopping thread
  sleeps on, the managing thread waits for it at line 676, and the model keeps
  its status until a request unloads it. The comment at line 626 says "thread to
  monitor stopping signal OR child crash".

The models reproduce others; TLC finds each of them within a minute. These need
only other constants:

- Sliding window and `PrepareRestores`: the dry run of `prepare` purges cells
  outside of its slots and does not restore them (`llama-kv-cache.cpp:884`,
  "restore the cells to their original state"). Add the property to
  `MCKVCachePaged.cfg`.
- `Layout = "flat"`, two streams, `ReadsOwnV`: V rows copied between streams are
  not the rows that `get_v` reads (`llama-kv-cache.cpp:276` and `:1442`).
- Tokens of two sequences, `FailedUbatchGone`: a failed ubatch is removed from the
  first sequence only (`llama-context.cpp:1712`).
- Tokens of one and of two sequences in ubatches of 2 and batches of 3, `PlanUsable`
  and `WindowKept`: the positions 1 and 2 of a sequence may be followed by a token at
  1 that it shares with another one (`llama-batch.cpp:378` accepts decreasing
  positions). That token is given a cell which 2 does not need any more, but 1 does.
- `"shift" \in Failures`, `NoShiftInDecode`: a failed K shift is ignored
  (`llama-context.cpp:743`, `llama-kv-cache.cpp:2803`).
- Partly overlapping sequence sets, `SequenceOrderKept`: they are accepted, because
  the test at `llama-batch.cpp:373` never fires.
- `LongIdle = FALSE`, `RequestEnds`: a task posted while the main loop sleeps does
  not wake it (`server-queue.cpp:184`; `tools/server/README.md:1709`).
- The parent's id in `BadPrompt`, `WaitingHasParent`: children of a parent whose
  prompt is empty or refused wait for it, and empty batches count towards the
  abort of `server-context.cpp:2694`.
- Two requests in `Closing`, `WaitingHasParent`: a request that is closed while
  `process_single_task` holds its task does not find it in the queue
  (`server-queue.cpp:211`), and the task is deferred. Its child's cancel finds no slot; the
  cancel of the other request then frees the slots, and the task is popped and launched.
  The parent's own cancel releases the parent only, and the child waits for it for ever.
- `OutputViews = TRUE`, `NothingClobbered`: a view that is an output and has other
  readers does not protect its source (`ggml-alloc.c:690`; `ggml-alloc.h:44`,
  "output tensors are never freed and never overwritten").
- `Rewired = TRUE`, `NothingClobbered`: a graph whose nodes have other sources but
  the same sizes is given the addresses of the graph before (`ggml-alloc.c:1007`;
  `ggml-alloc.h:70`, "automatic reallocation if the topology changes").

These need a formula that is not kept in the modules:

- `\A i \in cells.used : roped[i] + cells.shift[i] = cells.pos[i]` in `KVCells`:
  `pos_div` accumulates the shift with the opposite sign (`llama-kv-cells.h:451`,
  against the comment at line 469).
- `At("idle") /\ queue_tasks = <<>> /\ FreeSlots = Slots =>
  queue_tasks_deferred = <<>>` in `ServerQueue` with `ThreeRequests` of three
  readers: a released slot pops one deferred task (`server-queue.cpp:95`). If
  that task saves a slot, it releases none, and a second deferred task stays
  deferred (`server-queue.h:40`, "defer until one slot is available").
- `\A s \in Streams : \A i \in Used(kv, s) :
  {<<s, i>>, Zero} \cap vmem[VRow(kv.pool, s, i)] # {}` in `KVCache` with `Budget` 1:
  an evicted page that gets a new token exposes another page's rows to its
  older cells (`llama-kv-cache.cpp:1317`; `docs/paged-attention.md:95`).
- `[][\A q \in Seqs : SeqKeep(q) => \A s \in Streams, i \in Idx :
  kv'.cells[s].seq[i] \subseteq {q}]_vars` in `KVCache` with two streams:
  `seq_keep` empties one stream only (`llama-kv-cache.cpp:658`; `llama.h:730`).
- `\A k \in DOMAIN out : Len(out[k].idxs) <= NUbatch` in `BatchSplit` with `NUbatch`
  2: a ubatch of more sequence sets than `n_ubatch` exceeds it
  (`llama-batch.cpp:598`).
- `[][Idle /\ ctx' # NoCtx => \A q \in Seqs : \A p \in Lost(q) :
  IsMaskedSwa(p, SeqPosMax(kv.cells[StreamOf(q)], q) + 1)]_vars` in `KVCache` with
  `MCKVCachePaged.cfg`, a stronger form of `WindowKept`: planning loses nothing that
  the first token of the batch attends to. Let the sequences 0 and 1 have position
  0, and 1 also 1, and the batch bring 1 and 2 of sequence 0 and then 2 of sequence
  1. On the dry run the last ubatch overwrites position 1 of sequence 0, which 2 has
  put outside of the window, and purges position 0 (`llama-kv-cache.cpp:1241`). Only the
  slots are restored (`:884`). So the token at 1 is computed without position 0.
- The positions of a sequence have no hole whenever no decode is in progress
  (`llama.h:757`, "all positions in the range [pos_min, pos_max] are guaranteed to
  be present"). With one stream of 5 transposed cells, positions 0..4, window 3,
  ubatches of 2, batches of 4 and `seq_rm`, a batch that is refused or fails
  leaves one: the dry run has purged cells that nothing puts back.

Smaller observations, without a formula:

- Decreasing positions in a batch are accepted, because `cur_seq_pos` is never
  updated (`llama-batch.cpp:378`).
- `prepare` restores the head of the k-th stream of a slot from the head of stream
  k (`llama-kv-cache.cpp:893`). The head is only where the search starts.
- `server-models.h:14` draws the states of a model without the step from SLEEPING to
  UNLOADED that an unload or a crash takes.
- A stop request that comes between `server-models.cpp:672` and `:685` is left
  behind and stops the next instance of the model.
- A model used in the current millisecond cannot be evicted (`:509`), so `load()`
  may refuse although a model could make room.
- `ensure_model_ready` returns for a model that was unloaded meanwhile with exit
  code 0 (`:787`); the proxy then refuses the request.
- The count of graphs is shifted left by 16 bits in an `int`
  (`ggml-cpu.c:3199`), which overflows after 32767 graphs. `MaxGraphs` stays
  below that.

## 6. Not modelled

Most of the code base is not stateful in the sense of these models: kernels for
CPUs and GPUs, quantisation, the graphs of the model architectures, tables of the
vocabularies, conversion scripts. What has state and is still left out:

- The recurrent memory and its shared tails, and the iSWA and hybrid memories,
  which keep two memories in step.
- `state_write` and `state_read` of the KV cache, with a read that fails half-way.
- Graph reuse, the order of outputs and `encode` in `llama_context`.
- Chunked prompts, context shift, the prompt cache, checkpoints and speculative
  decoding in the server.
- The backend scheduler and devices with queues of their own, and the OpenMP build
  of the CPU backend.
- Weak memory: `ThreadPool` takes the fences of `ggml-cpu.c` as sufficient.
- The grammar automaton and the text processing.

Next in proofs: the free list of `TallocOps`, and the cells of `KVCache` from the
lemmas of `KVCellsProofs`; both need their folds written as recursive functions, as
those of `BatchOps` are.
