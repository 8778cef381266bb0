----------------------------- MODULE ModelRouter -----------------------------
(***************************************************************************)
(* The router of llama-server, which starts a child server per model and   *)
(* forwards requests to it (src/tools/server/server-models.cpp).           *)
(*                                                                         *)
(* Many threads share `mapping', `stopping_models' and one mutex: the HTTP *)
(* threads that handle requests, and for every instance a managing thread  *)
(* with a thread that reads the child's output (log_thread) and one that   *)
(* waits for a stop request (stopping_thread).  A critical section is a    *)
(* step.  load() is the exception: it joins the managing thread of the     *)
(* previous instance while it holds the mutex, so that `lock' is explicit. *)
(*                                                                         *)
(* cv is only waited on for a condition on the status of a model, and each *)
(* change of a status notifies it, so that a waiting thread goes on in any *)
(* state in which its condition holds.  cv_stop is modelled with its       *)
(* notifications, as its condition also depends on the child process,      *)
(* whose end notifies nobody.                                              *)
(*                                                                         *)
(* Only the running models are compared by last_used, and load() sets it:  *)
(* the stamps are reduced to the order of the running models, `used', and  *)
(* to `fresh', those whose stamp is the current millisecond, among them    *)
(* the instance New that load() stamps before it joins the old thread.     *)
(* Stamps of the same earlier millisecond are ordered as they were made.   *)
(***************************************************************************)
EXTENDS Naturals, FiniteSets, Sequences

CONSTANTS
  Models,       \* the names in `mapping'
  Threads,      \* the HTTP threads
  ModelsMax,    \* base_params.models_max, 0 for no limit
  Requests,     \* the requests each thread may be given, of RequestKinds \X Models
  Crashing,     \* the models whose child may end by itself
  Sleeping,     \* the models whose child may go to sleep
  SlowCrash,    \* whether the output of a crashing child ends before it can be waited for
  MaxOut,       \* bound on the unread lines of a child
  None,         \* no thread, no model
  New           \* the instance that is not in `mapping' yet

RequestKinds == {"proxy", "proxy_loaded", "load", "unload"}

ASSUME RouterAssumption ==
  /\ IsFiniteSet(Models) /\ {None, New} \cap Models = {} /\ None \notin Threads
  /\ ModelsMax \in Nat /\ MaxOut \in Nat \ {0}
  /\ Requests \in [Threads -> SUBSET (RequestKinds \X Models)]
  /\ SlowCrash \in BOOLEAN

VARIABLES
  lock,      \* the thread that holds the mutex across steps, or None
  status,    \* meta.status of every model
  failed,    \* whether meta.exit_code is not 0
  used,      \* the running models, least recently used first
  fresh,     \* the instances last used in the current millisecond
  stopping,  \* stopping_models
  inst,      \* the instance of every model in `mapping', and at New the one load() starts
  req,       \* what every HTTP thread does
  phase      \* of the router: serving, stopping (unload_all), stopped

vars == <<lock, status, failed, used, fresh, stopping, inst, req, phase>>

Slots == Models \cup {New}
\* the model of an instance
Of(i) == IF i = New THEN req[lock].m ELSE i

\* proc: the child process, a zombie once it can be waited for and reaped once it has
\* been; out, in: its pipes; code: whether it exits with an error; mon, stop: where the
\* managing and the stopping thread are
NoInstance == [proc |-> "reaped", out |-> <<>>, in |-> FALSE, code |-> FALSE,
               mon |-> "gone", stop |-> "gone"]
NewInstance == [proc |-> "loading", out |-> <<>>, in |-> FALSE, code |-> FALSE,
                mon |-> "log", stop |-> "eval"]
NoRequest == [pc |-> "idle", kind |-> "none", m |-> None, victim |-> None]

IsRunning(m) == status[m] # "unloaded"
Active == {m \in Models : IsRunning(m)}
Alive(i) == i.proc \notin {"zombie", "reaped"}
Serving(i) == i.proc \in {"loading", "ready", "sleeping"}
\* subprocess_alive() waits for a child that has ended
Waited(proc) == IF proc = "zombie" THEN "reaped" ELSE proc
Unlocked == lock = None

Init ==
  /\ lock = None
  /\ status = [m \in Models |-> "unloaded"]
  /\ failed = [m \in Models |-> FALSE]
  /\ used = <<>>
  /\ fresh = {}
  /\ stopping = {}
  /\ inst = [i \in Slots |-> NoInstance]
  /\ req = [t \in Threads |-> NoRequest]
  /\ phase = "serving"

-----------------------------------------------------------------------------
(* The clock and the HTTP threads                                           *)

Tick ==
  /\ fresh # {}
  /\ fresh' = {}
  /\ UNCHANGED <<lock, status, failed, used, stopping, inst, req, phase>>

\* the order of the running models other than m
UsedWithout(m) == SelectSeq(used, LAMBDA k : k # m)

\* ggml_time_ms() as the last_used of m
Stamp(m) ==
  /\ used' = Append(UsedWithout(m), m)
  /\ fresh' = fresh \cup {m}

Goto(t, pc) == req' = [req EXCEPT ![t].pc = pc]
Done(t) == req' = [req EXCEPT ![t] = NoRequest]

\* cv_stop.notify_all()
Notified(is) ==
  [i \in Slots |-> IF is[i].stop = "asleep" THEN [is[i] EXCEPT !.stop = "eval"] ELSE is[i]]

\* A request arrives and its handler looks the model up (router_validate_model,
\* post_router_models_load, post_router_models_unload).
Request(t) ==
  /\ phase = "serving" /\ req[t].pc = "idle" /\ Unlocked
  /\ \E r \in Requests[t] :
       /\ \/ r[1] = "proxy"
          \/ r[1] \in {"proxy_loaded", "unload"} /\ IsRunning(r[2])
          \/ r[1] = "load" /\ ~ IsRunning(r[2])
       /\ req' = [req EXCEPT ![t] =
            [NoRequest EXCEPT !.kind = r[1], !.m = r[2],
               !.pc = CASE r[1] = "proxy"        -> "ensure"
                        [] r[1] = "proxy_loaded" -> "proxy"
                        [] r[1] = "load"         -> "lru"
                        [] OTHER                 -> "unload"]]
  /\ UNCHANGED <<lock, status, failed, used, fresh, stopping, inst, phase>>

\* ensure_model_ready: the first look at the status
Ensure(t) ==
  /\ req[t].pc = "ensure" /\ Unlocked
  /\ Goto(t, CASE status[req[t].m] \in {"loaded", "sleeping"} -> "proxy"
               [] status[req[t].m] = "unloaded"               -> "lru"
               [] OTHER                                       -> "waitload")
  /\ UNCHANGED <<lock, status, failed, used, fresh, stopping, inst, phase>>

\* the least recently used running model whose stamp is older than now
LruCandidates == SelectSeq(used, LAMBDA m : m \notin fresh)

\* unload_lru: the scan
UnloadLru(t) ==
  /\ req[t].pc = "lru" /\ Unlocked
  /\ req' = IF ModelsMax > 0 /\ LruCandidates # <<>> /\ Cardinality(Active) >= ModelsMax
              THEN [req EXCEPT ![t].pc = "evict", ![t].victim = Head(LruCandidates)]
              ELSE [req EXCEPT ![t].pc = "load"]
  /\ UNCHANGED <<lock, status, failed, used, fresh, stopping, inst, phase>>

\* a mutant of StopRequested: cv_stop is not notified
StopNotNotified(m) ==
  IF IsRunning(m)
    THEN stopping' = stopping \cup {m} /\ UNCHANGED inst
    ELSE UNCHANGED <<stopping, inst>>

\* unload()
StopRequested(m) ==
  IF IsRunning(m)
    THEN /\ stopping' = stopping \cup {m}
         /\ inst' = Notified(inst)
    ELSE UNCHANGED <<stopping, inst>>

\* unload_lru stops the victim
Evict(t) ==
  /\ req[t].pc = "evict" /\ Unlocked
  /\ StopRequested(req[t].victim)
  /\ Goto(t, "waitlru")
  /\ UNCHANGED <<lock, status, failed, used, fresh, phase>>

\* unload_lru: "wait for unload to complete"
WaitLru(t) ==
  /\ req[t].pc = "waitlru" /\ Unlocked
  /\ status[req[t].victim] = "unloaded"
  /\ req' = [req EXCEPT ![t].pc = "load", ![t].victim = None]
  /\ UNCHANGED <<lock, status, failed, used, fresh, stopping, inst, phase>>

\* where a request goes on when load() returns
AfterLoad(t) == IF req[t].kind = "load" THEN Done(t) ELSE Goto(t, "waitload")

\* load() returns because another thread loads the model, or throws: there is no
\* capacity, no port, or no process
LoadNothing(t) ==
  /\ req[t].pc = "load" /\ Unlocked
  /\ IF IsRunning(req[t].m) THEN AfterLoad(t) ELSE Done(t)
  /\ UNCHANGED <<lock, status, failed, used, fresh, stopping, inst, phase>>

\* a mutant of HasCapacity: load() trusts unload_lru
NoRecheck == TRUE

HasCapacity == ModelsMax > 0 => Cardinality(Active) < ModelsMax

\* load() stamps the new instance, starts the child and the managing thread, and
\* kills an old process that is still alive
LoadSpawn(t) ==
  LET m == req[t].m IN
  /\ req[t].pc = "load" /\ Unlocked
  /\ ~ IsRunning(m) /\ HasCapacity
  /\ lock' = t
  /\ Goto(t, "join")
  /\ inst' = [inst EXCEPT ![New] = NewInstance,
                          ![m].proc = IF Alive(inst[m]) THEN "closing" ELSE Waited(@)]
  /\ fresh' = fresh \cup {New}
  /\ UNCHANGED <<status, failed, used, stopping, phase>>

\* load() has joined the old managing thread and puts the instance in place, with
\* the stamp of its start
LoadJoin(t) ==
  LET m == req[t].m IN
  /\ req[t].pc = "join"
  /\ inst[m].mon = "gone"
  /\ status' = [status EXCEPT ![m] = "loading"]
  /\ used' = Append(UsedWithout(m), m)
  /\ fresh' = (fresh \ {New, m}) \cup (IF New \in fresh THEN {m} ELSE {})
  /\ inst' = [inst EXCEPT ![m] = inst[New], ![New] = NoInstance]
  /\ lock' = None
  /\ AfterLoad(t)
  /\ UNCHANGED <<failed, stopping, phase>>

\* wait_until_loading_finished
WaitLoaded(t) ==
  /\ req[t].pc = "waitload" /\ Unlocked
  /\ status[req[t].m] # "loading"
  /\ Goto(t, "final")
  /\ UNCHANGED <<lock, status, failed, used, fresh, stopping, inst, phase>>

\* ensure_model_ready: is_failed() ends the request
Final(t) ==
  /\ req[t].pc = "final" /\ Unlocked
  /\ IF ~ IsRunning(req[t].m) /\ failed[req[t].m] THEN Done(t) ELSE Goto(t, "proxy")
  /\ UNCHANGED <<lock, status, failed, used, fresh, stopping, inst, phase>>

\* proxy_request: the model must run
Proxy(t) ==
  /\ req[t].pc = "proxy" /\ Unlocked
  /\ IF IsRunning(req[t].m) THEN Goto(t, "stamp") ELSE Done(t)
  /\ UNCHANGED <<lock, status, failed, used, fresh, stopping, inst, phase>>

\* proxy_request: a POST updates last_used; the request is sent to the child
ProxySend(t) ==
  /\ req[t].pc = "stamp" /\ Unlocked
  /\ \/ IsRunning(req[t].m) /\ Stamp(req[t].m)
     \/ UNCHANGED <<used, fresh>>
  /\ Done(t)
  /\ UNCHANGED <<lock, status, failed, stopping, inst, phase>>

\* the unload request
Unload(t) ==
  /\ req[t].pc = "unload" /\ Unlocked
  /\ StopRequested(req[t].m)
  /\ Done(t)
  /\ UNCHANGED <<lock, status, failed, used, fresh, phase>>

\* unload_all(), once the HTTP server has stopped
Shutdown ==
  /\ phase = "serving" /\ Unlocked
  /\ \A t \in Threads : req[t].pc = "idle"
  /\ phase' = "stopping"
  /\ stopping' = stopping \cup Active
  /\ inst' = IF Active = {} THEN inst ELSE Notified(inst)
  /\ UNCHANGED <<lock, status, failed, used, fresh, req>>

\* unload_all() has joined the managing threads
Stopped ==
  /\ phase = "stopping"
  /\ \A m \in Models : inst[m].mon = "gone"
  /\ phase' = "stopped"
  /\ UNCHANGED <<lock, status, failed, used, fresh, stopping, inst, req>>

-----------------------------------------------------------------------------
(* The child process                                                        *)

\* a step of instance i alone
Becomes(i, new) ==
  /\ inst' = [inst EXCEPT ![i] = new]
  /\ UNCHANGED <<lock, status, failed, used, fresh, stopping, req, phase>>

\* the child has loaded its model (setup_child_server)
ChildReady(i) ==
  /\ inst[i].proc = "loading" /\ Len(inst[i].out) < MaxOut
  /\ Becomes(i, [inst[i] EXCEPT !.proc = "ready", !.out = Append(@, "loaded")])

\* notify_router_sleeping_state(true)
ChildSleeps(i) ==
  /\ inst[i].proc = "ready" /\ Len(inst[i].out) < MaxOut
  /\ Of(i) \in Sleeping
  /\ Becomes(i, [inst[i] EXCEPT !.proc = "sleeping", !.out = Append(@, "sleeping")])

\* notify_router_sleeping_state(false): a request wakes the child
ChildWakes(i) ==
  /\ inst[i].proc = "sleeping" /\ Len(inst[i].out) < MaxOut
  /\ Becomes(i, [inst[i] EXCEPT !.proc = "ready", !.out = Append(@, "loaded")])

\* the child reads the exit command
ChildExits(i) ==
  /\ inst[i].proc \in {"ready", "sleeping"} /\ inst[i].in
  /\ Becomes(i, [inst[i] EXCEPT !.proc = "closing"])

\* the child ends by itself, for instance because its model does not load
ChildCrashes(i) ==
  /\ Serving(inst[i]) /\ Of(i) \in Crashing
  /\ Becomes(i, [inst[i] EXCEPT !.proc = IF SlowCrash THEN "closing" ELSE "zombie",
                                !.code = TRUE])

\* a child whose output has ended can be waited for
ChildEnds(i) ==
  /\ inst[i].proc = "closing"
  /\ Becomes(i, [inst[i] EXCEPT !.proc = "zombie"])

-----------------------------------------------------------------------------
(* The threads of an instance                                               *)

\* log_thread reads a status line: update_status
LogLine(i) ==
  /\ inst[i].mon = "log" /\ inst[i].out # <<>> /\ Unlocked
  /\ status' = [status EXCEPT ![Of(i)] = Head(inst[i].out)]
  /\ failed' = [failed EXCEPT ![Of(i)] = FALSE]
  /\ inst' = [inst EXCEPT ![i].out = Tail(@)]
  /\ UNCHANGED <<lock, used, fresh, stopping, req, phase>>

\* a mutant of LogEnd: the model is shown as unloaded when its output ends
LogEndUnloads(i) ==
  /\ inst[i].mon = "log" /\ inst[i].out = <<>> /\ Unlocked
  /\ ~ Serving(inst[i])
  /\ status' = [status EXCEPT ![Of(i)] = "unloaded"]
  /\ inst' = [inst EXCEPT ![i].mon = "erase"]
  /\ UNCHANGED <<lock, failed, used, fresh, stopping, req, phase>>

\* log_thread reads the end of the output and is joined
LogEnd(i) ==
  /\ inst[i].mon = "log" /\ inst[i].out = <<>>
  /\ ~ Serving(inst[i])
  /\ Becomes(i, [inst[i] EXCEPT !.mon = "erase"])

\* "stop the timeout monitoring thread"
Erase(i) ==
  /\ inst[i].mon = "erase" /\ Unlocked
  /\ stopping' = stopping \ {Of(i)}
  /\ inst' = [Notified(inst) EXCEPT ![i].mon = "joinstop"]
  /\ UNCHANGED <<lock, status, failed, used, fresh, req, phase>>

\* stopping_thread is joined and the child is reaped
Reap(i) ==
  /\ inst[i].mon = "joinstop"
  /\ inst[i].stop = "gone" /\ ~ Alive(inst[i])
  /\ Becomes(i, [inst[i] EXCEPT !.mon = "status", !.proc = "reaped"])

\* "update status and exit code"
SetUnloaded(i) ==
  /\ inst[i].mon = "status" /\ Unlocked
  /\ status' = [status EXCEPT ![Of(i)] = "unloaded"]
  /\ failed' = [failed EXCEPT ![Of(i)] = inst[i].code]
  /\ used' = UsedWithout(Of(i))
  /\ fresh' = fresh \ {Of(i)}
  /\ inst' = [inst EXCEPT ![i] = [NoInstance EXCEPT !.mon = "end"]]
  /\ UNCHANGED <<lock, stopping, req, phase>>

\* a mutant of MonitorEnds: the thread takes the mutex once more before it ends
MonitorEndsLocked(i) ==
  /\ inst[i].mon = "end" /\ Unlocked
  /\ Becomes(i, [inst[i] EXCEPT !.mon = "gone"])

MonitorEnds(i) ==
  /\ inst[i].mon = "end"
  /\ Becomes(i, [inst[i] EXCEPT !.mon = "gone"])

\* stopping_thread evaluates should_wake, and sleeps on cv_stop if it is false
StopEval(i) ==
  /\ inst[i].stop = "eval" /\ Unlocked
  /\ IF Of(i) \in stopping
       THEN Becomes(i, [inst[i] EXCEPT !.stop = "check"])
       ELSE Becomes(i, [inst[i] EXCEPT !.stop = IF Alive(inst[i]) THEN "asleep" ELSE "check",
                                    !.proc = Waited(@)])

\* a mutant of StopCheck: no early return for a child that has exited
StopUnchecked(i) ==
  /\ inst[i].stop = "check"
  /\ Becomes(i, [inst[i] EXCEPT !.stop = "grace", !.proc = Waited(@), !.in = TRUE])

\* "child may have already exited": otherwise it is sent the exit command
StopCheck(i) ==
  /\ inst[i].stop = "check"
  /\ Becomes(i, [inst[i] EXCEPT !.stop = IF Alive(inst[i]) THEN "grace" ELSE "gone",
                             !.proc = Waited(@),
                             !.in = @ \/ Alive(inst[i])])

\* "already stopped"
StopGrace(i) ==
  /\ inst[i].stop = "grace" /\ Unlocked
  /\ Of(i) \notin stopping
  /\ Becomes(i, [inst[i] EXCEPT !.stop = "gone"])

\* "timeout, force kill"
StopKill(i) ==
  /\ inst[i].stop = "grace" /\ Unlocked
  /\ Of(i) \in stopping
  /\ Becomes(i, [inst[i] EXCEPT !.stop = "gone",
                             !.code = @ \/ Serving(inst[i]),
                             !.proc = IF Serving(inst[i]) THEN "closing" ELSE @])

-----------------------------------------------------------------------------
Handle(t) ==
  \/ Ensure(t) \/ UnloadLru(t) \/ Evict(t) \/ WaitLru(t)
  \/ LoadNothing(t) \/ LoadSpawn(t) \/ LoadJoin(t)
  \/ WaitLoaded(t) \/ Final(t) \/ Proxy(t) \/ ProxySend(t) \/ Unload(t)

Manage(i) == LogLine(i) \/ LogEnd(i) \/ Erase(i) \/ Reap(i) \/ SetUnloaded(i) \/ MonitorEnds(i)
Stop(i) == StopEval(i) \/ StopCheck(i) \/ StopGrace(i) \/ StopKill(i)

Next ==
  \/ Tick
  \/ \E t \in Threads : Request(t) \/ Handle(t)
  \/ Shutdown \/ Stopped
  \/ \E i \in Slots :
       \/ ChildReady(i) \/ ChildSleeps(i) \/ ChildWakes(i) \/ ChildExits(i)
       \/ ChildCrashes(i) \/ ChildEnds(i)
       \/ Manage(i) \/ Stop(i)

\* The threads are scheduled, and an ending process ends.  No request has to come,
\* and a child may load for ever.
Fairness ==
  /\ \A t \in Threads : WF_vars(Handle(t))
  /\ \A i \in Slots : WF_vars(Manage(i)) /\ WF_vars(Stop(i)) /\ WF_vars(ChildEnds(i))
  /\ WF_vars(Stopped)

Spec == Init /\ [][Next]_vars /\ Fairness

-----------------------------------------------------------------------------
(* Properties                                                               *)

\* However requests, evictions, crashes and reloads interleave, no more than models_max
\* child processes exist at a time (the re-check of load()): a child counts until it has
\* ended, not until somebody asks it to.
AtMostModelsMax ==
  ModelsMax > 0 => Cardinality({i \in Slots : Alive(inst[i])}) <= ModelsMax

\* A model shown as unloaded has no process left, and one shown as running has a
\* managing thread that will still report its end: a status written late by a thread of
\* an old instance would break this.
StatusTracksInstance ==
  \A m \in Models :
    IF IsRunning(m) THEN inst[m].mon \notin {"end", "gone"}
                    ELSE inst[m].proc = "reaped"

\* stopping_thread may still kill its child only while the child has not been waited
\* for: afterwards the process id is 0, and the kill would hit the router's own group.
KillsOwnChild == \A i \in Slots : inst[i].stop = "grace" => inst[i].proc # "reaped"

\* load() gives the mutex back: the join under the lock never waits for ever.
LoadReturns == \A t \in Threads : (lock = t) ~> (lock # t)

\* A running model that is asked to stop becomes unloaded, be it that the child exits,
\* crashes meanwhile or is killed at the timeout.
UnloadEnds == \A m \in Models : (m \in stopping /\ IsRunning(m)) ~> ~ IsRunning(m)

\* A child that ends by itself is noticed: its model becomes unloaded, although nobody
\* asked for it and the end of a process notifies no condition variable ("thread to
\* monitor stopping signal OR child crash").
CrashNoticed ==
  \A m \in Models : (IsRunning(m) /\ ~ Serving(inst[m])) ~> ~ IsRunning(m)
==============================================================================
