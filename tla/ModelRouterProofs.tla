-------------------------- MODULE ModelRouterProofs --------------------------
(***************************************************************************)
(* Proofs of the safety properties of ModelRouter, for any number of       *)
(* models and HTTP threads and any models_max.                             *)
(*                                                                         *)
(* The inductive invariant ties the four views of an instance together:    *)
(* the status in `mapping', the managing thread, the stopping thread and   *)
(* the process.  It also says what holds while load() keeps the mutex: the *)
(* instance it starts is the only one outside `mapping', and the capacity  *)
(* it has checked is still there.                                          *)
(***************************************************************************)
EXTENDS ModelRouter, FiniteSetTheorems, TLAPS

Lines == {"loaded", "sleeping"}
Statuses == {"unloaded", "loading"} \cup Lines
Instances ==
  [proc : {"loading", "ready", "sleeping", "closing", "zombie", "reaped"},
   out : Seq(Lines), in : BOOLEAN, code : BOOLEAN,
   mon : {"log", "erase", "joinstop", "status", "end", "gone"},
   stop : {"eval", "asleep", "check", "grace", "gone"}]
Pcs == {"idle", "ensure", "lru", "evict", "waitlru", "load", "join", "waitload", "final",
        "proxy", "stamp", "unload"}

\* nothing is needed of the victim of a request
RequestsOf(r) ==
  [pc : Pcs, kind : RequestKinds \cup {"none"}, m : Models \cup {None}, victim : {r.victim}]

Typed ==
  /\ lock \in Threads \cup {None}
  /\ status \in [Models -> Statuses]
  /\ inst \in [Slots -> Instances]
  /\ DOMAIN req = Threads /\ req = [t \in Threads |-> req[t]]
  /\ \A t \in Threads : req[t] \in RequestsOf(req[t])

\* the mutex is kept by the thread inside load(), and every request names a model
LockInv ==
  \A t \in Threads : /\ req[t].pc = "join" <=> lock = t
                     /\ req[t].pc # "idle" => req[t].m \in Models

\* a managing thread past its last critical section
Over(i) == i.mon \in {"end", "gone"}

\* the threads and the process of an instance
InstanceOK(i) ==
  /\ Over(i) \/ i.mon = "status" => i.proc = "reaped" /\ i.stop = "gone"
  /\ i.stop = "grace" => i.proc # "reaped"

InstanceInv ==
  /\ \A i \in Slots : InstanceOK(inst[i])
  /\ \A m \in Models : IsRunning(m) <=> ~ Over(inst[m])

\* the instance outside `mapping'
NewInv ==
  /\ lock = None => Over(inst[New])
  /\ lock # None => inst[New].mon \in {"log", "erase"} /\ inst[New].stop = "eval"
                    /\ ~ IsRunning(req[lock].m) /\ HasCapacity

CountInv == ModelsMax > 0 => Cardinality(Active) <= ModelsMax

IInv == Typed /\ LockInv /\ InstanceInv /\ NewInv /\ CountInv

-----------------------------------------------------------------------------
(* Finite sets of models                                                    *)

\* Counts of running models are numbers: `mapping' is finite.
LEMMA ActiveFinite == IsFiniteSet(Active) /\ Cardinality(Active) \in Nat
<1>1. Active \subseteq Models
  BY DEF Active
<1> QED
  BY <1>1, RouterAssumption, FS_Subset, FS_CardinalityType

\* If fewer models are running, the count is at most what it was.
LEMMA FewerActive == ASSUME Active' \subseteq Active, CountInv PROVE CountInv'
<1>1. Cardinality(Active') <= Cardinality(Active) /\ Cardinality(Active') \in Nat
  BY ActiveFinite, FS_Subset, FS_CardinalityType
<1> QED
  BY <1>1, ActiveFinite, RouterAssumption DEF CountInv

-----------------------------------------------------------------------------
(* The invariant holds at the start                                         *)

\* The router starts with no model loaded.
LEMMA InitOK == Init => IInv
<1> SUFFICES ASSUME Init PROVE IInv
  OBVIOUS
<1>1. Typed
  <2>1. NoInstance \in Instances
    BY DEF NoInstance, Instances
  <2>2. NoRequest \in RequestsOf(NoRequest)
    BY DEF NoRequest, RequestsOf, Pcs
  <2> QED
    BY <2>1, <2>2 DEF Init, Typed, Statuses, Lines
<1>2. LockInv
  BY RouterAssumption DEF Init, LockInv, NoRequest
<1>3. InstanceInv
  BY DEF Init, InstanceInv, InstanceOK, Over, NoInstance, IsRunning, Slots
<1>4. NewInv
  BY DEF Init, NewInv, Over, NoInstance, Slots
<1>5. CountInv
  <2>1. Active = {}
    BY DEF Init, Active, IsRunning
  <2> QED
    BY <2>1, FS_EmptySet, RouterAssumption DEF CountInv
<1> QED
  BY <1>1, <1>2, <1>3, <1>4, <1>5 DEF IInv

-----------------------------------------------------------------------------
(* Steps of one instance                                                    *)

\* A step of one instance that keeps the relation of its threads to its process, and
\* does not pass the end of the managing thread, keeps the invariant.
LEMMA BecomesOK ==
  ASSUME IInv, NEW i \in Slots, NEW new \in Instances, Becomes(i, new), InstanceOK(new),
         Over(new) <=> Over(inst[i]),
         i = New /\ lock # None => new.mon \in {"log", "erase"} /\ new.stop = "eval"
  PROVE  IInv'
<1> USE DEF IInv
<1>1. Typed'
  BY DEF Typed, Becomes, RequestsOf
<1>2. LockInv'
  BY DEF LockInv, Becomes
<1>3. InstanceInv'
  <2>1. \A j \in Slots : inst'[j] = IF j = i THEN new ELSE inst[j]
    BY DEF Becomes, Typed
  <2>2. \A m \in Models : m \in Slots
    BY DEF Slots
  <2>3. \A j \in Slots : InstanceOK(inst'[j])
    BY <2>1 DEF InstanceInv
  <2>4. \A j \in Slots : Over(inst'[j]) <=> Over(inst[j])
    BY <2>1
  <2>5. \A m \in Models : IsRunning(m)' <=> IsRunning(m)
    BY DEF IsRunning, Becomes
  <2> QED
    BY <2>2, <2>3, <2>4, <2>5 DEF InstanceInv
<1>4. NewInv'
  <2>1. New \in Slots /\ inst'[New] = IF New = i THEN new ELSE inst[New]
    BY DEF Becomes, Typed, Slots
  <2>2. lock' = lock /\ req' = req /\ status' = status
    BY DEF Becomes
  <2> QED
    BY <2>1, <2>2 DEF NewInv, IsRunning, HasCapacity, Active
<1>5. CountInv'
  BY DEF CountInv, Active, IsRunning, Becomes
<1> QED
  BY <1>1, <1>2, <1>3, <1>4, <1>5

ChildStep(i) ==
  \/ ChildReady(i) \/ ChildSleeps(i) \/ ChildWakes(i) \/ ChildExits(i)
  \/ ChildCrashes(i) \/ ChildEnds(i)

\* What the child does by itself leaves the threads where they are; a process that was
\* waited for does nothing.
LEMMA ChildOK == ASSUME IInv, NEW i \in Slots, ChildStep(i) PROVE IInv'
<1> DEFINE Child(new) == /\ new \in Instances
                         /\ new.mon = inst[i].mon /\ new.stop = inst[i].stop
                         /\ new.proc # "reaped" /\ inst[i].proc # "reaped"
<1>1. PICK new : Child(new) /\ Becomes(i, new)
  <2>1. inst[i] \in Instances
    BY DEF IInv, Typed
  <2> DEFINE Says(p, line) == [inst[i] EXCEPT !.proc = p, !.out = Append(@, line)]
  <2>says. ASSUME NEW p \in {"ready", "sleeping"}, NEW line \in Lines, inst[i].proc # "reaped"
        PROVE  Child(Says(p, line))
    <3>1. Append(inst[i].out, line) \in Seq(Lines)
      BY <2>1 DEF Instances
    <3> QED
      BY <2>1, <2>says, <3>1, Zenon DEF Instances
  <2>2. CASE ChildReady(i)
    BY <2>says, <2>2, Zenon DEF ChildReady, Lines
  <2>3. CASE ChildSleeps(i)
    BY <2>says, <2>3, Zenon DEF ChildSleeps, Lines
  <2>4. CASE ChildWakes(i)
    BY <2>says, <2>4, ZenonT(40) DEF ChildWakes, Lines
  <2>5. CASE ChildExits(i)
    BY <2>1, <2>5 DEF ChildExits, Instances
  <2>6. CASE ChildCrashes(i)
    BY <2>1, <2>6, ZenonT(40) DEF ChildCrashes, Serving, Instances
  <2>7. CASE ChildEnds(i)
    BY <2>1, <2>7 DEF ChildEnds, Instances
  <2> QED
    BY <2>2, <2>3, <2>4, <2>5, <2>6, <2>7 DEF ChildStep
<1>2. InstanceOK(new) /\ (Over(new) <=> Over(inst[i]))
  BY <1>1 DEF IInv, InstanceInv, InstanceOK, Over
<1>3. i = New /\ lock # None => new.mon \in {"log", "erase"} /\ new.stop = "eval"
  BY <1>1 DEF IInv, NewInv
<1> QED
  BY <1>1, <1>2, <1>3, BecomesOK

\* The stopping thread kills or waits for the child of its own instance only, and it
\* does not run before load() has given the mutex back.
LEMMA StopOK == ASSUME IInv, NEW i \in Slots, Stop(i) PROVE IInv'
<1> DEFINE Keeps(new) == /\ new \in Instances /\ InstanceOK(new)
                         /\ new.mon = inst[i].mon
<1>1. inst[i] \in Instances /\ InstanceOK(inst[i])
  BY DEF IInv, Typed, InstanceInv
<1>2. ~ (i = New /\ lock # None)
  BY DEF IInv, NewInv, Stop, StopEval, StopCheck, StopGrace, StopKill, Unlocked
<1>3. \E new : Keeps(new) /\ Becomes(i, new)
  <2>1. CASE StopEval(i)
    BY <1>1, <2>1, Zenon DEF StopEval, Waited, Alive, Instances, InstanceOK, Over
  <2>2. CASE StopCheck(i)
    BY <1>1, <2>2, ZenonT(40) DEF StopCheck, Waited, Alive, Instances, InstanceOK, Over
  <2>3. CASE StopGrace(i)
    BY <1>1, <2>3 DEF StopGrace, Instances, InstanceOK, Over
  <2>4. CASE StopKill(i)
    BY <1>1, <2>4, ZenonT(40) DEF StopKill, Serving, Instances, InstanceOK, Over
  <2> QED
    BY <2>1, <2>2, <2>3, <2>4 DEF Stop
<1>4. PICK new : Keeps(new) /\ Becomes(i, new)
  BY <1>3
<1>5. Over(new) <=> Over(inst[i])
  BY <1>4 DEF Over
<1> QED
  BY <1>2, <1>4, <1>5, BecomesOK

\* cv_stop.notify_all() moves stopping threads from their wait to their condition.
LEMMA NotifiedOK ==
  ASSUME IInv
  PROVE  /\ Notified(inst) \in [Slots -> Instances]
         /\ \A i \in Slots : /\ Notified(inst)[i].mon = inst[i].mon
                             /\ Notified(inst)[i].proc = inst[i].proc
                             /\ Over(Notified(inst)[i]) <=> Over(inst[i])
                             /\ InstanceOK(Notified(inst)[i])
                             /\ inst[i].stop = "eval" => Notified(inst)[i].stop = "eval"
<1>1. \A i \in Slots : inst[i] \in Instances /\ InstanceOK(inst[i])
  BY DEF IInv, Typed, InstanceInv
<1>2. Notified(inst) = [i \in Slots |-> IF inst[i].stop = "asleep"
                                          THEN [inst[i] EXCEPT !.stop = "eval"] ELSE inst[i]]
  BY DEF Notified
<1>3. ASSUME NEW i \in Slots
      PROVE  /\ Notified(inst)[i] \in Instances
             /\ Notified(inst)[i].mon = inst[i].mon
             /\ Notified(inst)[i].proc = inst[i].proc
             /\ inst[i].stop = "eval" => Notified(inst)[i].stop = "eval"
             /\ Notified(inst)[i].stop = IF inst[i].stop = "asleep" THEN "eval" ELSE inst[i].stop
  <2>1. inst[i] \in Instances
    BY <1>1
  <2> QED
    BY <1>2, <2>1 DEF Instances
<1> QED
  BY <1>1, <1>2, <1>3 DEF InstanceOK, Over

\* The managing thread reports the end of its child after the stopping thread is gone
\* and the child was waited for, and each status it sets is that of its own model.
LEMMA ManageOK == ASSUME IInv, NEW i \in Slots, Manage(i) PROVE IInv'
<1>1. inst[i] \in Instances /\ InstanceOK(inst[i])
  BY DEF IInv, Typed, InstanceInv
<1>2. i = New => /\ lock = None => Over(inst[i])
                 /\ lock # None => inst[i].mon \in {"log", "erase"}
  BY DEF IInv, NewInv
<1>3. i # New => i \in Models /\ Of(i) = i
  BY DEF Slots, Of
<1>4. CASE LogLine(i)
  <2>1. i \in Models /\ Of(i) = i /\ lock = None
    BY <1>2, <1>3, <1>4 DEF LogLine, Unlocked, Over
  <2>2. Head(inst[i].out) \in Lines /\ Tail(inst[i].out) \in Seq(Lines)
    BY <1>1, <1>4 DEF LogLine, Instances
  <2>3. /\ status' = [status EXCEPT ![i] = Head(inst[i].out)]
        /\ inst' = [inst EXCEPT ![i].out = Tail(@)]
        /\ lock' = lock /\ req' = req
    BY <1>4, <2>1 DEF LogLine
  <2>4. /\ inst' \in [Slots -> Instances]
        /\ \A j \in Slots : /\ inst'[j].mon = inst[j].mon /\ inst'[j].proc = inst[j].proc
                            /\ inst'[j].stop = inst[j].stop
    BY <1>1, <2>2, <2>3, ZenonT(40) DEF IInv, Typed, Instances
  <2>5. status' \in [Models -> Statuses] /\ \A m \in Models : IsRunning(m)' <=> IsRunning(m)
    <3>1. IsRunning(i)
      BY <1>4, <2>1 DEF IInv, InstanceInv, LogLine, Over
    <3>2. status'[i] # "unloaded" /\ \A m \in Models \ {i} : status'[m] = status[m]
      BY <2>1, <2>2, <2>3 DEF IInv, Typed, Lines
    <3> QED
      BY <2>1, <2>2, <2>3, <3>1, <3>2 DEF IInv, Typed, Statuses, IsRunning
  <2>6. Active' = Active
    BY <2>5 DEF Active
  <2>7. Typed' /\ LockInv'
    BY <2>3, <2>4, <2>5 DEF IInv, Typed, LockInv, RequestsOf
  <2>8. InstanceInv' /\ NewInv'
    BY <2>1, <2>3, <2>4, <2>5 DEF IInv, InstanceInv, InstanceOK, NewInv, Over, Slots
  <2> QED
    BY <2>6, <2>7, <2>8 DEF IInv, CountInv
<1>5. CASE LogEnd(i)
  <2>1. /\ Becomes(i, [inst[i] EXCEPT !.mon = "erase"])
        /\ [inst[i] EXCEPT !.mon = "erase"] \in Instances
        /\ InstanceOK([inst[i] EXCEPT !.mon = "erase"])
        /\ Over([inst[i] EXCEPT !.mon = "erase"]) <=> Over(inst[i])
    BY <1>1, <1>5 DEF LogEnd, Instances, InstanceOK, Over
  <2>2. i = New /\ lock # None => inst[i].stop = "eval"
    BY DEF IInv, NewInv
  <2> QED
    BY <1>1, <2>1, <2>2, BecomesOK DEF Instances
<1>6. CASE Erase(i)
  <2>1. i \in Models /\ Of(i) = i /\ lock = None
    BY <1>2, <1>3, <1>6 DEF Erase, Unlocked, Over
  <2>2. inst' = [Notified(inst) EXCEPT ![i].mon = "joinstop"] /\ lock' = lock /\ req' = req
        /\ status' = status
    BY <1>6 DEF Erase
  <2>3. Notified(inst)[i] \in Instances
    BY NotifiedOK
  <2>4. inst' \in [Slots -> Instances]
    BY <2>2, <2>3, NotifiedOK DEF Instances
  <2>5. \A j \in Slots : InstanceOK(inst'[j]) /\ (Over(inst'[j]) <=> Over(inst[j]))
    <3>1. \A j \in Slots \ {i} : inst'[j] = Notified(inst)[j]
      BY <2>2, NotifiedOK
    <3>2. inst'[i] = [Notified(inst)[i] EXCEPT !.mon = "joinstop"]
      BY <2>2, NotifiedOK
    <3>3. InstanceOK(inst'[i]) /\ ~ Over(inst'[i])
      BY <2>3, <3>2, NotifiedOK DEF InstanceOK, Over, Instances
    <3>4. ~ Over(inst[i])
      BY <1>6 DEF Erase, Over
    <3> QED
      BY <3>1, <3>3, <3>4, NotifiedOK
  <2>6. Typed' /\ LockInv'
    BY <2>2, <2>4 DEF IInv, Typed, LockInv, RequestsOf
  <2>7. InstanceInv' /\ NewInv'
    BY <2>1, <2>2, <2>5 DEF IInv, InstanceInv, NewInv, Slots, IsRunning
  <2> QED
    BY <2>2, <2>6, <2>7 DEF IInv, CountInv, Active, IsRunning
<1>7. CASE Reap(i)
  <2> DEFINE new == [inst[i] EXCEPT !.mon = "status", !.proc = "reaped"]
  <2>1. Becomes(i, new) /\ new \in Instances /\ InstanceOK(new) /\ (Over(new) <=> Over(inst[i]))
    BY <1>1, <1>7, ZenonT(40) DEF Reap, Instances, InstanceOK, Over
  <2>2. ~ (i = New /\ lock # None)
    BY <1>2, <1>7 DEF Reap
  <2> QED
    BY <2>1, <2>2, BecomesOK
<1>8. CASE SetUnloaded(i)
  <2> DEFINE new == [NoInstance EXCEPT !.mon = "end"]
  <2>1. i \in Models /\ Of(i) = i /\ lock = None
    BY <1>2, <1>3, <1>8 DEF SetUnloaded, Unlocked, Over
  <2>2. /\ status' = [status EXCEPT ![i] = "unloaded"]
        /\ inst' = [inst EXCEPT ![i] = new]
        /\ lock' = lock /\ req' = req
    BY <1>8, <2>1 DEF SetUnloaded
  <2>3. new \in Instances /\ InstanceOK(new) /\ Over(new)
    <3>1. NoInstance \in Instances /\ NoInstance.proc = "reaped" /\ NoInstance.stop = "gone"
      BY DEF NoInstance, Instances
    <3> QED
      BY <3>1 DEF Instances, InstanceOK, Over
  <2>4. \A j \in Slots : inst'[j] = IF j = i THEN new ELSE inst[j]
    BY <2>2 DEF IInv, Typed
  <2>5. \A m \in Models : status'[m] = IF m = i THEN "unloaded" ELSE status[m]
    BY <2>2 DEF IInv, Typed
  <2>6. Typed' /\ LockInv'
    BY <2>2, <2>3, ZenonT(40) DEF IInv, Typed, LockInv, RequestsOf, Statuses
  <2>7. InstanceInv' /\ NewInv'
    BY <2>1, <2>2, <2>3, <2>4, <2>5, RouterAssumption
       DEF IInv, InstanceInv, NewInv, Slots, IsRunning
  <2>8. Active' \subseteq Active
    BY <2>5 DEF Active, IsRunning
  <2> QED
    BY <2>6, <2>7, <2>8, FewerActive DEF IInv
<1>9. CASE MonitorEnds(i)
  <2> DEFINE new == [inst[i] EXCEPT !.mon = "gone"]
  <2>1. Becomes(i, new) /\ new \in Instances /\ InstanceOK(new) /\ (Over(new) <=> Over(inst[i]))
    BY <1>1, <1>9 DEF MonitorEnds, Instances, InstanceOK, Over
  <2>2. ~ (i = New /\ lock # None)
    BY <1>2, <1>9 DEF MonitorEnds
  <2> QED
    BY <2>1, <2>2, BecomesOK
<1> QED
  BY <1>4, <1>5, <1>6, <1>7, <1>8, <1>9 DEF Manage

-----------------------------------------------------------------------------
(* Steps of the HTTP threads                                                *)

\* A step of a request outside load() that at most notifies cv_stop.
LEMMA RequestOK ==
  ASSUME IInv, NEW t \in Threads, NEW r, r \in RequestsOf(r), req' = [req EXCEPT ![t] = r],
         r.pc # "join", r.pc # "idle" => r.m \in Models,
         lock = None, lock' = lock, status' = status, inst' \in {inst, Notified(inst)}
  PROVE  IInv'
<1>1. DOMAIN req' = Threads /\ \A u \in Threads : req'[u] = IF u = t THEN r ELSE req[u]
  BY DEF IInv, Typed
<1>2. inst' \in [Slots -> Instances]
  BY NotifiedOK DEF IInv, Typed
<1>3. \A i \in Slots : InstanceOK(inst'[i]) /\ (Over(inst'[i]) <=> Over(inst[i]))
  BY NotifiedOK DEF IInv, InstanceInv
<1>4. Typed'
  <2>1. req' = [u \in Threads |-> req'[u]]
    BY DEF IInv, Typed
  <2>2. \A u \in Threads : req'[u] \in RequestsOf(req'[u])
    BY <1>1 DEF IInv, Typed
  <2> QED
    BY <1>1, <1>2, <2>1, <2>2 DEF IInv, Typed, RequestsOf
<1>5. LockInv'
  BY <1>1, RouterAssumption DEF IInv, LockInv
<1>6. InstanceInv' /\ NewInv'
  BY <1>3 DEF IInv, InstanceInv, NewInv, Slots, IsRunning
<1> QED
  BY <1>4, <1>5, <1>6 DEF IInv, CountInv, Active, IsRunning

\* A request that goes on or ends has the form that RequestOK asks for.
LEMMA GotoOK ==
  ASSUME IInv, NEW t \in Threads, req[t].pc # "idle", NEW pc \in Pcs \ {"join"},
         Goto(t, pc) \/ Done(t),
         lock = None, lock' = lock, status' = status, inst' \in {inst, Notified(inst)}
  PROVE  IInv'
<1>1. req[t] \in RequestsOf(req[t]) /\ req[t].m \in Models
  BY DEF IInv, Typed, LockInv
<1>2. CASE Goto(t, pc)
  <2> DEFINE r == [req[t] EXCEPT !.pc = pc]
  <2>1. req' = [req EXCEPT ![t] = r]
    BY <1>2 DEF Goto, IInv, Typed
  <2>2. r \in RequestsOf(r) /\ r.pc # "join" /\ r.m \in Models
    BY <1>1 DEF RequestsOf, Pcs
  <2> QED
    BY <2>1, <2>2, RequestOK, ZenonT(40)
<1>3. CASE Done(t)
  <2>1. NoRequest \in RequestsOf(NoRequest) /\ NoRequest.pc = "idle"
    BY DEF NoRequest, RequestsOf, Pcs
  <2> QED
    BY <1>3, <2>1, RequestOK, ZenonT(40) DEF Done
<1> QED
  BY <1>2, <1>3

\* load() starts an instance for a model that has no process and no thread that needs
\* the mutex, and only if there is room for one more.
LEMMA LoadSpawnOK == ASSUME IInv, NEW t \in Threads, LoadSpawn(t) PROVE IInv'
<1> DEFINE m == req[t].m
<1>1. /\ m \in Models /\ m \in Slots /\ New \in Slots /\ m # New
      /\ ~ IsRunning(m) /\ lock = None /\ lock' = t /\ status' = status /\ t # None
      /\ HasCapacity
  BY RouterAssumption DEF LoadSpawn, IInv, LockInv, Slots, Unlocked
<1>2. inst[m].proc = "reaped" /\ inst[m] \in Instances
  BY <1>1 DEF IInv, Typed, InstanceInv, InstanceOK
<1>3. inst' = [inst EXCEPT ![New] = NewInstance, ![m].proc = "reaped"]
  BY <1>1, <1>2 DEF LoadSpawn, Alive, Waited, IInv, Typed
<1>4. inst' = [inst EXCEPT ![New] = NewInstance]
  <2>1. [inst[m] EXCEPT !.proc = "reaped"] = inst[m]
    BY <1>2 DEF Instances
  <2> QED
    BY <1>1, <1>3, <2>1, ZenonT(40) DEF IInv, Typed
<1>5. /\ NewInstance \in Instances /\ InstanceOK(NewInstance)
      /\ NewInstance.mon = "log" /\ NewInstance.stop = "eval"
  BY DEF NewInstance, Instances, InstanceOK, Over
<1>6. req[t] \in RequestsOf(req[t])
  BY DEF IInv, Typed
<1>7. /\ req' = [req EXCEPT ![t].pc = "join"]
      /\ \A u \in Threads : u # t => req'[u] = req[u]
      /\ req'[t] = [req[t] EXCEPT !.pc = "join"]
  BY DEF LoadSpawn, Goto, IInv, Typed
<1>8. req'[t] \in RequestsOf(req'[t]) /\ req'[t].pc = "join" /\ req'[t].m = m
  BY <1>6, <1>7 DEF RequestsOf, Pcs
<1>9. Typed'
  <2>1. inst' \in [Slots -> Instances]
    BY <1>4, <1>5, ZenonT(40) DEF IInv, Typed
  <2>2. DOMAIN req' = Threads /\ req' = [u \in Threads |-> req'[u]]
    BY <1>7 DEF IInv, Typed
  <2>3. \A u \in Threads : req'[u] \in RequestsOf(req'[u])
    BY <1>7, <1>8 DEF IInv, Typed
  <2> QED
    BY <1>1, <2>1, <2>2, <2>3 DEF IInv, Typed, RequestsOf
<1>10. LockInv'
  BY <1>1, <1>7, <1>8, RouterAssumption DEF IInv, LockInv
<1>11. InstanceInv'
  <2>1. \A i \in Slots : inst'[i] = IF i = New THEN NewInstance ELSE inst[i]
    BY <1>4 DEF IInv, Typed
  <2>2. New \notin Models /\ \A k \in Models : k \in Slots
    BY RouterAssumption DEF Slots
  <2> QED
    BY <1>1, <1>5, <2>1, <2>2 DEF IInv, InstanceInv, IsRunning
<1>12. NewInv'
  <2>1. inst'[New] = NewInstance
    BY <1>1, <1>4 DEF IInv, Typed
  <2> QED
    BY <1>1, <1>5, <1>8, <2>1 DEF NewInv, IsRunning, HasCapacity, Active
<1> QED
  BY <1>1, <1>9, <1>10, <1>11, <1>12 DEF IInv, CountInv, Active, IsRunning

\* load() puts the instance in place: it is the one more there was room for.
LEMMA LoadJoinOK == ASSUME IInv, NEW t \in Threads, LoadJoin(t) PROVE IInv'
<1> DEFINE m == req[t].m
<1>1. /\ lock = t /\ t # None /\ m \in Models /\ m \in Slots /\ New \in Slots /\ m # New
      /\ lock' = None /\ ~ IsRunning(m) /\ HasCapacity
  BY RouterAssumption DEF LoadJoin, IInv, LockInv, NewInv, Slots
<1>2. /\ status' = [status EXCEPT ![m] = "loading"]
      /\ inst' = [inst EXCEPT ![m] = inst[New], ![New] = NoInstance]
  BY DEF LoadJoin
<1>3. NoInstance \in Instances /\ InstanceOK(NoInstance) /\ Over(NoInstance)
  BY DEF NoInstance, Instances, InstanceOK, Over
<1>4. /\ inst' \in [Slots -> Instances]
      /\ \A i \in Slots : inst'[i] = IF i = New THEN NoInstance
                                     ELSE IF i = m THEN inst[New] ELSE inst[i]
  BY <1>1, <1>2, <1>3 DEF IInv, Typed
<1>5. \A k \in Models : status'[k] = IF k = m THEN "loading" ELSE status[k]
  BY <1>2 DEF IInv, Typed
<1>6. req[t] \in RequestsOf(req[t])
  BY DEF IInv, Typed
<1>7. PICK r : /\ req' = [req EXCEPT ![t] = r]
               /\ r \in RequestsOf(r) /\ r.pc # "join" /\ (r.pc # "idle" => r.m \in Models)
  <2>1. CASE Done(t)
    <3>1. NoRequest \in RequestsOf(NoRequest) /\ NoRequest.pc = "idle"
      BY DEF NoRequest, RequestsOf, Pcs
    <3> QED
      BY <2>1, <3>1, Zenon DEF Done
  <2>2. CASE Goto(t, "waitload")
    <3> DEFINE q == [req[t] EXCEPT !.pc = "waitload"]
    <3>1. req' = [req EXCEPT ![t] = q]
      BY <2>2 DEF Goto, IInv, Typed
    <3>2. q \in RequestsOf(q) /\ q.pc = "waitload" /\ q.m = m
      BY <1>6 DEF RequestsOf, Pcs
    <3> QED
      BY <1>1, <3>1, <3>2, ZenonT(40)
  <2> QED
    BY <2>1, <2>2 DEF LoadJoin, AfterLoad
<1>8. /\ DOMAIN req' = Threads /\ req' = [u \in Threads |-> req'[u]]
      /\ \A u \in Threads : req'[u] = IF u = t THEN r ELSE req[u]
  BY <1>7 DEF IInv, Typed
<1>9. Typed'
  <2>1. \A u \in Threads : req'[u] \in RequestsOf(req'[u])
    BY <1>7, <1>8 DEF IInv, Typed
  <2>2. status' \in [Models -> Statuses]
    BY <1>2, ZenonT(40) DEF IInv, Typed, Statuses
  <2> QED
    BY <1>1, <1>4, <1>8, <2>1, <2>2 DEF Typed, RequestsOf
<1>10. LockInv'
  BY <1>1, <1>7, <1>8, RouterAssumption DEF IInv, LockInv
<1>11. InstanceInv'
  <2>1. \A i \in Slots : InstanceOK(inst'[i])
    BY <1>1, <1>3, <1>4 DEF IInv, InstanceInv
  <2>2. ~ Over(inst[New])
    BY <1>1 DEF IInv, NewInv, Over
  <2>3. New \notin Models /\ \A k \in Models : k \in Slots
    BY RouterAssumption DEF Slots
  <2> QED
    BY <1>4, <1>5, <2>1, <2>2, <2>3, SMTT(30) DEF IInv, InstanceInv, IsRunning
<1>12. NewInv'
  BY <1>1, <1>3, <1>4 DEF NewInv
<1>13. CountInv'
  <2>1. Active' = Active \cup {m} /\ m \notin Active
    BY <1>1, <1>5 DEF Active, IsRunning
  <2>2. Cardinality(Active') = Cardinality(Active) + 1
    BY <2>1, ActiveFinite, FS_AddElement, Zenon
  <2> QED
    BY <1>1, <2>2, ActiveFinite, RouterAssumption, SMTT(30) DEF CountInv, HasCapacity
<1> QED
  BY <1>9, <1>10, <1>11, <1>12, <1>13, SMTT(30) DEF IInv

\* The arrival of a request.
LEMMA ArrivalOK == ASSUME IInv, NEW t \in Threads, Request(t) PROVE IInv'
<1>1. PICK q \in Requests[t] :
        req' = [req EXCEPT ![t] =
                 [NoRequest EXCEPT !.kind = q[1], !.m = q[2],
                    !.pc = CASE q[1] = "proxy"        -> "ensure"
                             [] q[1] = "proxy_loaded" -> "proxy"
                             [] q[1] = "load"         -> "lru"
                             [] OTHER                 -> "unload"]]
  BY Zenon DEF Request
<1>2. q[1] \in RequestKinds /\ q[2] \in Models
  <2>1. q \in RequestKinds \X Models
    BY <1>1, RouterAssumption
  <2> QED
    BY <2>1
<1>3. PICK pc \in Pcs \ {"join"} :
        req' = [req EXCEPT ![t] = [NoRequest EXCEPT !.kind = q[1], !.m = q[2], !.pc = pc]]
  <2>1. q[1] = "proxy" \/ q[1] = "proxy_loaded" \/ q[1] = "load" \/ q[1] = "unload"
    BY <1>2 DEF RequestKinds
  <2>2. \A p \in {"ensure", "proxy", "lru", "unload"} : p \in Pcs \ {"join"}
    BY DEF Pcs
  <2>3. (CASE q[1] = "proxy"        -> "ensure"
           [] q[1] = "proxy_loaded" -> "proxy"
           [] q[1] = "load"         -> "lru"
           [] OTHER                 -> "unload") \in {"ensure", "proxy", "lru", "unload"}
    BY <2>1
  <2> QED
    BY <1>1, <2>2, <2>3, ZenonT(40)
<1> DEFINE r == [NoRequest EXCEPT !.kind = q[1], !.m = q[2], !.pc = pc]
<1>4. NoRequest \in RequestsOf(NoRequest)
  BY DEF NoRequest, RequestsOf, Pcs
<1>5. r \in RequestsOf(r) /\ r.pc # "join" /\ r.m \in Models
  BY <1>2, <1>3, <1>4, ZenonT(40) DEF RequestsOf
<1> QED
  BY <1>3, <1>5, RequestOK, ZenonT(40) DEF Request, Unlocked

\* unload() changes no status and no process: "status change will be handled by the
\* managing thread".
LEMMA StopRequestedOK == ASSUME NEW m, StopRequested(m) PROVE inst' \in {inst, Notified(inst)}
BY DEF StopRequested

\* Every step of a request.
LEMMA HandleOK == ASSUME IInv, NEW t \in Threads, Handle(t) PROVE IInv'
<1>1. CASE Ensure(t)
  <2>1. PICK pc \in Pcs \ {"join"} : Goto(t, pc)
    BY <1>1 DEF Ensure, Pcs
  <2> QED
    BY <1>1, <2>1, GotoOK DEF Ensure, Unlocked
<1>2. CASE UnloadLru(t)
  <2>1. req[t] \in RequestsOf(req[t]) /\ req[t].m \in Models
    BY <1>2 DEF IInv, Typed, LockInv, UnloadLru
  <2>2. PICK v : \/ req' = [req EXCEPT ![t].pc = "evict", ![t].victim = v]
                 \/ Goto(t, "load")
    BY <1>2 DEF UnloadLru, Goto
  <2>3. CASE Goto(t, "load")
    BY <1>2, <2>3, GotoOK DEF UnloadLru, Unlocked, Pcs
  <2>4. CASE req' = [req EXCEPT ![t].pc = "evict", ![t].victim = v]
    <3> DEFINE r == [req[t] EXCEPT !.pc = "evict", !.victim = v]
    <3>1. req' = [req EXCEPT ![t] = r]
      BY <2>4, Zenon DEF IInv, Typed
    <3>2. r \in RequestsOf(r) /\ r.pc # "join" /\ r.m \in Models
      BY <2>1, ZenonT(40) DEF RequestsOf, Pcs
    <3> QED
      BY <1>2, <3>1, <3>2, RequestOK, Zenon DEF UnloadLru, Unlocked
  <2> QED
    BY <2>2, <2>3, <2>4
<1>3. CASE Evict(t)
  BY <1>3, GotoOK, StopRequestedOK DEF Evict, Unlocked, Pcs
<1>4. CASE WaitLru(t)
  <2> DEFINE r == [req[t] EXCEPT !.pc = "load", !.victim = None]
  <2>1. req[t] \in RequestsOf(req[t]) /\ req[t].m \in Models
    BY <1>4 DEF IInv, Typed, LockInv, WaitLru
  <2>2. req' = [req EXCEPT ![t] = r]
    BY <1>4, Zenon DEF WaitLru, IInv, Typed
  <2>3. r \in RequestsOf(r) /\ r.pc # "join" /\ r.m \in Models
    BY <2>1, ZenonT(40) DEF RequestsOf, Pcs
  <2> QED
    BY <1>4, <2>2, <2>3, RequestOK, Zenon DEF WaitLru, Unlocked
<1>5. CASE LoadNothing(t)
  BY <1>5, GotoOK DEF LoadNothing, AfterLoad, Unlocked, Pcs
<1>6. CASE LoadSpawn(t)
  BY <1>6, LoadSpawnOK
<1>7. CASE LoadJoin(t)
  BY <1>7, LoadJoinOK
<1>8. CASE WaitLoaded(t)
  BY <1>8, GotoOK DEF WaitLoaded, Unlocked, Pcs
<1>9. CASE Final(t)
  BY <1>9, GotoOK DEF Final, Unlocked, Pcs
<1>10. CASE Proxy(t)
  BY <1>10, GotoOK DEF Proxy, Unlocked, Pcs
<1>11. CASE ProxySend(t)
  BY <1>11, GotoOK DEF ProxySend, Unlocked, Pcs
<1>12. CASE Unload(t)
  BY <1>12, GotoOK, StopRequestedOK DEF Unload, Unlocked, Pcs
<1> QED
  BY <1>1, <1>2, <1>3, <1>4, <1>5, <1>6, <1>7, <1>8, <1>9, <1>10, <1>11, <1>12, SMTT(30) DEF Handle

-----------------------------------------------------------------------------
(* The invariant and the properties                                         *)

\* A step that leaves requests, statuses and the mutex alone and at most notifies cv_stop.
LEMMA QuietOK ==
  ASSUME IInv, lock' = lock, status' = status, req' = req,
         inst' = inst \/ (lock = None /\ inst' = Notified(inst))
  PROVE  IInv'
<1>1. Typed' /\ LockInv'
  BY NotifiedOK DEF IInv, Typed, LockInv, RequestsOf
<1>2. InstanceInv'
  BY NotifiedOK DEF IInv, InstanceInv, Slots, IsRunning
<1>3. NewInv'
  BY NotifiedOK DEF IInv, NewInv, Slots, IsRunning, HasCapacity, Active
<1> QED
  BY <1>1, <1>2, <1>3 DEF IInv, CountInv, Active, IsRunning

\* Every step of the router and of its children keeps the invariant.
LEMMA NextOK == IInv /\ [Next]_vars => IInv'
<1> SUFFICES ASSUME IInv, [Next]_vars PROVE IInv'
  OBVIOUS
<1>1. CASE UNCHANGED vars
  BY <1>1, QuietOK DEF vars
<1>2. CASE Tick
  BY <1>2, QuietOK DEF Tick
<1>3. ASSUME NEW t \in Threads, Request(t) PROVE IInv'
  BY <1>3, ArrivalOK
<1>4. ASSUME NEW t \in Threads, Handle(t) PROVE IInv'
  BY <1>4, HandleOK
<1>5. CASE Shutdown
  BY <1>5, QuietOK DEF Shutdown, Unlocked
<1>6. CASE Stopped
  BY <1>6, QuietOK DEF Stopped
<1>7. ASSUME NEW i \in Slots, ChildStep(i) PROVE IInv'
  BY <1>7, ChildOK
<1>8. ASSUME NEW i \in Slots, Manage(i) PROVE IInv'
  BY <1>8, ManageOK
<1>9. ASSUME NEW i \in Slots, Stop(i) PROVE IInv'
  BY <1>9, StopOK
<1> QED
  BY <1>1, <1>2, <1>3, <1>4, <1>5, <1>6, <1>7, <1>8, <1>9 DEF Next, ChildStep

\* The invariant holds in every reachable state.
LEMMA AlwaysIInv == Spec => []IInv
BY InitOK, NextOK, PTL DEF Spec

\* The status of a model never lies about its process and its managing thread, however
\* requests, crashes, kills and reloads interleave (update_status of server_models).
THEOREM StatusAlwaysTracks == Spec => []StatusTracksInstance
<1>1. IInv => StatusTracksInstance
  BY DEF IInv, InstanceInv, InstanceOK, Over, StatusTracksInstance, Slots
<1> QED
  BY <1>1, AlwaysIInv, PTL

\* subprocess_terminate is never called for a child that was already waited for.
THEOREM OnlyOwnChildKilled == Spec => []KillsOwnChild
<1>1. IInv => KillsOwnChild
  BY DEF IInv, InstanceInv, InstanceOK, KillsOwnChild
<1> QED
  BY <1>1, AlwaysIInv, PTL

\* With the re-check in load(), no more than models_max children exist at a time, for any
\* number of concurrent loads.
THEOREM NeverOverModelsMax == Spec => []AtMostModelsMax
<1>1. ASSUME IInv PROVE AtMostModelsMax
  <2> DEFINE A == {i \in Slots : Alive(inst[i])}
  <2> SUFFICES ASSUME ModelsMax > 0 PROVE Cardinality(A) <= ModelsMax
    BY DEF AtMostModelsMax
  <2>1. A \subseteq Active \cup {New}
    BY <1>1 DEF IInv, InstanceInv, InstanceOK, Alive, Active, Slots
  <2>2. CASE lock = None
    <3>1. New \notin A
      BY <1>1, <2>2 DEF IInv, NewInv, InstanceInv, InstanceOK, Alive, Slots
    <3>2. A \subseteq Active
      BY <2>1, <3>1
    <3>3. Cardinality(A) <= Cardinality(Active) /\ Cardinality(A) \in Nat
      BY <3>2, ActiveFinite, FS_Subset, FS_CardinalityType
    <3> QED
      BY <1>1, <3>3, ActiveFinite, RouterAssumption DEF IInv, CountInv
  <2>3. CASE lock # None
    <3>1. New \notin Active
      BY RouterAssumption DEF Active
    <3>2. /\ IsFiniteSet(Active \cup {New})
          /\ Cardinality(Active \cup {New}) = Cardinality(Active) + 1
      BY <3>1, ActiveFinite, FS_AddElement
    <3>3. Cardinality(A) <= Cardinality(Active) + 1 /\ Cardinality(A) \in Nat
      BY <2>1, <3>2, FS_Subset, FS_CardinalityType
    <3>4. Cardinality(Active) < ModelsMax
      BY <1>1, <2>3 DEF IInv, NewInv, HasCapacity
    <3> QED
      BY <3>3, <3>4, ActiveFinite, RouterAssumption
  <2> QED
    BY <2>2, <2>3
<1> QED
  BY <1>1, AlwaysIInv, PTL

\* The managing thread that load() joins with the mutex held is past its last critical
\* section.
JoinNeedsNoLock == \A t \in Threads : lock = t => inst[req[t].m].mon \in {"end", "gone"}

\* load() cannot deadlock with the thread it joins ("moving the thread to join list to
\* avoid deadlock" is what unload_all has to do instead).
THEOREM JoinNeverDeadlocks == Spec => []JoinNeedsNoLock
<1>1. IInv => JoinNeedsNoLock
  BY RouterAssumption DEF IInv, LockInv, InstanceInv, NewInv, Over, JoinNeedsNoLock
<1> QED
  BY <1>1, AlwaysIInv, PTL
==============================================================================
