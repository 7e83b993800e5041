----------------------------- MODULE EngineShutdown -----------------------------
(***************************************************************************)
(* The engines of one plugin: a prototype and the clones made of it, the   *)
(* background work they start, and the plugin's unload, which must leave   *)
(* nothing of it behind (_EngineShutdownGroup, clone_for_agent, shutdown   *)
(* and the scheduling of maintenance and extraction in src/engine.py).     *)
(* Threads: the host's thread of each engine, another thread of the host   *)
(* that makes the engine schedule work, the scheduler's worker, extraction *)
(* workers, drain waiters and the thread that unloads the plugin.          *)
(***************************************************************************)
EXTENDS RollupScheduler

CONSTANTS Prototype,  \* the engine that exists when the plugin is loaded
          Unload,     \* the unloading thread
          Nobody,     \* no thread holds the lock
          Extraction, \* assertion_extraction_enabled
          Working,    \* the engines that schedule work: a bound
          MaxGen      \* bound on the schedules counted by one record

ASSUME EngineAssumption == /\ Prototype \in Owners
                           /\ Unload \notin Owners
                           /\ Nobody \notin Owners \cup {Unload}
                           /\ Working \subseteq Owners
                           /\ Extraction \in BOOLEAN
                           /\ MaxGen \in Nat \ {0}

Engines == Owners           \* every engine has one _rollup_maintenance_owner
Threads == Engines \cup {Unload}

VARIABLES closed,     \* group._closed
          clones,     \* engines counted in _clones_in_flight
          engines,    \* group._engines
          records,    \* group._background_work: generation, 0 when absent
          caller,     \* where the thread that schedules for an engine is
          stopping,   \* _background_shutdown_started
          complete,   \* _primary_shutdown_complete
          storage,    \* unbound, open or closed
          binder,     \* a first use of the storage has passed its check
          idle,       \* _assertion_extraction_idle
          host,       \* the life of an engine as its host's thread sees it
          lock,       \* who holds _shutdown_lock of an engine
          op,         \* the shutdown() a thread is in
          drain,      \* the _drain_background() a thread is in
          unload,     \* where shutdown_all() is
          todo,       \* engines it has still to shut down
          work        \* records it has still to drain

groupVars == <<closed, clones, engines, records, caller, stopping, complete,
               storage, binder, idle, host, lock, op, drain, unload, todo, work>>
vars == <<schedVars, groupVars>>

NoOp    == [pc |-> "no", e |-> Prototype, wait |-> FALSE]
NoDrain == [pc |-> "no", e |-> Prototype, gen |-> 0]

Init == /\ SchedInit
        /\ closed = FALSE
        /\ clones = {}
        /\ engines = {Prototype}
        /\ records = [e \in Engines |-> 0]
        /\ caller = [e \in Engines |-> "away"]
        /\ stopping = [e \in Engines |-> FALSE]
        /\ complete = [e \in Engines |-> FALSE]
        /\ storage = [e \in Engines |-> IF e = Prototype THEN "open" ELSE "unbound"]
        /\ binder = [e \in Engines |-> FALSE]
        /\ idle = [e \in Engines |-> TRUE]
        /\ host = [e \in Engines |-> IF e = Prototype THEN "live" ELSE "absent"]
        /\ lock = [e \in Engines |-> Nobody]
        /\ op = [t \in Threads |-> NoOp]
        /\ drain = [t \in Threads |-> NoDrain]
        /\ unload = "no"
        /\ todo = {}
        /\ work = {}
-----------------------------------------------------------------------------
(* Scheduling.  A reservation at the group and one at the engine make a    *)
(* shutdown wait until the accepted work is on record.                     *)

Counted(e)  == caller[e] # "away"                     \* the group's counter
InFlight(e) == caller[e] \in {"in", "accepted", "out"}  \* the engine's

Call(e, from, to) == /\ caller[e] = from
                     /\ caller' = [caller EXCEPT ![e] = to]

BeginSchedule(e) ==
  /\ e \in Working
  /\ host[e] = "live"
  /\ ~closed
  /\ records[e] < MaxGen
  /\ Call(e, "away", "reserved")
  /\ UNCHANGED <<schedVars, closed, clones, engines, records, stopping, complete,
                 storage, binder, idle, host, lock, op, drain, unload, todo, work>>

EnterScheduleLeaking(e) ==
  /\ Call(e, "reserved", IF stopping[e] THEN "counted forever" ELSE "in")
  /\ UNCHANGED <<schedVars, closed, clones, engines, records, stopping, complete,
                 storage, binder, idle, host, lock, op, drain, unload, todo, work>>

EnterSchedule(e) ==
  /\ Call(e, "reserved", IF stopping[e] THEN "away" ELSE "in")
  /\ UNCHANGED <<schedVars, closed, clones, engines, records, stopping, complete,
                 storage, binder, idle, host, lock, op, drain, unload, todo, work>>

(* _schedule_rollup_maintenance_active reads self._dag, which binds the    *)
(* storage of an unused clone, and asks the scheduler.                     *)
SubmitRollup(e) ==
  \E k \in Keys :
    /\ Schedule(k, e)
    /\ Call(e, "in", IF Accepts(k) THEN "accepted" ELSE "out")
    /\ storage' = [storage EXCEPT ![e] = IF @ = "unbound" THEN "open" ELSE @]
    /\ UNCHANGED <<closed, clones, engines, records, stopping, complete,
                   binder, idle, host, lock, op, drain, unload, todo, work>>

(* _ASSERTION_EXTRACTION_PROCESS_SLOT is one for the process: the batch is *)
(* skipped while another engine's runs, and undone when its thread cannot  *)
(* start.                                                                  *)
SlotFree == \A e \in Engines : idle[e]

StartExtraction(e) ==
  /\ Extraction /\ SlotFree
  /\ Call(e, "in", "accepted")
  /\ idle' = [idle EXCEPT ![e] = FALSE]
  /\ storage' = [storage EXCEPT ![e] = IF @ = "unbound" THEN "open" ELSE @]
  /\ UNCHANGED <<schedVars, closed, clones, engines, records, stopping, complete,
                 binder, host, lock, op, drain, unload, todo, work>>

SkipExtraction(e) ==
  /\ Call(e, "in", "out")
  /\ UNCHANGED <<schedVars, closed, clones, engines, records, stopping, complete,
                 storage, binder, idle, host, lock, op, drain, unload, todo, work>>

ExtractionEnds(e) ==
  /\ ~idle[e]
  /\ idle' = [idle EXCEPT ![e] = TRUE]
  /\ UNCHANGED <<schedVars, closed, clones, engines, records, caller, stopping,
                 complete, storage, binder, host, lock, op, drain, unload, todo, work>>

(* track_background: a new record gets a waiter thread, which may fail to  *)
(* start; the record then waits for the unload.                            *)
TrackNothing(e) == UNCHANGED <<records, drain>>

Track(e) ==
  /\ records' = [records EXCEPT ![e] = @ + 1]
  /\ \/ records[e] = 0 /\ drain[e].pc = "no"
        /\ drain' = [drain EXCEPT ![e] = [pc |-> "read", e |-> e, gen |-> 0]]
     \/ UNCHANGED drain

TrackAccepted(e) ==
  /\ Call(e, "accepted", "out")
  /\ Track(e)
  /\ UNCHANGED <<schedVars, closed, clones, engines, stopping, complete, storage,
                 binder, idle, host, lock, op, unload, todo, work>>

(* The engine's count goes down first, the group's after it.               *)
LeaveSchedule(e) ==
  /\ \/ Call(e, "out", "counted")
     \/ Call(e, "counted", "away")
  /\ UNCHANGED <<schedVars, closed, clones, engines, records, stopping, complete,
                 storage, binder, idle, host, lock, op, drain, unload, todo, work>>
-----------------------------------------------------------------------------
(* _drain_background, run by a waiter thread or by the unload.             *)

Quiet(e) == Drained(e) /\ idle[e]

Draining(t, from, to) == /\ drain[t].pc = from
                         /\ drain' = [drain EXCEPT ![t].pc = to]

ReadGeneration(t) ==
  /\ drain[t].pc = "read"
  /\ LET e == drain[t].e IN
       drain' = [drain EXCEPT ![t] =
                   IF records[e] = 0 THEN NoDrain
                   ELSE [pc |-> "rollups", e |-> e, gen |-> records[e]]]
  /\ UNCHANGED records

AwaitRollups(t) == /\ Draining(t, "rollups", "extraction")
                   /\ Drained(drain[t].e)
                   /\ UNCHANGED records

AwaitExtraction(t) == /\ Draining(t, "extraction", "check")
                      /\ idle[drain[t].e]
                      /\ UNCHANGED records

Recheck(t) ==
  /\ drain[t].pc = "check"
  /\ LET e == drain[t].e IN
       IF records[e] = drain[t].gen /\ Quiet(e)
       THEN /\ drain' = [drain EXCEPT ![t] = NoDrain]
            /\ records' = [records EXCEPT ![e] = 0]
       ELSE /\ drain' = [drain EXCEPT ![t].pc = "read"]
            /\ UNCHANGED records

DrainStep(t) ==
  /\ ReadGeneration(t) \/ AwaitRollups(t) \/ AwaitExtraction(t) \/ Recheck(t)
  /\ UNCHANGED <<schedVars, closed, clones, engines, caller, stopping, complete,
                 storage, binder, idle, host, lock, op, unload, todo, work>>
-----------------------------------------------------------------------------
(* shutdown(wait_for_background_work) by thread t.                         *)

Op(t, from, to) == /\ op[t].pc = from
                   /\ op' = [op EXCEPT ![t].pc = to]

LockFree(e) == lock[e] = Nobody

(* The lock is taken and new schedules are refused before anything waits.  *)
Lock(t) ==
  /\ LockFree(op[t].e)
  /\ lock' = [lock EXCEPT ![op[t].e] = t]
  /\ stopping' = [stopping EXCEPT ![op[t].e] = TRUE]
  /\ Op(t, "lock", "settle")
  /\ UNCHANGED <<schedVars, closed, clones, engines, records, caller, complete,
                 storage, binder, idle, host, drain, unload, todo, work>>

SettledAnyway(e) == TRUE
Settled(e) == ~InFlight(e)

Settle(t) ==
  /\ Settled(op[t].e)
  /\ Op(t, "settle", IF op[t].wait THEN "work" ELSE "close")
  /\ UNCHANGED <<schedVars, closed, clones, engines, records, caller, stopping,
                 complete, storage, binder, idle, host, lock, drain, unload, todo, work>>

AwaitWork(t) ==
  /\ Quiet(op[t].e)
  /\ Op(t, "work", "close")
  /\ UNCHANGED <<schedVars, closed, clones, engines, records, caller, stopping,
                 complete, storage, binder, idle, host, lock, drain, unload, todo, work>>

Close(t) ==
  /\ Op(t, "close", IF op[t].wait THEN "discard" ELSE "retire")
  /\ LET e == op[t].e IN
       /\ complete' = [complete EXCEPT ![e] = TRUE]
       /\ storage' = [storage EXCEPT ![e] = IF complete[e] THEN @ ELSE "closed"]
  /\ UNCHANGED <<schedVars, closed, clones, engines, records, caller, stopping,
                 binder, idle, host, lock, drain, unload, todo, work>>

(* retire(): work that is left over is on record before the engine goes.   *)
Retire(t) ==
  /\ Op(t, "retire", "discard")
  /\ LET e == op[t].e IN
       IF Quiet(e) \/ records[e] = MaxGen THEN UNCHANGED <<records, drain>>
                                           ELSE Track(e)
  /\ UNCHANGED <<schedVars, closed, clones, engines, caller, stopping, complete,
                 storage, binder, idle, host, lock, unload, todo, work>>

Released(t, e) == IF t = e THEN clones \ {e} ELSE clones

Discard(t) ==
  /\ op[t].pc = "discard"
  /\ op' = [op EXCEPT ![t] = NoOp]
  /\ LET e == op[t].e IN
       /\ engines' = engines \ {e}
       /\ lock' = [lock EXCEPT ![e] = Nobody]
       /\ clones' = Released(t, e)
       /\ host' = IF t = e THEN [host EXCEPT ![e] = "gone"] ELSE host
  /\ UNCHANGED <<schedVars, closed, records, caller, stopping, complete, storage,
                 binder, idle, drain, unload, todo, work>>

ShutdownStep(t) == Lock(t) \/ Settle(t) \/ AwaitWork(t)
                     \/ Close(t) \/ Retire(t) \/ Discard(t)
-----------------------------------------------------------------------------
(* The host makes, uses and drops engines.                                 *)

BeginClone(e) ==
  /\ host[e] = "absent"
  /\ host[Prototype] = "live"
  /\ ~closed
  /\ clones' = clones \cup {e}
  /\ host' = [host EXCEPT ![e] = "building"]
  /\ UNCHANGED <<schedVars, closed, engines, records, caller, stopping, complete,
                 storage, binder, idle, lock, op, drain, unload, todo, work>>

(* A clone that is ready after the gate closed, or failed half-way, is     *)
(* shut down while its reservation still holds the unload back.            *)
CompleteClone(e) ==
  /\ host[e] = "building"
  /\ \/ /\ ~closed
        /\ engines' = engines \cup {e}
        /\ clones' = clones \ {e}
        /\ host' = [host EXCEPT ![e] = "live"]
        /\ UNCHANGED op
     \/ /\ host' = [host EXCEPT ![e] = "closing"]
        /\ op' = [op EXCEPT ![e] = [pc |-> "lock", e |-> e, wait |-> TRUE]]
        /\ UNCHANGED <<engines, clones>>
  /\ UNCHANGED <<schedVars, closed, records, caller, stopping, complete, storage,
                 binder, idle, lock, drain, unload, todo, work>>

(* __getattribute__ finds the storage unbound and not shut down ...        *)
BeginUse(e) ==
  /\ host[e] = "live" /\ ~binder[e]
  /\ storage[e] = "unbound" /\ ~complete[e]
  /\ binder' = [binder EXCEPT ![e] = TRUE]
  /\ UNCHANGED <<schedVars, closed, clones, engines, records, caller, stopping,
                 complete, storage, idle, host, lock, op, drain, unload, todo, work>>

(* ... and _ensure_storage binds it under the storage lock.                *)
Bind(e) ==
  /\ binder[e]
  /\ binder' = [binder EXCEPT ![e] = FALSE]
  /\ storage' = [storage EXCEPT ![e] = "open"]
  /\ UNCHANGED <<schedVars, closed, clones, engines, records, caller, stopping,
                 complete, idle, host, lock, op, drain, unload, todo, work>>

(* A cached agent is evicted: its engine's shutdown does not wait.         *)
Evict(e) ==
  /\ host[e] = "live"
  /\ host' = [host EXCEPT ![e] = "closing"]
  /\ op' = [op EXCEPT ![e] = [pc |-> "lock", e |-> e, wait |-> FALSE]]
  /\ UNCHANGED <<schedVars, closed, clones, engines, records, caller, stopping,
                 complete, storage, binder, idle, lock, drain, unload, todo, work>>

(* A host that drops an engine without a shutdown: the group holds it      *)
(* weakly, and its connections close with it.                              *)
Drop(e) ==
  /\ host[e] = "live" /\ e # Prototype
  /\ caller[e] = "away" /\ ~binder[e] /\ e \notin todo
  /\ \A t \in Threads : op[t].pc # "no" => op[t].e # e
  /\ host' = [host EXCEPT ![e] = "gone"]
  /\ engines' = engines \ {e}
  /\ storage' = [storage EXCEPT ![e] = "closed"]
  /\ UNCHANGED <<schedVars, closed, clones, records, caller, stopping, complete,
                 binder, idle, lock, op, drain, unload, todo, work>>
-----------------------------------------------------------------------------
(* shutdown_all().                                                         *)

CloseGate ==
  /\ unload = "no"
  /\ unload' = "gate"
  /\ closed' = TRUE
  /\ UNCHANGED <<schedVars, clones, engines, records, caller, stopping, complete,
                 storage, binder, idle, host, lock, op, drain, todo, work>>

GateClearOfClones == clones = {}
GateClear == clones = {} /\ \A e \in Engines : ~Counted(e)

Snapshot ==
  /\ unload = "gate" /\ GateClear
  /\ unload' = "engines"
  /\ todo' = engines
  /\ UNCHANGED <<schedVars, closed, clones, engines, records, caller, stopping,
                 complete, storage, binder, idle, host, lock, op, drain, work>>

ShutdownNext ==
  /\ unload = "engines" /\ op[Unload].pc = "no"
  /\ \E e \in todo :
       /\ todo' = todo \ {e}
       /\ op' = [op EXCEPT ![Unload] = [pc |-> "lock", e |-> e, wait |-> TRUE]]
  /\ UNCHANGED <<schedVars, closed, clones, engines, records, caller, stopping,
                 complete, storage, binder, idle, host, lock, drain, unload, work>>

ListRecords ==
  /\ unload = "engines" /\ todo = {} /\ op[Unload].pc = "no"
  /\ unload' = "records"
  /\ work' = {e \in Engines : records[e] > 0}
  /\ UNCHANGED <<schedVars, closed, clones, engines, records, caller, stopping,
                 complete, storage, binder, idle, host, lock, op, drain, todo>>

DrainNext ==
  /\ unload = "records" /\ drain[Unload].pc = "no"
  /\ \E e \in work :
       /\ work' = work \ {e}
       /\ drain' = [drain EXCEPT ![Unload] = [pc |-> "read", e |-> e, gen |-> 0]]
  /\ UNCHANGED <<schedVars, closed, clones, engines, records, caller, stopping,
                 complete, storage, binder, idle, host, lock, op, unload, todo>>

Unloaded ==
  /\ unload = "records" /\ work = {} /\ drain[Unload].pc = "no"
  /\ unload' = "done"
  /\ UNCHANGED <<schedVars, closed, clones, engines, records, caller, stopping,
                 complete, storage, binder, idle, host, lock, op, drain, todo, work>>

UnloadStep == Snapshot \/ ShutdownNext \/ ListRecords \/ DrainNext \/ Unloaded
-----------------------------------------------------------------------------
CallerStep(e) == EnterSchedule(e) \/ SubmitRollup(e) \/ StartExtraction(e)
                   \/ SkipExtraction(e) \/ TrackAccepted(e) \/ LeaveSchedule(e)

HostStep(e) == BeginSchedule(e) \/ BeginClone(e) \/ BeginUse(e) \/ Evict(e)
                 \/ Drop(e)

WorkerStep == Worker /\ UNCHANGED groupVars

Next == \/ \E e \in Engines : \/ HostStep(e) \/ CallerStep(e) \/ Bind(e)
                              \/ CompleteClone(e) \/ ExtractionEnds(e)
        \/ \E t \in Threads : ShutdownStep(t) \/ DrainStep(t)
        \/ WorkerStep
        \/ CloseGate
        \/ UnloadStep

Spec == Init /\ [][Next]_vars

(* Passes and extractions are bounded work, and a thread that is not       *)
(* waiting runs.                                                           *)
Fairness == /\ WF_vars(WorkerStep)
            /\ WF_vars(UnloadStep)
            /\ \A e \in Engines : /\ WF_vars(CallerStep(e))
                                  /\ WF_vars(CompleteClone(e))
                                  /\ WF_vars(ExtractionEnds(e))
            /\ \A t \in Threads : WF_vars(ShutdownStep(t)) /\ WF_vars(DrainStep(t))

FairSpec == Spec /\ Fairness
-----------------------------------------------------------------------------
(* Work that the scheduler or an extraction thread accepted for an engine  *)
(* is on record, or the call that started it still holds the gate: no      *)
(* eviction or drop of the engine, and no drain that ends, hides it from   *)
(* the unload.                                                             *)
HasWork(e) == (\E p \in owed : p[1] = e) \/ ~idle[e]

WorkIsSeen == \A e \in Engines :
                HasWork(e) => records[e] > 0 \/ caller[e] = "accepted"

(* After shutdown_all() no pass, extraction or schedule of the group is    *)
(* left, and no engine is usable.                                          *)
UnloadIsQuiet == unload = "done" =>
                   /\ owed = {}
                   /\ \A e \in Engines : /\ idle[e]
                                         /\ caller[e] = "away"
                                         /\ host[e] = "live" => complete[e]
                                         /\ host[e] # "building"

(* A schedule in progress finds its engine's storage open.                 *)
SchedulesOnOpenStore == \A e \in Engines :
                          caller[e] = "in" => storage[e] # "closed"

(* The unload ends, whatever the engines were doing, and so does every     *)
(* wait for leftover work.                                                 *)
WaitsEnd == /\ unload = "gate" ~> unload = "done"
            /\ \A e \in Engines : drain[e].pc # "no" ~> drain[e].pc = "no"
=============================================================================
