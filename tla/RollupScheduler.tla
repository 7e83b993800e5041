---------------------------- MODULE RollupScheduler ----------------------------
(***************************************************************************)
(* _RollupMaintenanceScheduler of src/engine.py: one process-wide worker   *)
(* thread behind a condition, a bounded queue of deduplicated keys, one    *)
(* slot for the rerun of the running key, and leases that let an operator  *)
(* rebuild a key in the foreground.  Every action is one critical section  *)
(* of the condition; the pass itself runs between Take and Finish.         *)
(***************************************************************************)
EXTENDS Naturals, Sequences, FiniteSets

CONSTANTS Keys,        \* pairs of a database and a session scope
          Owners,      \* the _rollup_maintenance_owner object of each engine
          MaxJobs   \* max_pending_jobs

ASSUME PendingAssumption == MaxJobs \in Nat \ {0}

VARIABLES jobs,             \* _jobs, a deque of keys
          queuedKeys,       \* _queued_keys
          active,           \* _active_keys
          followUp,         \* _follow_up_key: empty or one key
          runningFollowUp,  \* _running_follow_up
          exclusive,        \* _exclusive_keys
          tracked,          \* _owned_keys and its inverse _key_owners
          unserved,         \* history: keys accepted since their last pass began
          owed              \* history: <<owner, key>> accepted, pass not ended

schedVars == <<jobs, queuedKeys, active, followUp, runningFollowUp, exclusive,
               tracked, unserved, owed>>

SchedInit == /\ jobs = <<>>
             /\ runningFollowUp = FALSE
             /\ queuedKeys = {} /\ active = {} /\ followUp = {} /\ exclusive = {}
             /\ tracked = {} /\ unserved = {} /\ owed = {}
-----------------------------------------------------------------------------
(* The four ways schedule() goes, in the order it tests them.              *)

Busy == queuedKeys \cup active \cup exclusive \cup followUp

Refused(k) == k \in exclusive
Joins(k)   == k \notin exclusive /\ k \in queuedKeys
RerunsAlways(k) == k \notin exclusive \cup queuedKeys /\ k \in active
Reruns(k)  == k \notin exclusive \cup queuedKeys /\ k \in active /\ ~runningFollowUp
Enters(k)  == /\ k \notin exclusive \cup queuedKeys
              /\ ~Reruns(k)
              /\ Len(jobs) < MaxJobs

Accepts(k) == Joins(k) \/ Reruns(k) \/ Enters(k)

Accept(k, o) == /\ tracked'  = tracked \cup {<<o, k>>}
                /\ unserved' = unserved \cup {k}
                /\ owed'     = owed \cup {<<o, k>>}

JoinUntracked(k, o) == /\ Joins(k)
                       /\ unserved' = unserved \cup {k}
                       /\ owed' = owed \cup {<<o, k>>}
                       /\ UNCHANGED <<tracked, jobs, queuedKeys, active, followUp,
                                      runningFollowUp, exclusive>>

(* A key that waits in the queue gets no second entry.                     *)
Join(k, o) == /\ Joins(k)
              /\ Accept(k, o)
              /\ UNCHANGED <<jobs, queuedKeys, active, followUp, runningFollowUp,
                             exclusive>>

RerunIgnored(k, o) == Reruns(k) /\ Accept(k, o)
                      /\ UNCHANGED <<jobs, queuedKeys, active, followUp,
                                     runningFollowUp, exclusive>>

(* A key that runs takes the follow-up slot, whatever was in it.           *)
Rerun(k, o) == /\ Reruns(k)
               /\ followUp' = {k}
               /\ Accept(k, o)
               /\ UNCHANGED <<jobs, queuedKeys, active, runningFollowUp, exclusive>>

(* Any other key goes to the end of the queue when there is room.          *)
Enter(k, o) == /\ Enters(k)
               /\ jobs' = Append(jobs, k)
               /\ queuedKeys' = queuedKeys \cup {k}
               /\ Accept(k, o)
               /\ UNCHANGED <<active, followUp, runningFollowUp, exclusive>>

(* The operator's lease is refused and the queue's limit is a refusal.     *)
Refuse(k) == ~Accepts(k) /\ UNCHANGED schedVars

Schedule(k, o) == Join(k, o) \/ Rerun(k, o) \/ Enter(k, o) \/ Refuse(k)

LeasableUnlessActive(k) == k \notin active \cup exclusive
Leasable(k) == k \notin Busy /\ Cardinality(exclusive) < MaxJobs

AcquireExclusive(k) == /\ Leasable(k)
                       /\ exclusive' = exclusive \cup {k}
                       /\ UNCHANGED <<jobs, queuedKeys, active, followUp,
                                      runningFollowUp, tracked, unserved, owed>>

ReleaseExclusive(k) == /\ k \in exclusive
                       /\ exclusive' = exclusive \ {k}
                       /\ UNCHANGED <<jobs, queuedKeys, active, followUp,
                                      runningFollowUp, tracked, unserved, owed>>
-----------------------------------------------------------------------------
(* The worker.                                                             *)

Take == /\ active = {}
        /\ jobs # <<>>
        /\ jobs' = Tail(jobs)
        /\ queuedKeys' = queuedKeys \ {Head(jobs)}
        /\ active' = {Head(jobs)}
        /\ runningFollowUp' = FALSE
        /\ unserved' = unserved \ {Head(jobs)}
        /\ UNCHANGED <<followUp, exclusive, tracked, owed>>

(* The running pass ends, well or badly, and the slot holds its key: the   *)
(* rerun starts at once, ahead of the queue.  What the ended pass served   *)
(* was accepted before it began.                                           *)
FinishIntoFollowUp ==
  \E k \in active :
    /\ followUp = {k}
    /\ followUp' = {}
    /\ runningFollowUp' = TRUE
    /\ unserved' = unserved \ {k}
    /\ UNCHANGED <<jobs, queuedKeys, active, exclusive, tracked, owed>>

(* _release_key_owners_if_idle_locked: owners let go of an idle key only.  *)
Releases(k) == k \notin queuedKeys \cup exclusive \cup followUp

Finish ==
  \E k \in active :
    /\ followUp # {k}
    /\ active' = active \ {k}
    /\ runningFollowUp' = FALSE
    /\ tracked' = IF Releases(k)
                  THEN {p \in tracked : p[2] # k} ELSE tracked
    /\ owed' = IF k \in unserved
               THEN owed ELSE {p \in owed : p[2] # k}
    /\ UNCHANGED <<jobs, queuedKeys, followUp, exclusive, unserved>>

Worker == Take \/ FinishIntoFollowUp \/ Finish

(* drain_owner: nothing accepted for the owner is outstanding.             *)
Drained(o) == \A p \in tracked : p[1] # o

SchedNext == \/ \E k \in Keys, o \in Owners : Schedule(k, o)
             \/ \E k \in Keys : AcquireExclusive(k) \/ ReleaseExclusive(k)
             \/ Worker

SchedSpec == SchedInit /\ [][SchedNext]_schedVars

(* A pass is bounded work with provider timeouts: the worker goes on.      *)
FairSchedSpec == SchedSpec /\ WF_schedVars(Worker)
=============================================================================
