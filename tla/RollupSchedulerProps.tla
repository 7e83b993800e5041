-------------------------- MODULE RollupSchedulerProps --------------------------
EXTENDS RollupScheduler

(* Types: at most one key runs, the slot belongs to it, and the set of     *)
(* queued keys and the queue agree: a key leaves both together.            *)
SchedTypeOK ==
    /\ jobs \in Seq(Keys)
    /\ queuedKeys = {jobs[i] : i \in DOMAIN jobs}
    /\ \A i, j \in DOMAIN jobs : jobs[i] = jobs[j] => i = j
    /\ active \subseteq Keys /\ \A k, l \in active : k = l
    /\ followUp \subseteq active
    /\ runningFollowUp \in BOOLEAN
    /\ exclusive \subseteq Keys
    /\ tracked \subseteq Owners \X Keys
    /\ owed \subseteq Owners \X Keys

(* A request that schedule() accepted is served by a pass that begins      *)
(* later: until then its key waits in the queue or in the slot, also when  *)
(* it came while an older pass of the key was running.                     *)
AcceptedIsKept == unserved \subseteq queuedKeys \cup followUp

(* An operator's rebuild never runs beside a background pass of its key.   *)
RebuildsAlone == exclusive \cap (queuedKeys \cup active \cup followUp) = {}

(* drain_owner() answers only when every pass that serves a request of the *)
(* owner has ended, requests that joined another owner's included.         *)
DrainedIsDone == \A o \in Owners :
                   Drained(o) => \A p \in owed : p[1] # o

(* No owner waits for a key that nothing will finish: a tracked key is     *)
(* queued or running.                                                      *)
TrackedIsBusy == \A p \in tracked : p[2] \in queuedKeys \cup active

(* Every accepted request is served, however often the key that runs is    *)
(* requested again: a rerun is not rerun ahead of the queue.               *)
EveryRequestRuns == \A k \in Keys : k \in unserved ~> k \notin unserved
=============================================================================
