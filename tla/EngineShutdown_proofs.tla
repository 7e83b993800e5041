----------------------- MODULE EngineShutdown_proofs ------------------------
(***************************************************************************)
(* The safety of the scheduler for any keys, owners and queue limit, and of *)
(* the shutdown for any engines.                                           *)
(***************************************************************************)
EXTENDS EngineShutdown, RollupSchedulerProps, SequenceTheorems, TLAPS

-----------------------------------------------------------------------------
(***************************************************************************)
(* The scheduler                                                           *)
(***************************************************************************)
USE PendingAssumption

(* What a drained owner can be sure of needs this: everything owed is      *)
(* tracked.  The rest of the invariant are the properties themselves.      *)
OwedIsTracked == owed \subseteq tracked

SchedulerInv == /\ SchedTypeOK
                /\ AcceptedIsKept
                /\ RebuildsAlone
                /\ TrackedIsBusy
                /\ OwedIsTracked

-----------------------------------------------------------------------------
(* The keys of a queue after a put and after a take.                       *)
LEMMA KeysOfAppend ==
    ASSUME NEW s \in Seq(Keys), NEW k \in Keys
    PROVE  /\ Append(s, k) \in Seq(Keys)
           /\ {Append(s, k)[i] : i \in DOMAIN Append(s, k)}
                = {s[i] : i \in DOMAIN s} \cup {k}
<1>1. /\ Append(s, k) \in Seq(Keys)
      /\ Len(Append(s, k)) = Len(s) + 1
      /\ \A i \in 1 .. Len(s) : Append(s, k)[i] = s[i]
      /\ Append(s, k)[Len(s) + 1] = k
      /\ Len(s) \in Nat
      /\ DOMAIN s = 1 .. Len(s)
      /\ DOMAIN Append(s, k) = 1 .. Len(s) + 1
  BY AppendProperties, LenProperties
<1> QED  BY <1>1

LEMMA KeysOfTail ==
    ASSUME NEW s \in Seq(Keys), s # <<>>,
           \A i, j \in DOMAIN s : s[i] = s[j] => i = j
    PROVE  /\ Tail(s) \in Seq(Keys)
           /\ Head(s) \in Keys
           /\ {Tail(s)[i] : i \in DOMAIN Tail(s)}
                = {s[i] : i \in DOMAIN s} \ {Head(s)}
           /\ \A i, j \in DOMAIN Tail(s) : Tail(s)[i] = Tail(s)[j] => i = j
<1>1. /\ Len(s) \in Nat \ {0}
      /\ DOMAIN s = 1 .. Len(s)
      /\ Head(s) = s[1]
      /\ Head(s) \in Keys
      /\ Tail(s) \in Seq(Keys)
      /\ Len(Tail(s)) = Len(s) - 1
      /\ \A i \in 1 .. Len(Tail(s)) : Tail(s)[i] = s[i + 1]
      /\ DOMAIN Tail(s) = 1 .. Len(s) - 1
  BY HeadTailProperties, LenProperties, EmptySeq
<1>2. \A i \in DOMAIN Tail(s) : i + 1 \in DOMAIN s /\ Tail(s)[i] = s[i + 1]
  BY <1>1
<1>3. \A i \in DOMAIN s : i # 1 => i - 1 \in DOMAIN Tail(s) /\ Tail(s)[i - 1] = s[i]
  BY <1>1
<1>4. {Tail(s)[i] : i \in DOMAIN Tail(s)} = {s[i] : i \in DOMAIN s} \ {Head(s)}
  <2>1. ASSUME NEW i \in DOMAIN Tail(s)
        PROVE  Tail(s)[i] \in {s[j] : j \in DOMAIN s} \ {Head(s)}
    <3>1. i + 1 # 1 /\ 1 \in DOMAIN s  BY <1>1
    <3> QED  BY <1>1, <1>2, <3>1
  <2>2. ASSUME NEW i \in DOMAIN s, s[i] # Head(s)
        PROVE  s[i] \in {Tail(s)[j] : j \in DOMAIN Tail(s)}
    BY <1>1, <1>3, <2>2
  <2> QED  BY <2>1, <2>2
<1>5. \A i, j \in DOMAIN Tail(s) : Tail(s)[i] = Tail(s)[j] => i = j
  <2> SUFFICES ASSUME NEW i \in DOMAIN Tail(s), NEW j \in DOMAIN Tail(s),
                      Tail(s)[i] = Tail(s)[j]
               PROVE  i = j
    OBVIOUS
  <2>1. i + 1 = j + 1  BY <1>2
  <2> QED  BY <1>1, <2>1
<1> QED  BY <1>1, <1>4, <1>5

-----------------------------------------------------------------------------
LEMMA InitInv == SchedInit => SchedulerInv
<1>1. <<>> \in Seq(Keys) /\ DOMAIN <<>> = {}  BY EmptySeq, LenProperties
<1> QED  BY <1>1 DEF SchedInit, SchedulerInv, SchedTypeOK, AcceptedIsKept,
                     RebuildsAlone, TrackedIsBusy, OwedIsTracked

LEMMA JoinInv ==
    ASSUME SchedulerInv, NEW k \in Keys, NEW o \in Owners, Join(k, o)
    PROVE  SchedulerInv'
BY DEF SchedulerInv, SchedTypeOK, AcceptedIsKept, RebuildsAlone, TrackedIsBusy,
       OwedIsTracked, Join, Joins, Accept

LEMMA RerunInv ==
    ASSUME SchedulerInv, NEW k \in Keys, NEW o \in Owners, Rerun(k, o)
    PROVE  SchedulerInv'
BY DEF SchedulerInv, SchedTypeOK, AcceptedIsKept, RebuildsAlone, TrackedIsBusy,
       OwedIsTracked, Rerun, Reruns, Accept

LEMMA EnterInv ==
    ASSUME SchedulerInv, NEW k \in Keys, NEW o \in Owners, Enter(k, o)
    PROVE  SchedulerInv'
<1> USE DEF SchedulerInv, Enter, Enters, Accept
<1>1. SchedTypeOK'
  <2>1. jobs' \in Seq(Keys) /\ queuedKeys' = {jobs'[i] : i \in DOMAIN jobs'}
    BY KeysOfAppend DEF SchedTypeOK
  <2>2. \A i, j \in DOMAIN jobs' : jobs'[i] = jobs'[j] => i = j
    <3>1. /\ Len(jobs) \in Nat /\ DOMAIN jobs = 1 .. Len(jobs)
          /\ DOMAIN jobs' = 1 .. Len(jobs) + 1
          /\ \A i \in 1 .. Len(jobs) : jobs'[i] = jobs[i] /\ jobs[i] # k
          /\ jobs'[Len(jobs) + 1] = k
      BY AppendProperties, LenProperties DEF SchedTypeOK
    <3>2. \A i, j \in 1 .. Len(jobs) : jobs[i] = jobs[j] => i = j
      BY <3>1 DEF SchedTypeOK
    <3>3. \A i \in DOMAIN jobs' : i \in 1 .. Len(jobs) \/ i = Len(jobs) + 1
      BY <3>1
    <3> QED  BY <3>1, <3>2, <3>3
  <2> QED  BY <2>1, <2>2 DEF SchedTypeOK
<1>2. AcceptedIsKept' /\ RebuildsAlone' /\ TrackedIsBusy' /\ OwedIsTracked'
  BY DEF AcceptedIsKept, RebuildsAlone, TrackedIsBusy, OwedIsTracked
<1> QED  BY <1>1, <1>2

LEMMA LeaseInv ==
    ASSUME SchedulerInv, NEW k \in Keys,
           AcquireExclusive(k) \/ ReleaseExclusive(k)
    PROVE  SchedulerInv'
BY DEF SchedulerInv, SchedTypeOK, AcceptedIsKept, RebuildsAlone, TrackedIsBusy,
       OwedIsTracked, AcquireExclusive, ReleaseExclusive, Leasable, Busy

LEMMA TakeInv ==
    ASSUME SchedulerInv, Take
    PROVE  SchedulerInv'
<1> USE DEF SchedulerInv, Take
<1>1. /\ jobs' \in Seq(Keys) /\ Head(jobs) \in Keys
      /\ queuedKeys' = {jobs'[i] : i \in DOMAIN jobs'}
      /\ \A i, j \in DOMAIN jobs' : jobs'[i] = jobs'[j] => i = j
  <2>1. /\ jobs \in Seq(Keys) /\ jobs # <<>>
        /\ \A i, j \in DOMAIN jobs : jobs[i] = jobs[j] => i = j
        /\ queuedKeys = {jobs[i] : i \in DOMAIN jobs}
    BY DEF SchedTypeOK
  <2>2. queuedKeys' = queuedKeys \ {Head(jobs)} /\ jobs' = Tail(jobs)
    OBVIOUS
  <2>3. /\ Tail(jobs) \in Seq(Keys) /\ Head(jobs) \in Keys
        /\ {Tail(jobs)[i] : i \in DOMAIN Tail(jobs)} = queuedKeys \ {Head(jobs)}
        /\ \A i, j \in DOMAIN Tail(jobs) : Tail(jobs)[i] = Tail(jobs)[j] => i = j
    BY <2>1, KeysOfTail, Zenon
  <2> QED  BY <2>2, <2>3, Zenon
<1>2. Head(jobs) \in queuedKeys
  <2>1. Head(jobs) = jobs[1] /\ 1 \in DOMAIN jobs
    BY HeadTailProperties, LenProperties, EmptySeq DEF SchedTypeOK
  <2> QED  BY <2>1 DEF SchedTypeOK
<1>3. SchedTypeOK'  BY <1>1 DEF SchedTypeOK
<1>4. AcceptedIsKept' /\ RebuildsAlone' /\ TrackedIsBusy' /\ OwedIsTracked'
  BY <1>1, <1>2 DEF SchedTypeOK, AcceptedIsKept, RebuildsAlone, TrackedIsBusy,
                    OwedIsTracked
<1> QED  BY <1>3, <1>4

LEMMA FinishIntoFollowUpInv ==
    ASSUME SchedulerInv, FinishIntoFollowUp
    PROVE  SchedulerInv'
BY DEF SchedulerInv, SchedTypeOK, AcceptedIsKept, RebuildsAlone, TrackedIsBusy,
       OwedIsTracked, FinishIntoFollowUp

(* The owners of the ended key are let go exactly when nothing of the key  *)
(* is left, and then no accepted request of it is unserved either.         *)
LEMMA FinishInv ==
    ASSUME SchedulerInv, Finish
    PROVE  SchedulerInv'
<1> USE DEF SchedulerInv
<1>1. PICK k \in active :
        /\ followUp # {k}
        /\ active' = active \ {k}
        /\ runningFollowUp' = FALSE
        /\ tracked' = IF Releases(k)
                      THEN {p \in tracked : p[2] # k} ELSE tracked
        /\ owed' = IF k \in unserved
                   THEN owed ELSE {p \in owed : p[2] # k}
        /\ UNCHANGED <<jobs, queuedKeys, followUp, exclusive, unserved>>
  BY DEF Finish
<1>2. active = {k} /\ followUp = {}
  BY <1>1 DEF SchedTypeOK
<1>3. k \notin exclusive
  BY <1>1 DEF RebuildsAlone
<1>4. Releases(k) <=> k \notin queuedKeys
  BY <1>2, <1>3 DEF Releases
<1>5. k \in unserved => k \in queuedKeys
  BY <1>2 DEF AcceptedIsKept
<1>6. SchedTypeOK'
  <2>1. tracked' \subseteq Owners \X Keys /\ owed' \subseteq Owners \X Keys
    BY <1>1 DEF SchedTypeOK
  <2> QED  BY <1>1, <1>2, <2>1 DEF SchedTypeOK
<1>7. AcceptedIsKept' /\ RebuildsAlone'
  BY <1>1, <1>2 DEF AcceptedIsKept, RebuildsAlone
<1>8. TrackedIsBusy'
  BY <1>1, <1>2, <1>4 DEF TrackedIsBusy
<1>9. OwedIsTracked'
  BY <1>1, <1>4, <1>5 DEF OwedIsTracked
<1> QED  BY <1>6, <1>7, <1>8, <1>9

LEMMA SchedulerStep ==
    ASSUME SchedulerInv, [SchedNext]_schedVars
    PROVE  SchedulerInv'
<1>1. ASSUME NEW k \in Keys, NEW o \in Owners, Schedule(k, o)
      PROVE  SchedulerInv'
  <2>1. CASE Join(k, o)  BY <2>1, JoinInv
  <2>2. CASE Rerun(k, o)  BY <2>2, RerunInv
  <2>3. CASE Enter(k, o)  BY <2>3, EnterInv
  <2>4. CASE Refuse(k)
    BY <2>4 DEF Refuse, schedVars, SchedulerInv, SchedTypeOK, AcceptedIsKept,
                RebuildsAlone, TrackedIsBusy, OwedIsTracked
  <2> QED  BY <1>1, <2>1, <2>2, <2>3, <2>4 DEF Schedule
<1>2. ASSUME NEW k \in Keys, AcquireExclusive(k) \/ ReleaseExclusive(k)
      PROVE  SchedulerInv'
  BY <1>2, LeaseInv
<1>3. CASE Take  BY <1>3, TakeInv
<1>4. CASE FinishIntoFollowUp  BY <1>4, FinishIntoFollowUpInv
<1>5. CASE Finish  BY <1>5, FinishInv
<1>6. CASE UNCHANGED schedVars
  BY <1>6 DEF schedVars, SchedulerInv, SchedTypeOK, AcceptedIsKept,
              RebuildsAlone, TrackedIsBusy, OwedIsTracked
<1> QED  BY <1>1, <1>2, <1>3, <1>4, <1>5, <1>6 DEF SchedNext, Worker

(* The invariant holds in every reachable state.                           *)
THEOREM SchedulerSafe == SchedSpec => []SchedulerInv
<1>1. SchedulerInv /\ [SchedNext]_schedVars => SchedulerInv'
  BY SchedulerStep
<1> QED  BY InitInv, <1>1, PTL DEF SchedSpec

(* No accepted request is dropped.                                         *)
THEOREM RequestsKept == SchedSpec => []AcceptedIsKept
<1>1. SchedulerInv => AcceptedIsKept  BY DEF SchedulerInv
<1> QED  BY SchedulerSafe, <1>1, PTL

(* A leased key has no background pass.                                    *)
THEOREM LeaseIsExclusive == SchedSpec => []RebuildsAlone
<1>1. SchedulerInv => RebuildsAlone  BY DEF SchedulerInv
<1> QED  BY SchedulerSafe, <1>1, PTL

(* A drain that answered has nothing outstanding.                          *)
THEOREM DrainIsSound == SchedSpec => []DrainedIsDone
<1>1. SchedulerInv => DrainedIsDone
  BY DEF SchedulerInv, DrainedIsDone, OwedIsTracked, Drained
<1> QED  BY SchedulerSafe, <1>1, PTL

(* Types, one running key, and a queue that agrees with its set.           *)
THEOREM SchedulerTypes == SchedSpec => []SchedTypeOK
<1>1. SchedulerInv => SchedTypeOK  BY DEF SchedulerInv
<1> QED  BY SchedulerSafe, <1>1, PTL

(* No owner waits for an idle key.                                         *)
THEOREM NobodyWaitsForNothing == SchedSpec => []TrackedIsBusy
<1>1. SchedulerInv => TrackedIsBusy  BY DEF SchedulerInv
<1> QED  BY SchedulerSafe, <1>1, PTL

-----------------------------------------------------------------------------
(***************************************************************************)
(* The shutdown                                                            *)
(***************************************************************************)
HIDE PendingAssumption
USE EngineAssumption

Pending == {"lock", "settle", "work", "close"}  \* a shutdown before its close
Stopped == {"settle", "work", "close", "retire", "discard"}
AtRest == {"work", "close", "retire", "discard"}

GroupTypeOK ==
    /\ closed \in BOOLEAN
    /\ clones \subseteq Engines /\ engines \subseteq Engines
    /\ records \in [Engines -> Nat]
    /\ caller \in [Engines -> {"away", "reserved", "in", "accepted", "out", "counted"}]
    /\ stopping \in [Engines -> BOOLEAN] /\ complete \in [Engines -> BOOLEAN]
    /\ storage \in [Engines -> {"unbound", "open", "closed"}]
    /\ binder \in [Engines -> BOOLEAN] /\ idle \in [Engines -> BOOLEAN]
    /\ host \in [Engines -> {"absent", "building", "live", "closing", "gone"}]
    /\ lock \in [Engines -> Threads \cup {Nobody}]
    /\ op \in [Threads -> [pc : {"no"} \cup Pending \cup Stopped,
                           e : Engines, wait : BOOLEAN]]
    /\ drain \in [Threads -> [pc : {"no", "read", "rollups", "extraction", "check"},
                              e : Engines, gen : Nat]]
    /\ unload \in {"no", "gate", "engines", "records", "done"}
    /\ todo \subseteq Engines /\ work \subseteq Engines

(* The gate is closed by the unload, and behind it nothing begins.         *)
GateHolds ==
    /\ closed <=> unload # "no"
    /\ \A e \in Engines : host[e] = "building" => e \in clones
    /\ unload \in {"engines", "records", "done"} =>
         clones = {} /\ \A e \in Engines : caller[e] = "away"

(* Who is in a shutdown, and of which engine.                              *)
InTurn ==
    /\ \A e \in Engines : op[e].pc # "no" => op[e].e = e /\ host[e] = "closing"
    /\ op[Unload].pc # "no" => op[Unload].wait /\ unload = "engines"
    /\ drain[Unload].pc # "no" => unload = "records"
    /\ unload \in {"records", "done"} => todo = {}

(* A live engine is shut down before the unload goes on to the records.    *)
LiveIsFound ==
    \A e \in Engines : host[e] = "live" =>
        IF unload \in {"no", "gate"} THEN e \in engines
        ELSE \/ complete[e] \/ e \in todo
             \/ op[Unload].pc \in Pending /\ op[Unload].e = e

(* Work on record is drained before the unload returns.                    *)
WorkIsListed ==
    /\ unload \in {"records", "done"} =>
         \A e \in Engines : HasWork(e) =>
             e \in work \/ (drain[Unload].pc # "no" /\ drain[Unload].e = e)
    /\ unload = "done" => work = {} /\ drain[Unload].pc = "no"

(* An engine in a shutdown takes no schedules, and its storage closes      *)
(* when none is in progress; a dropped engine has none.                    *)
ClosesAtRest ==
    /\ \A t \in Threads :
         /\ op[t].pc \in Stopped => stopping[op[t].e]
         /\ op[t].pc \in AtRest => ~InFlight(op[t].e)
    /\ \A e \in Engines : storage[e] = "closed" =>
         \/ stopping[e] /\ caller[e] # "in"
         \/ host[e] = "gone" /\ caller[e] = "away"

GroupInv == /\ GroupTypeOK /\ GateHolds /\ InTurn /\ WorkIsSeen
            /\ LiveIsFound /\ WorkIsListed /\ ClosesAtRest

-----------------------------------------------------------------------------
(* What a request to the scheduler, and its worker, change of what is owed. *)
LEMMA ScheduleOwes ==
    ASSUME SchedulerInv, NEW k \in Keys, NEW e \in Engines, Schedule(k, e)
    PROVE  /\ owed \subseteq owed'
           /\ \A p \in owed' : p \in owed \/ (p[1] = e /\ Accepts(k))
BY DEF Schedule, Join, Rerun, Enter, Refuse, Accept, Accepts, schedVars, Engines

LEMMA ScheduleInv ==
    ASSUME SchedulerInv, NEW k \in Keys, NEW e \in Engines, Schedule(k, e)
    PROVE  SchedulerInv'
<1>1. SchedNext  BY DEF SchedNext, Engines
<1> QED  BY <1>1, SchedulerStep

LEMMA WorkerServes ==
    ASSUME Worker
    PROVE  owed' \subseteq owed
BY DEF Worker, Take, FinishIntoFollowUp, Finish

(* An engine that nothing of the scheduler is tracked for has no work.      *)
LEMMA QuietHasNone ==
    ASSUME SchedulerInv, NEW e \in Engines, Quiet(e)
    PROVE  ~HasWork(e)
BY DEF SchedulerInv, OwedIsTracked, Quiet, Drained, HasWork

-----------------------------------------------------------------------------
USE DEF Engines, Threads, Pending, Stopped, AtRest, schedVars

LEMMA GroupInit == Init => GroupInv
<1> SUFFICES ASSUME Init  PROVE GroupInv  OBVIOUS
<1> USE DEF Init, SchedInit, NoOp, NoDrain
<1>1. GroupTypeOK  BY DEF GroupTypeOK
<1>2. GateHolds /\ InTurn  BY DEF GateHolds, InTurn
<1>3. WorkIsSeen  BY DEF WorkIsSeen, HasWork
<1>4. LiveIsFound /\ WorkIsListed  BY DEF LiveIsFound, WorkIsListed
<1>5. ClosesAtRest  BY DEF ClosesAtRest, InFlight
<1> QED  BY <1>1, <1>2, <1>3, <1>4, <1>5 DEF GroupInv

LEMMA BeginScheduleInv ==
    ASSUME SchedulerInv, GroupInv, NEW e \in Engines, BeginSchedule(e)
    PROVE  GroupInv'
<1> USE DEF GroupInv, GroupTypeOK, BeginSchedule, Call
<1>1. GroupTypeOK'  OBVIOUS
<1>2. GateHolds' /\ InTurn'  BY DEF GateHolds, InTurn
<1>3. WorkIsSeen'  BY DEF WorkIsSeen, HasWork, InTurn
<1>4. LiveIsFound'  BY DEF LiveIsFound, GateHolds, InTurn
<1>5. WorkIsListed'  BY DEF WorkIsListed, WorkIsSeen, HasWork, GateHolds, InTurn
<1>6. ClosesAtRest'  BY DEF ClosesAtRest, InFlight, GateHolds, InTurn
<1> QED  BY <1>1, <1>2, <1>3, <1>4, <1>5, <1>6

LEMMA EnterScheduleInv ==
    ASSUME SchedulerInv, GroupInv, NEW e \in Engines, EnterSchedule(e)
    PROVE  GroupInv'
<1> USE DEF GroupInv, GroupTypeOK, EnterSchedule, Call
<1>1. GroupTypeOK'  OBVIOUS
<1>2. GateHolds' /\ InTurn'  BY DEF GateHolds, InTurn
<1>3. WorkIsSeen'  BY DEF WorkIsSeen, HasWork, InTurn
<1>4. LiveIsFound'  BY DEF LiveIsFound, GateHolds, InTurn
<1>5. WorkIsListed'  BY DEF WorkIsListed, WorkIsSeen, HasWork, GateHolds, InTurn
<1>6. ClosesAtRest'  BY DEF ClosesAtRest, InFlight, GateHolds, InTurn
<1> QED  BY <1>1, <1>2, <1>3, <1>4, <1>5, <1>6

LEMMA SubmitRollupInv ==
    ASSUME SchedulerInv, GroupInv, NEW e \in Engines, SubmitRollup(e)
    PROVE  GroupInv'
<1> USE DEF GroupInv, GroupTypeOK, SubmitRollup, Call
<1>1. GroupTypeOK'  OBVIOUS
<1>2. GateHolds' /\ InTurn'  BY DEF GateHolds, InTurn
<1>3. WorkIsSeen'  BY ScheduleOwes DEF WorkIsSeen, HasWork, InTurn
<1>4. LiveIsFound'  BY DEF LiveIsFound, GateHolds, InTurn
<1>5. WorkIsListed'  BY ScheduleOwes DEF WorkIsListed, WorkIsSeen, HasWork, GateHolds, InTurn
<1>6. ClosesAtRest'  BY DEF ClosesAtRest, InFlight, GateHolds, InTurn
<1> QED  BY <1>1, <1>2, <1>3, <1>4, <1>5, <1>6

LEMMA StartExtractionInv ==
    ASSUME SchedulerInv, GroupInv, NEW e \in Engines, StartExtraction(e)
    PROVE  GroupInv'
<1> USE DEF GroupInv, GroupTypeOK, StartExtraction, Call
<1>1. GroupTypeOK'  OBVIOUS
<1>2. GateHolds' /\ InTurn'  BY DEF GateHolds, InTurn
<1>3. WorkIsSeen'  BY DEF WorkIsSeen, HasWork, InTurn
<1>4. LiveIsFound'  BY DEF LiveIsFound, GateHolds, InTurn
<1>5. WorkIsListed'  BY DEF WorkIsListed, WorkIsSeen, HasWork, GateHolds, InTurn
<1>6. ClosesAtRest'  BY DEF ClosesAtRest, InFlight, GateHolds, InTurn
<1> QED  BY <1>1, <1>2, <1>3, <1>4, <1>5, <1>6

LEMMA SkipExtractionInv ==
    ASSUME SchedulerInv, GroupInv, NEW e \in Engines, SkipExtraction(e)
    PROVE  GroupInv'
<1> USE DEF GroupInv, GroupTypeOK, SkipExtraction, Call
<1>1. GroupTypeOK'  OBVIOUS
<1>2. GateHolds' /\ InTurn'  BY DEF GateHolds, InTurn
<1>3. WorkIsSeen'  BY DEF WorkIsSeen, HasWork, InTurn
<1>4. LiveIsFound'  BY DEF LiveIsFound, GateHolds, InTurn
<1>5. WorkIsListed'  BY DEF WorkIsListed, WorkIsSeen, HasWork, GateHolds, InTurn
<1>6. ClosesAtRest'  BY DEF ClosesAtRest, InFlight, GateHolds, InTurn
<1> QED  BY <1>1, <1>2, <1>3, <1>4, <1>5, <1>6

LEMMA TrackAcceptedInv ==
    ASSUME SchedulerInv, GroupInv, NEW e \in Engines, TrackAccepted(e)
    PROVE  GroupInv'
<1> USE DEF GroupInv, GroupTypeOK, TrackAccepted, Call, Track
<1>1. GroupTypeOK'  OBVIOUS
<1>2. GateHolds' /\ InTurn'  BY DEF GateHolds, InTurn
<1>3. WorkIsSeen'  BY DEF WorkIsSeen, HasWork, InTurn
<1>4. LiveIsFound'  BY DEF LiveIsFound, GateHolds, InTurn
<1>5. WorkIsListed'  BY DEF WorkIsListed, WorkIsSeen, HasWork, GateHolds, InTurn
<1>6. ClosesAtRest'  BY DEF ClosesAtRest, InFlight, GateHolds, InTurn
<1> QED  BY <1>1, <1>2, <1>3, <1>4, <1>5, <1>6

LEMMA LeaveScheduleInv ==
    ASSUME SchedulerInv, GroupInv, NEW e \in Engines, LeaveSchedule(e)
    PROVE  GroupInv'
<1> USE DEF GroupInv, GroupTypeOK, LeaveSchedule, Call
<1>1. GroupTypeOK'  OBVIOUS
<1>2. GateHolds' /\ InTurn'  BY DEF GateHolds, InTurn
<1>3. WorkIsSeen'  BY DEF WorkIsSeen, HasWork, InTurn
<1>4. LiveIsFound'  BY DEF LiveIsFound, GateHolds, InTurn
<1>5. WorkIsListed'  BY DEF WorkIsListed, WorkIsSeen, HasWork, GateHolds, InTurn
<1>6. ClosesAtRest'  BY DEF ClosesAtRest, InFlight, GateHolds, InTurn
<1> QED  BY <1>1, <1>2, <1>3, <1>4, <1>5, <1>6

LEMMA ExtractionEndsInv ==
    ASSUME SchedulerInv, GroupInv, NEW e \in Engines, ExtractionEnds(e)
    PROVE  GroupInv'
<1> USE DEF GroupInv, GroupTypeOK, ExtractionEnds
<1>1. GroupTypeOK'  OBVIOUS
<1>2. GateHolds' /\ InTurn'  BY DEF GateHolds, InTurn
<1>3. WorkIsSeen'  BY DEF WorkIsSeen, HasWork, InTurn
<1>4. LiveIsFound'  BY DEF LiveIsFound, GateHolds, InTurn
<1>5. WorkIsListed'  BY DEF WorkIsListed, WorkIsSeen, HasWork, GateHolds, InTurn
<1>6. ClosesAtRest'  BY DEF ClosesAtRest, InFlight, GateHolds, InTurn
<1> QED  BY <1>1, <1>2, <1>3, <1>4, <1>5, <1>6

LEMMA BeginCloneInv ==
    ASSUME SchedulerInv, GroupInv, NEW e \in Engines, BeginClone(e)
    PROVE  GroupInv'
<1> USE DEF GroupInv, GroupTypeOK, BeginClone
<1>1. GroupTypeOK'  OBVIOUS
<1>2. GateHolds' /\ InTurn'  BY DEF GateHolds, InTurn
<1>3. WorkIsSeen'  BY DEF WorkIsSeen, HasWork, InTurn
<1>4. LiveIsFound'  BY DEF LiveIsFound, GateHolds, InTurn
<1>5. WorkIsListed'  BY DEF WorkIsListed, WorkIsSeen, HasWork, GateHolds, InTurn
<1>6. ClosesAtRest'  BY DEF ClosesAtRest, InFlight, GateHolds, InTurn
<1> QED  BY <1>1, <1>2, <1>3, <1>4, <1>5, <1>6

LEMMA CompleteCloneInv ==
    ASSUME SchedulerInv, GroupInv, NEW e \in Engines, CompleteClone(e)
    PROVE  GroupInv'
<1> USE DEF GroupInv, GroupTypeOK, CompleteClone
<1>1. GroupTypeOK'
  <2>1. op' \in [Threads -> [pc : {"no"} \cup Pending \cup Stopped,
                             e : Engines, wait : BOOLEAN]]
    <3>1. CASE UNCHANGED op  BY <3>1
    <3>2. CASE op' = [op EXCEPT ![e] = [pc |-> "lock", e |-> e, wait |-> TRUE]]
      BY <3>2
    <3> QED  BY <3>1, <3>2
  <2>2. engines' \subseteq Engines /\ clones' \subseteq Engines
    OBVIOUS
  <2>3. host' \in [Engines -> {"absent", "building", "live", "closing", "gone"}]
    OBVIOUS
  <2> QED  BY <2>1, <2>2, <2>3
<1>2. GateHolds' /\ InTurn'  BY DEF GateHolds, InTurn
<1>3. WorkIsSeen'  BY DEF WorkIsSeen, HasWork, InTurn
<1>4. LiveIsFound'  BY DEF LiveIsFound, GateHolds, InTurn
<1>5. WorkIsListed'
  <2>1. unload' \notin {"records", "done"}  BY DEF GateHolds
  <2> QED  BY <2>1 DEF WorkIsListed
<1>6. ClosesAtRest'  BY DEF ClosesAtRest, InFlight, GateHolds, InTurn
<1> QED  BY <1>1, <1>2, <1>3, <1>4, <1>5, <1>6

LEMMA BeginUseInv ==
    ASSUME SchedulerInv, GroupInv, NEW e \in Engines, BeginUse(e)
    PROVE  GroupInv'
<1> USE DEF GroupInv, GroupTypeOK, BeginUse
<1>1. GroupTypeOK'  OBVIOUS
<1>2. GateHolds' /\ InTurn'  BY DEF GateHolds, InTurn
<1>3. WorkIsSeen'  BY DEF WorkIsSeen, HasWork, InTurn
<1>4. LiveIsFound'  BY DEF LiveIsFound, GateHolds, InTurn
<1>5. WorkIsListed'  BY DEF WorkIsListed, WorkIsSeen, HasWork, GateHolds, InTurn
<1>6. ClosesAtRest'  BY DEF ClosesAtRest, InFlight, GateHolds, InTurn
<1> QED  BY <1>1, <1>2, <1>3, <1>4, <1>5, <1>6

LEMMA BindInv ==
    ASSUME SchedulerInv, GroupInv, NEW e \in Engines, Bind(e)
    PROVE  GroupInv'
<1> USE DEF GroupInv, GroupTypeOK, Bind
<1>1. GroupTypeOK'  OBVIOUS
<1>2. GateHolds' /\ InTurn'  BY DEF GateHolds, InTurn
<1>3. WorkIsSeen'  BY DEF WorkIsSeen, HasWork, InTurn
<1>4. LiveIsFound'  BY DEF LiveIsFound, GateHolds, InTurn
<1>5. WorkIsListed'  BY DEF WorkIsListed, WorkIsSeen, HasWork, GateHolds, InTurn
<1>6. ClosesAtRest'  BY DEF ClosesAtRest, InFlight, GateHolds, InTurn
<1> QED  BY <1>1, <1>2, <1>3, <1>4, <1>5, <1>6

LEMMA EvictInv ==
    ASSUME SchedulerInv, GroupInv, NEW e \in Engines, Evict(e)
    PROVE  GroupInv'
<1> USE DEF GroupInv, GroupTypeOK, Evict
<1>1. GroupTypeOK'  OBVIOUS
<1>2. GateHolds' /\ InTurn'  BY DEF GateHolds, InTurn
<1>3. WorkIsSeen'  BY DEF WorkIsSeen, HasWork, InTurn
<1>4. LiveIsFound'  BY DEF LiveIsFound, GateHolds, InTurn
<1>5. WorkIsListed'  BY DEF WorkIsListed, WorkIsSeen, HasWork, GateHolds, InTurn
<1>6. ClosesAtRest'  BY DEF ClosesAtRest, InFlight, GateHolds, InTurn
<1> QED  BY <1>1, <1>2, <1>3, <1>4, <1>5, <1>6

LEMMA DropInv ==
    ASSUME SchedulerInv, GroupInv, NEW e \in Engines, Drop(e)
    PROVE  GroupInv'
<1> USE DEF GroupInv, GroupTypeOK, Drop
<1>1. GroupTypeOK'  OBVIOUS
<1>2. GateHolds' /\ InTurn'  BY DEF GateHolds, InTurn
<1>3. WorkIsSeen'  BY DEF WorkIsSeen, HasWork, InTurn
<1>4. LiveIsFound'  BY DEF LiveIsFound, GateHolds, InTurn
<1>5. WorkIsListed'  BY DEF WorkIsListed, WorkIsSeen, HasWork, GateHolds, InTurn
<1>6. ClosesAtRest'  BY DEF ClosesAtRest, InFlight, GateHolds, InTurn
<1> QED  BY <1>1, <1>2, <1>3, <1>4, <1>5, <1>6

LEMMA LockInv ==
    ASSUME SchedulerInv, GroupInv, NEW t \in Threads, Lock(t)
    PROVE  GroupInv'
<1> USE DEF GroupInv, GroupTypeOK, Lock, Op, LockFree
<1>1. GroupTypeOK'  OBVIOUS
<1>2. GateHolds' /\ InTurn'  BY DEF GateHolds, InTurn
<1>3. WorkIsSeen'  BY DEF WorkIsSeen, HasWork, InTurn
<1>4. LiveIsFound'  BY DEF LiveIsFound, GateHolds, InTurn
<1>5. WorkIsListed'  BY DEF WorkIsListed, WorkIsSeen, HasWork, GateHolds, InTurn
<1>6. ClosesAtRest'  BY DEF ClosesAtRest, InFlight, GateHolds, InTurn
<1> QED  BY <1>1, <1>2, <1>3, <1>4, <1>5, <1>6

LEMMA SettleInv ==
    ASSUME SchedulerInv, GroupInv, NEW t \in Threads, Settle(t)
    PROVE  GroupInv'
<1> USE DEF GroupInv, GroupTypeOK, Settle, Op, Settled
<1>1. GroupTypeOK'  OBVIOUS
<1>2. GateHolds' /\ InTurn'  BY DEF GateHolds, InTurn
<1>3. WorkIsSeen'  BY DEF WorkIsSeen, HasWork, InTurn
<1>4. LiveIsFound'  BY DEF LiveIsFound, GateHolds, InTurn
<1>5. WorkIsListed'  BY DEF WorkIsListed, WorkIsSeen, HasWork, GateHolds, InTurn
<1>6. ClosesAtRest'  BY DEF ClosesAtRest, InFlight, GateHolds, InTurn
<1> QED  BY <1>1, <1>2, <1>3, <1>4, <1>5, <1>6

LEMMA AwaitWorkInv ==
    ASSUME SchedulerInv, GroupInv, NEW t \in Threads, AwaitWork(t)
    PROVE  GroupInv'
<1> USE DEF GroupInv, GroupTypeOK, AwaitWork, Op
<1>1. GroupTypeOK'  OBVIOUS
<1>2. GateHolds' /\ InTurn'  BY DEF GateHolds, InTurn
<1>3. WorkIsSeen'  BY DEF WorkIsSeen, HasWork, InTurn
<1>4. LiveIsFound'  BY DEF LiveIsFound, GateHolds, InTurn
<1>5. WorkIsListed'  BY DEF WorkIsListed, WorkIsSeen, HasWork, GateHolds, InTurn
<1>6. ClosesAtRest'  BY DEF ClosesAtRest, InFlight, GateHolds, InTurn
<1> QED  BY <1>1, <1>2, <1>3, <1>4, <1>5, <1>6

LEMMA CloseInv ==
    ASSUME SchedulerInv, GroupInv, NEW t \in Threads, Close(t)
    PROVE  GroupInv'
<1> USE DEF GroupInv, GroupTypeOK, Close, Op
<1>1. GroupTypeOK'  OBVIOUS
<1>2. GateHolds' /\ InTurn'  BY DEF GateHolds, InTurn
<1>3. WorkIsSeen'  BY DEF WorkIsSeen, HasWork, InTurn
<1>4. LiveIsFound'  BY DEF LiveIsFound, GateHolds, InTurn
<1>5. WorkIsListed'  BY DEF WorkIsListed, WorkIsSeen, HasWork, GateHolds, InTurn
<1>6. ClosesAtRest'  BY DEF ClosesAtRest, InFlight, GateHolds, InTurn
<1> QED  BY <1>1, <1>2, <1>3, <1>4, <1>5, <1>6

LEMMA RetireInv ==
    ASSUME SchedulerInv, GroupInv, NEW t \in Threads, Retire(t)
    PROVE  GroupInv'
<1>0. /\ op' = [op EXCEPT ![t].pc = "discard"]
      /\ \/ UNCHANGED <<records, drain>>
         \/ \E e \in Engines : Track(e)
      /\ UNCHANGED <<closed, clones, engines, caller, stopping, complete,
                     storage, binder, idle, host, lock, unload, todo, work>>
  BY DEF Retire, Op, GroupInv, GroupTypeOK
<1>1. GroupTypeOK'
  <2>1. /\ records' \in [Engines -> Nat]
        /\ drain' \in [Threads -> [pc : {"no", "read", "rollups", "extraction", "check"},
                                   e : Engines, gen : Nat]]
    BY <1>0 DEF Track, GroupInv, GroupTypeOK
  <2>2. op' \in [Threads -> [pc : {"no"} \cup Pending \cup Stopped, e : Engines, wait : BOOLEAN]]
    BY <1>0 DEF GroupInv, GroupTypeOK, Stopped
  <2>3. GroupTypeOK  BY DEF GroupInv
  <2> QED  BY <1>0, <2>1, <2>2, <2>3 DEF GroupTypeOK
<1> USE DEF GroupInv, GroupTypeOK, Retire, Op, Track
<1>2. GateHolds' /\ InTurn'  BY DEF GateHolds, InTurn
<1>3. WorkIsSeen'  BY DEF WorkIsSeen, HasWork, InTurn
<1>4. LiveIsFound'  BY DEF LiveIsFound, GateHolds, InTurn
<1>5. WorkIsListed'  BY DEF WorkIsListed, WorkIsSeen, HasWork, GateHolds, InTurn
<1>6. ClosesAtRest'  BY DEF ClosesAtRest, InFlight, GateHolds, InTurn
<1> QED  BY <1>1, <1>2, <1>3, <1>4, <1>5, <1>6

LEMMA DiscardInv ==
    ASSUME SchedulerInv, GroupInv, NEW t \in Threads, Discard(t)
    PROVE  GroupInv'
<1> USE DEF GroupInv, GroupTypeOK, Discard, NoOp, Released
<1>1. GroupTypeOK'  OBVIOUS
<1>2. GateHolds' /\ InTurn'  BY DEF GateHolds, InTurn
<1>3. WorkIsSeen'  BY DEF WorkIsSeen, HasWork, InTurn
<1>4. LiveIsFound'  BY DEF LiveIsFound, GateHolds, InTurn
<1>5. WorkIsListed'  BY DEF WorkIsListed, WorkIsSeen, HasWork, GateHolds, InTurn
<1>6. ClosesAtRest'  BY DEF ClosesAtRest, InFlight, GateHolds, InTurn
<1> QED  BY <1>1, <1>2, <1>3, <1>4, <1>5, <1>6

LEMMA DrainStepInv ==
    ASSUME SchedulerInv, GroupInv, NEW t \in Threads, DrainStep(t)
    PROVE  GroupInv'
<1> USE DEF GroupInv, GroupTypeOK, DrainStep, ReadGeneration, AwaitRollups, AwaitExtraction,
           Recheck, Draining, NoDrain
<1>1. GroupTypeOK'  OBVIOUS
<1>2. GateHolds' /\ InTurn'  BY DEF GateHolds, InTurn
<1>3. WorkIsSeen'  BY QuietHasNone DEF WorkIsSeen, HasWork, InTurn
<1>4. LiveIsFound'  BY DEF LiveIsFound, GateHolds, InTurn
<1>5. WorkIsListed'  BY QuietHasNone DEF WorkIsListed, WorkIsSeen, HasWork, GateHolds, InTurn
<1>6. ClosesAtRest'  BY DEF ClosesAtRest, InFlight, GateHolds, InTurn
<1> QED  BY <1>1, <1>2, <1>3, <1>4, <1>5, <1>6

LEMMA WorkerStepInv ==
    ASSUME SchedulerInv, GroupInv, WorkerStep
    PROVE  GroupInv'
<1> USE DEF GroupInv, GroupTypeOK, WorkerStep, groupVars
<1>1. GroupTypeOK'  OBVIOUS
<1>2. GateHolds' /\ InTurn'  BY DEF GateHolds, InTurn
<1>3. WorkIsSeen'  BY WorkerServes DEF WorkIsSeen, HasWork, InTurn
<1>4. LiveIsFound'  BY DEF LiveIsFound, GateHolds, InTurn
<1>5. WorkIsListed'  BY WorkerServes DEF WorkIsListed, WorkIsSeen, HasWork, GateHolds, InTurn
<1>6. ClosesAtRest'  BY DEF ClosesAtRest, InFlight, GateHolds, InTurn
<1> QED  BY <1>1, <1>2, <1>3, <1>4, <1>5, <1>6

LEMMA CloseGateInv ==
    ASSUME SchedulerInv, GroupInv, CloseGate
    PROVE  GroupInv'
<1> USE DEF GroupInv, GroupTypeOK, CloseGate
<1>1. GroupTypeOK'  OBVIOUS
<1>2. GateHolds' /\ InTurn'  BY DEF GateHolds, InTurn
<1>3. WorkIsSeen'  BY DEF WorkIsSeen, HasWork, InTurn
<1>4. LiveIsFound'  BY DEF LiveIsFound, GateHolds, InTurn
<1>5. WorkIsListed'  BY DEF WorkIsListed, WorkIsSeen, HasWork, GateHolds, InTurn
<1>6. ClosesAtRest'  BY DEF ClosesAtRest, InFlight, GateHolds, InTurn
<1> QED  BY <1>1, <1>2, <1>3, <1>4, <1>5, <1>6

LEMMA SnapshotInv ==
    ASSUME SchedulerInv, GroupInv, Snapshot
    PROVE  GroupInv'
<1> USE DEF GroupInv, GroupTypeOK, Snapshot, GateClear, Counted
<1>1. GroupTypeOK'  OBVIOUS
<1>2. GateHolds' /\ InTurn'  BY DEF GateHolds, InTurn
<1>3. WorkIsSeen'  BY DEF WorkIsSeen, HasWork, InTurn
<1>4. LiveIsFound'  BY DEF LiveIsFound, GateHolds, InTurn
<1>5. WorkIsListed'  BY DEF WorkIsListed, WorkIsSeen, HasWork, GateHolds, InTurn
<1>6. ClosesAtRest'  BY DEF ClosesAtRest, InFlight, GateHolds, InTurn
<1> QED  BY <1>1, <1>2, <1>3, <1>4, <1>5, <1>6

LEMMA ShutdownNextInv ==
    ASSUME SchedulerInv, GroupInv, ShutdownNext
    PROVE  GroupInv'
<1> USE DEF GroupInv, GroupTypeOK, ShutdownNext
<1>1. GroupTypeOK'  OBVIOUS
<1>2. GateHolds' /\ InTurn'  BY DEF GateHolds, InTurn
<1>3. WorkIsSeen'  BY DEF WorkIsSeen, HasWork, InTurn
<1>4. LiveIsFound'  BY DEF LiveIsFound, GateHolds, InTurn
<1>5. WorkIsListed'  BY DEF WorkIsListed, WorkIsSeen, HasWork, GateHolds, InTurn
<1>6. ClosesAtRest'  BY DEF ClosesAtRest, InFlight, GateHolds, InTurn
<1> QED  BY <1>1, <1>2, <1>3, <1>4, <1>5, <1>6

LEMMA ListRecordsInv ==
    ASSUME SchedulerInv, GroupInv, ListRecords
    PROVE  GroupInv'
<1> USE DEF GroupInv, GroupTypeOK, ListRecords
<1>1. GroupTypeOK'  OBVIOUS
<1>2. GateHolds' /\ InTurn'  BY DEF GateHolds, InTurn
<1>3. WorkIsSeen'  BY DEF WorkIsSeen, HasWork, InTurn
<1>4. LiveIsFound'  BY DEF LiveIsFound, GateHolds, InTurn
<1>5. WorkIsListed'  BY DEF WorkIsListed, WorkIsSeen, HasWork, GateHolds, InTurn
<1>6. ClosesAtRest'  BY DEF ClosesAtRest, InFlight, GateHolds, InTurn
<1> QED  BY <1>1, <1>2, <1>3, <1>4, <1>5, <1>6

LEMMA DrainNextInv ==
    ASSUME SchedulerInv, GroupInv, DrainNext
    PROVE  GroupInv'
<1> USE DEF GroupInv, GroupTypeOK, DrainNext
<1>1. GroupTypeOK'  OBVIOUS
<1>2. GateHolds' /\ InTurn'  BY DEF GateHolds, InTurn
<1>3. WorkIsSeen'  BY DEF WorkIsSeen, HasWork, InTurn
<1>4. LiveIsFound'  BY DEF LiveIsFound, GateHolds, InTurn
<1>5. WorkIsListed'  BY DEF WorkIsListed, WorkIsSeen, HasWork, GateHolds, InTurn
<1>6. ClosesAtRest'  BY DEF ClosesAtRest, InFlight, GateHolds, InTurn
<1> QED  BY <1>1, <1>2, <1>3, <1>4, <1>5, <1>6

LEMMA UnloadedInv ==
    ASSUME SchedulerInv, GroupInv, Unloaded
    PROVE  GroupInv'
<1> USE DEF GroupInv, GroupTypeOK, Unloaded
<1>1. GroupTypeOK'  OBVIOUS
<1>2. GateHolds' /\ InTurn'  BY DEF GateHolds, InTurn
<1>3. WorkIsSeen'  BY DEF WorkIsSeen, HasWork, InTurn
<1>4. LiveIsFound'  BY DEF LiveIsFound, GateHolds, InTurn
<1>5. WorkIsListed'  BY DEF WorkIsListed, WorkIsSeen, HasWork, GateHolds, InTurn
<1>6. ClosesAtRest'  BY DEF ClosesAtRest, InFlight, GateHolds, InTurn
<1> QED  BY <1>1, <1>2, <1>3, <1>4, <1>5, <1>6

-----------------------------------------------------------------------------
(* Only requests and the worker are steps of the scheduler.                *)
LEMMA GroupStep ==
    ASSUME SchedulerInv, GroupInv, [Next]_vars
    PROVE  (SchedulerInv /\ GroupInv)'
<1>1. CASE \E e \in Engines : SubmitRollup(e)
  BY <1>1, ScheduleInv, SubmitRollupInv DEF SubmitRollup
<1>2. CASE WorkerStep
  <2>1. SchedulerInv'  BY <1>2, SchedulerStep DEF WorkerStep, SchedNext
  <2> QED  BY <1>2, <2>1, WorkerStepInv
<1>3. CASE UNCHANGED vars
  <2>1. SchedulerInv'  BY <1>3, SchedulerStep DEF vars
  <2>2. GroupInv'
    BY <1>3 DEF vars, groupVars, GroupInv, GroupTypeOK, GateHolds, InTurn,
                WorkIsSeen, LiveIsFound, WorkIsListed, ClosesAtRest, HasWork,
                InFlight
  <2> QED  BY <2>1, <2>2
<1>4. ASSUME UNCHANGED schedVars  PROVE SchedulerInv'
  BY <1>4, SchedulerStep
<1>5. ASSUME NEW e \in Engines, HostStep(e) \/ Bind(e) \/ CompleteClone(e)
                                  \/ ExtractionEnds(e)
      PROVE  (SchedulerInv /\ GroupInv)'
  <2>1. UNCHANGED schedVars
    BY <1>5 DEF HostStep, BeginSchedule, BeginClone, BeginUse, Evict, Drop, Bind,
                CompleteClone, ExtractionEnds
  <2>2. GroupInv'
    BY <1>5, BeginScheduleInv, BeginCloneInv, BeginUseInv, EvictInv, DropInv,
       BindInv, CompleteCloneInv, ExtractionEndsInv DEF HostStep
  <2> QED  BY <1>4, <2>1, <2>2
<1>6. ASSUME NEW e \in Engines, CallerStep(e), ~SubmitRollup(e)
      PROVE  (SchedulerInv /\ GroupInv)'
  <2>1. UNCHANGED schedVars
    BY <1>6 DEF CallerStep, EnterSchedule, StartExtraction, SkipExtraction,
                TrackAccepted, LeaveSchedule
  <2>2. GroupInv'
    BY <1>6, EnterScheduleInv, StartExtractionInv, SkipExtractionInv,
       TrackAcceptedInv, LeaveScheduleInv DEF CallerStep
  <2> QED  BY <1>4, <2>1, <2>2
<1>7. ASSUME NEW t \in Threads, ShutdownStep(t) \/ DrainStep(t)
      PROVE  (SchedulerInv /\ GroupInv)'
  <2>1. UNCHANGED schedVars
    BY <1>7 DEF ShutdownStep, Lock, Settle, AwaitWork, Close, Retire, Discard,
                DrainStep
  <2>2. GroupInv'
    BY <1>7, LockInv, SettleInv, AwaitWorkInv, CloseInv, RetireInv, DiscardInv,
       DrainStepInv DEF ShutdownStep
  <2> QED  BY <1>4, <2>1, <2>2
<1>8. CASE CloseGate \/ UnloadStep
  <2>1. UNCHANGED schedVars
    BY <1>8 DEF CloseGate, UnloadStep, Snapshot, ShutdownNext, ListRecords,
                DrainNext, Unloaded
  <2>2. GroupInv'
    BY <1>8, CloseGateInv, SnapshotInv, ShutdownNextInv, ListRecordsInv,
       DrainNextInv, UnloadedInv DEF UnloadStep
  <2> QED  BY <1>4, <2>1, <2>2
<1> QED  BY <1>1, <1>2, <1>3, <1>5, <1>6, <1>7, <1>8 DEF Next

(* The scheduler and the engines that use it keep their invariants.        *)
THEOREM GroupSafe == Spec => [](SchedulerInv /\ GroupInv)
<1>1. Init => SchedulerInv /\ GroupInv
  BY InitInv, GroupInit DEF Init
<1>2. SchedulerInv /\ GroupInv /\ [Next]_vars => (SchedulerInv /\ GroupInv)'
  BY GroupStep
<1> QED  BY <1>1, <1>2, PTL DEF Spec

(* Nothing hides accepted background work from the unload: not an eviction *)
(* or a drop of its engine, and not a drain that ends.                     *)
THEOREM WorkSeen == Spec => []WorkIsSeen
<1>1. GroupInv => WorkIsSeen  BY DEF GroupInv
<1> QED  BY <1>1, GroupSafe, PTL

(* shutdown_all() returns with no pass owed, no extraction and no schedule *)
(* running, and no engine in use.                                          *)
THEOREM UnloadQuiet == Spec => []UnloadIsQuiet
<1>1. ASSUME SchedulerInv, GroupInv, unload = "done"
      PROVE  /\ owed = {}
             /\ \A e \in Engines : /\ idle[e] /\ caller[e] = "away"
                                   /\ host[e] = "live" => complete[e]
                                   /\ host[e] # "building"
  <2> USE <1>1 DEF GroupInv
  <2>1. \A e \in Engines : ~HasWork(e)  BY DEF WorkIsListed
  <2>2. owed = {}
    BY <2>1 DEF HasWork, SchedulerInv, SchedTypeOK
  <2>3. \A e \in Engines : idle[e]  BY <2>1 DEF HasWork
  <2>4. \A e \in Engines : caller[e] = "away" /\ host[e] # "building"
    BY DEF GateHolds
  <2>5. \A e \in Engines : host[e] = "live" => complete[e]
    BY DEF LiveIsFound, InTurn
  <2> QED  BY <2>2, <2>3, <2>4, <2>5
<1>2. SchedulerInv /\ GroupInv => UnloadIsQuiet  BY <1>1 DEF UnloadIsQuiet
<1> QED  BY <1>2, GroupSafe, PTL

(* A schedule in progress never meets the closed storage of its engine.    *)
THEOREM StorageOpen == Spec => []SchedulesOnOpenStore
<1>1. GroupInv => SchedulesOnOpenStore
  BY DEF GroupInv, ClosesAtRest, SchedulesOnOpenStore
<1> QED  BY <1>1, GroupSafe, PTL

=============================================================================
