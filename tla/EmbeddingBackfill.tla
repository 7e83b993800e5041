--------------------------- MODULE EmbeddingBackfill ---------------------------
(***************************************************************************)
(* `/lcm embed backfill --apply': summary leaves are sent to an embedding  *)
(* provider and the vectors published, under a lease one process holds at  *)
(* a time.  A request costs money, and the answer to it may be lost, so    *)
(* every row is marked on disk before it is sent.                          *)
(*                                                                         *)
(* A lease is known by its run, which stands for the owner id and the      *)
(* generation the code compares; a run sends a row once at most.  Left     *)
(* out: the 256-row limit of the recovery (no run leaves more), budgets    *)
(* other than as a reason to stop, and the chunk corpus, which runs the    *)
(* same protocol over another discovery.                                   *)
(***************************************************************************)
EXTENDS Integers, FiniteSets, TLC

CONSTANTS Backfillers,  \* processes that run the command
          Leaves,       \* the leaf nodes of the store
          MaxRuns,      \* how often the command is run
          BatchSize     \* _EMBEDDING_BACKFILL_BATCH_SIZE

NoRun == 0

VARIABLES claimant,    \* the run whose lease is in metadata
          lapsed,      \* the lease's heartbeat is older than its TTL
          inflight,    \* lcm_embedding_backfill_inflight, by leaf
          embedded,    \* leaves with a vector of the identity
          profiled,      \* the identity is the profile in use
          job,         \* what each process is doing
          open,        \* for each leaf, its requests that were not rejected
          runs         \* runs begun

backfillVars == <<claimant, lapsed, inflight, embedded, profiled, job, open, runs>>

Free == [state |-> "none", run |-> NoRun, numbered |-> FALSE]
Off == [at |-> "off", run |-> NoRun, retry |-> FALSE, todo |-> {}, asked |-> {},
        batch |-> {}, request |-> {}, fate |-> "none"]

BackfillInit ==
    /\ claimant = NoRun /\ lapsed = FALSE
    /\ inflight = [r \in Leaves |-> Free]
    /\ embedded = {} /\ profiled = TRUE
    /\ job = [p \in Backfillers |-> Off]
    /\ open = [r \in Leaves |-> 0] /\ runs = 0

(* The rows a normal run takes up, and those --retry-uncertain is about. *)
PendingRows == {r \in Leaves \ embedded : inflight[r].state = "none"}
UncertainRows == {r \in Leaves \ embedded : inflight[r].state = "uncertain"}

Mine(p, r) == inflight[r].run = job[p].run
Sent(p, r) == Mine(p, r) /\ inflight[r].numbered /\ inflight[r].state = "dispatched"

Becomes(p, S, state) == [r \in Leaves |->
    IF r \in S THEN [inflight[r] EXCEPT !.state = state] ELSE inflight[r]]

FreedAll(p) == [r \in Leaves |->
    IF Mine(p, r) \/ inflight[r].state \notin {"claimed", "dispatched"}
    THEN inflight[r] ELSE Free]

(* The recovery of what earlier leases left: a claim was never sent, a     *)
(* dispatched row may have been.                                           *)
Recovered(p) == [r \in Leaves |->
    IF Mine(p, r) THEN inflight[r]
    ELSE CASE inflight[r].state = "claimed" -> Free
           [] inflight[r].state = "dispatched" -> [inflight[r] EXCEPT !.state = "uncertain"]
           [] OTHER -> inflight[r]]

(* What a request leaves behind that the provider rejected for certain: a  *)
(* normal row is free again, a retried one still has its old request open. *)
Rejected(p) == [r \in Leaves |->
    IF r \notin {s \in job[p].request : Sent(p, s)} THEN inflight[r]
    ELSE IF r \in job[p].asked
    THEN [inflight[r] EXCEPT !.state = "uncertain", !.numbered = FALSE]
    ELSE Free]

Doubtful(p) == Becomes(p, {r \in job[p].request : Sent(p, r)}, "uncertain")

Goes(p, step) == job' = [job EXCEPT ![p].at = step]
Holds(p) == claimant = job[p].run

-----------------------------------------------------------------------------
(* The command reads the profile, takes the lease unless a live one is     *)
(* there, and recovers what its predecessors left.                         *)
Begin(p, retry) ==
    /\ job[p].at = "off" /\ profiled /\ runs < MaxRuns
    /\ claimant = NoRun \/ lapsed
    /\ runs' = runs + 1
    /\ claimant' = runs' /\ lapsed' = FALSE
    /\ job' = [job EXCEPT ![p] = [Off EXCEPT !.at = "recover", !.run = runs', !.retry = retry]]
    /\ UNCHANGED <<inflight, embedded, profiled, open>>

Recover(p) ==
    /\ job[p].at = "recover"
    /\ IF Holds(p) THEN inflight' = Recovered(p) /\ Goes(p, "discover")
                   ELSE Goes(p, "lost") /\ UNCHANGED inflight
    /\ UNCHANGED <<claimant, lapsed, embedded, profiled, open, runs>>

Discover(p) ==
    /\ job[p].at = "discover"
    /\ LET found == IF job[p].retry THEN UncertainRows ELSE PendingRows IN
       job' = [job EXCEPT ![p].at = IF profiled THEN "next" ELSE "end",
                          ![p].todo = IF profiled THEN found ELSE {},
                          ![p].asked = IF profiled /\ job[p].retry THEN found ELSE {}]
    /\ UNCHANGED <<claimant, lapsed, inflight, embedded, profiled, open, runs>>

(* Before each batch the lease is renewed, if its heartbeat is due; the    *)
(* run also stops here when its budget is spent.                           *)
Renew(p) ==
    /\ job[p].at = "next" /\ job[p].todo # {}
    /\ \/ Holds(p) /\ lapsed' = FALSE /\ Goes(p, "reserve")
       \/ ~Holds(p) /\ Goes(p, "lost") /\ UNCHANGED lapsed
       \/ Goes(p, "reserve") /\ UNCHANGED lapsed
    /\ UNCHANGED <<claimant, inflight, embedded, profiled, open, runs>>

RunOut(p) ==
    /\ job[p].at = "next"
    /\ Goes(p, "end")
    /\ UNCHANGED <<claimant, lapsed, inflight, embedded, profiled, open, runs>>

(* A retried row stays uncertain while it is reserved. *)
Reserved(p, batch) == [r \in Leaves |->
    IF r \notin batch THEN inflight[r]
    ELSE IF r \in job[p].asked
    THEN [inflight[r] EXCEPT !.run = job[p].run, !.numbered = FALSE]
    ELSE [state |-> "claimed", run |-> job[p].run, numbered |-> FALSE]]

Reserve(p) ==
    /\ job[p].at = "reserve"
    /\ \E batch \in SUBSET job[p].todo :
         /\ Cardinality(batch) = (IF Cardinality(job[p].todo) < BatchSize
                                  THEN Cardinality(job[p].todo) ELSE BatchSize)
         /\ IF ~Holds(p) THEN Goes(p, "lost") /\ UNCHANGED inflight
            ELSE IF \E r \in batch : inflight[r].state #
                       (IF r \in job[p].asked THEN "uncertain" ELSE "none")
            THEN Goes(p, "end") /\ UNCHANGED inflight
            ELSE /\ inflight' = Reserved(p, batch)
                 /\ job' = [job EXCEPT ![p].at = "batch", ![p].batch = batch,
                                       ![p].request = {}, ![p].fate = "none",
                                       ![p].todo = @ \ batch]
    /\ UNCHANGED <<claimant, lapsed, embedded, profiled, open, runs>>

(* The provider announces each request right before it sends it. *)
Announceable(p, S) == \A r \in S :
    /\ Mine(p, r) /\ ~inflight[r].numbered
    /\ inflight[r].state = (IF r \in job[p].asked THEN "uncertain" ELSE "claimed")

Dispatch(p) ==
    /\ job[p].at = "batch" /\ job[p].fate = "none"
    /\ \E S \in SUBSET job[p].batch \ {{}} :
         IF Holds(p) /\ Announceable(p, S)
         THEN /\ inflight' = [r \in Leaves |-> IF r \in S
                    THEN [inflight[r] EXCEPT !.state = "dispatched", !.numbered = TRUE]
                    ELSE inflight[r]]
              /\ job' = [job EXCEPT ![p].at = "sending", ![p].request = S,
                                    ![p].batch = @ \ S]
         ELSE Goes(p, "failed") /\ UNCHANGED inflight
    /\ UNCHANGED <<claimant, lapsed, embedded, profiled, open, runs>>

(* Before anything is on the wire the deadline may pass, the circuit of    *)
(* the provider be open or its spend guard refuse.                         *)
NotSent(p) ==
    /\ \/ job[p].at = "sending"
       \/ job[p].at = "batch" /\ job[p].fate = "none"
    /\ \E fate \in {"rejected", "unknown"} :
         /\ job[p].at = "sending" => fate = "rejected"
         /\ job' = [job EXCEPT ![p].at = "failed", ![p].fate = fate]
    /\ UNCHANGED <<claimant, lapsed, inflight, embedded, profiled, open, runs>>

Transmit(p) ==
    /\ job[p].at = "sending"
    /\ open' = [r \in Leaves |-> open[r] + (IF r \in job[p].request THEN 1 ELSE 0)]
    /\ Goes(p, "wire")
    /\ UNCHANGED <<claimant, lapsed, inflight, embedded, profiled, runs>>

(* The answer: vectors, a rejection that is certain (authentication, a bad *)
(* request, the rate limit), or an error after which nobody knows.         *)
Answer(p) ==
    /\ job[p].at = "wire"
    /\ \/ Goes(p, "publish") /\ UNCHANGED open
       \/ /\ job' = [job EXCEPT ![p].at = "failed", ![p].fate = "rejected"]
          /\ open' = [r \in Leaves |-> open[r] - (IF r \in job[p].request THEN 1 ELSE 0)]
       \/ job' = [job EXCEPT ![p].at = "failed", ![p].fate = "unknown"] /\ UNCHANGED open
    /\ UNCHANGED <<claimant, lapsed, inflight, embedded, profiled, runs>>

(* One transaction publishes the vectors of a request; an error of the     *)
(* local store keeps those before it.  Nothing is written under a lease    *)
(* that is gone or an identity that was replaced.                          *)
PublishedOnly(p, done) == [r \in Leaves |->
    IF r \in done /\ r \in job[p].asked THEN Free ELSE inflight[r]]
Published(p, done) == [r \in Leaves |-> IF r \in done THEN Free ELSE inflight[r]]

Publishable(p) == Holds(p) /\ \A r \in job[p].request : Sent(p, r)

Publish(p) ==
    /\ job[p].at = "publish"
    /\ \/ /\ ~Publishable(p)
          /\ Goes(p, "lost")
          /\ UNCHANGED <<inflight, embedded, claimant>>
       \/ /\ Publishable(p) /\ ~profiled
          /\ inflight' = Doubtful(p)
          /\ claimant' = NoRun
          /\ Goes(p, "lost")
          /\ UNCHANGED embedded
       \/ /\ Publishable(p) /\ profiled
          /\ \E done \in SUBSET job[p].request :
               /\ embedded' = embedded \cup done
               /\ inflight' = Published(p, done)
               /\ job' = IF done = job[p].request
                         THEN [job EXCEPT ![p].at = "batch", ![p].request = {}]
                         ELSE [job EXCEPT ![p].at = "failed", ![p].fate = "unknown"]
          /\ UNCHANGED claimant
    /\ UNCHANGED <<lapsed, profiled, open, runs>>

(* An error of the batch: its last request is settled, then the rows that  *)
(* were not sent lose their claims.                                        *)
SettleBatch(p) ==
    /\ job[p].at = "failed"
    /\ IF ~Holds(p) THEN Goes(p, "lost") /\ UNCHANGED inflight
       ELSE /\ inflight' = IF job[p].fate = "rejected" THEN Rejected(p) ELSE Doubtful(p)
            /\ job' = [job EXCEPT ![p].at = "batch", ![p].request = {},
                                  ![p].fate = IF @ = "none" THEN "unknown" ELSE @]
    /\ UNCHANGED <<claimant, lapsed, embedded, profiled, open, runs>>

(* Also what happens to rows the provider skips as too long. *)
Unclaim(p) ==
    /\ job[p].at = "batch"
    /\ \E r \in job[p].batch :
         IF ~Holds(p) THEN Goes(p, "lost") /\ UNCHANGED inflight
         ELSE /\ inflight' = IF /\ r \notin job[p].asked /\ Mine(p, r)
                                /\ inflight[r].state = "claimed"
                             THEN [inflight EXCEPT ![r] = Free] ELSE inflight
              /\ job' = [job EXCEPT ![p].batch = @ \ {r},
                                    ![p].fate = IF @ = "none" THEN "skipped" ELSE @]
    /\ UNCHANGED <<claimant, lapsed, embedded, profiled, open, runs>>

(* After a batch comes the next; a failed authentication ends the run. *)
NextBatch(p) ==
    /\ job[p].at = "batch" /\ job[p].batch = {}
    /\ \/ Goes(p, "next")
       \/ job[p].fate = "rejected" /\ Goes(p, "end")
    /\ UNCHANGED <<claimant, lapsed, inflight, embedded, profiled, open, runs>>

End(p) ==
    /\ job[p].at \in {"end", "lost"}
    /\ claimant' = IF job[p].at = "end" /\ Holds(p) THEN NoRun ELSE claimant
    /\ job' = [job EXCEPT ![p] = Off]
    /\ UNCHANGED <<lapsed, inflight, embedded, profiled, open, runs>>

BackfillerDies(p) ==
    /\ job[p].at # "off"
    /\ job' = [job EXCEPT ![p] = Off]
    /\ UNCHANGED <<claimant, lapsed, inflight, embedded, profiled, open, runs>>

HeartbeatLapses ==
    /\ claimant # NoRun /\ ~lapsed
    /\ lapsed' = TRUE
    /\ UNCHANGED <<claimant, inflight, embedded, profiled, job, open, runs>>

(* /lcm embed warmup registers another identity. *)
Supersede ==
    /\ profiled /\ profiled' = FALSE
    /\ UNCHANGED <<claimant, lapsed, inflight, embedded, job, open, runs>>

BackfillNext ==
    \/ \E p \in Backfillers :
         \/ \E retry \in BOOLEAN : Begin(p, retry)
         \/ Recover(p) \/ Discover(p) \/ Renew(p) \/ RunOut(p) \/ Reserve(p)
         \/ Dispatch(p) \/ NotSent(p) \/ Transmit(p) \/ Answer(p) \/ Publish(p)
         \/ SettleBatch(p) \/ Unclaim(p) \/ NextBatch(p) \/ End(p) \/ BackfillerDies(p)
    \/ HeartbeatLapses \/ Supersede

BackfillSpec == BackfillInit /\ [][BackfillNext]_backfillVars

-----------------------------------------------------------------------------
(* A leaf whose text the provider may have accepted is never taken up by a *)
(* normal run again, however the leases, crashes and answers fall: "it     *)
(* must never be silently resent" (command.py, _embedding_pending_rows).   *)
NeverResent == \A r \in Leaves :
    open[r] > 0 => r \in embedded \/ inflight[r].state \in {"dispatched", "uncertain"}

(* A leaf that has its vector is in no state of the queue: no run reserves *)
(* what another published while it was asleep, so nothing is paid for or   *)
(* reported as uncertain again.                                            *)
EmbeddedIsDone == \A r \in embedded : inflight[r] = Free
================================================================================
