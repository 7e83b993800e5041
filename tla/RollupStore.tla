----------------------------- MODULE RollupStore -----------------------------
(***************************************************************************)
(* Temporal rollups of hermes-lcm: one summary per day, week and month of  *)
(* a session, derived from its summary nodes (src/rollup_store.py,         *)
(* src/rollup_builder.py, and the triggers of src/db_bootstrap.py).        *)
(*                                                                         *)
(* A change to a node puts an event into an outbox, in the transaction of  *)
(* the change.  A maintenance pass drains the outbox, which marks the      *)
(* touched periods stale, takes back expired leases, lists what needs a    *)
(* build, and builds: it claims the period, reads the sources, calls a     *)
(* model without a lock, and publishes if it still holds the claim.        *)
(* Passes run in several processes; every step below is one transaction or *)
(* one read.                                                               *)
(*                                                                         *)
(* A period is the set of its days.  The text of a node never changes, so  *)
(* the text of a rollup is the set of nodes it was computed from.          *)
(***************************************************************************)
EXTENDS Naturals, Sequences, FiniteSets

CONSTANTS
    NumDays,       \* the calendar is the days 1..NumDays
    Calendar,      \* its weeks and months, in the order maintenance lists them
    Builders,      \* processes that run maintenance
    Operators,     \* those of them that take the rebuild command
    NoBuilder,     \* an empty lease_nonce
    EventLimit,    \* events and days one drain takes from the outbox (256)
    DayBudget,
    BuildsPerPass, \* rollup_builds_per_pass
    History,       \* leaves from before the feature was enabled, without events
    Spans,         \* the first and last days of the leaves
    MaxNodes,      \* bound on the nodes ever published
    MaxPending     \* with so many events in the outbox no node is changed

Days       == 1..NumDays
Aggregates == {Calendar[i] : i \in DOMAIN Calendar}
Periods    == {{d} : d \in Days} \cup Aggregates

ASSUME RollupAssumption ==
    /\ NumDays \in Nat /\ Calendar \in Seq(SUBSET Days)
    /\ \A p \in Aggregates : \A d \in Days : p # {d}
    /\ NoBuilder \notin Builders /\ Operators \subseteq Builders
    /\ EventLimit \in Nat \ {0} /\ DayBudget \in Nat \ {0}
    /\ BuildsPerPass \in Nat \ {0} /\ MaxNodes \in Nat
    /\ MaxPending \in Nat 
    /\ Spans \subseteq Days \X Days /\ History \in Seq(Days \X Days)

VARIABLES
    nodes,  \* nodes[n] is the summary node with id n
    outbox, \* lcm_rollup_invalidations
    rollup, \* lcm_rollups and lcm_rollup_sources, by period
    todo,   \* the periods the pass of each process has still to build
    job     \* the build each process is in

vars == <<nodes, outbox, rollup, todo, job>>

(* parent is the node that condensed it, or 0.  A node is in the session,   *)
(* was carried to another one, or is deleted.                               *)
Node == [days : SUBSET Days, parent : Nat, at : {"here", "away", "deleted"}]

(* days is the covered span, left what next_day has still to reach.         *)
Event == [id : Nat, days : SUBSET Days, left : SUBSET Days]

(* lease stands for generation and lease_nonce.  The nonce is fresh for     *)
(* every claim and every statement that advances the generation replaces or *)
(* clears it, so a token matches the row exactly while its holder is named. *)
Rollup == [status : {"absent", "stale", "building", "ready", "failed"},
           lease : Builders \cup {NoBuilder}, sources : SUBSET Nat]

NoRollup == [status |-> "absent", lease |-> NoBuilder, sources |-> {}]

Phases == {"idle", "reclaim", "list", "claim", "read", "content", "lineage",
           "texts", "model", "resolve", "defer", "aggregates"}

(* ready is what _daily_statuses returned, sources what the text is made of *)
Job == [phase : Phases, period : SUBSET Days, ready : SUBSET Days,
        sources : SUBSET Nat]

NoJob == [phase |-> "idle", period |-> {}, ready |-> {}, sources |-> {}]

-----------------------------------------------------------------------------
(***************************************************************************)
(* Sources                                                                 *)
(***************************************************************************)
NodeIds == 1..Len(nodes)
Here    == {n \in NodeIds : nodes[n].at = "here"}
Stored  == {n \in NodeIds : nodes[n].at # "deleted"}

(* canonical_frontier: a node gives way to a candidate that condenses it,   *)
(* through stored nodes.  Parents are younger than what they condense.      *)
Canonical(S) ==
    LET above[n \in NodeIds] ==
            LET p == nodes[n].parent
            IN  IF p \in Stored /\ p > n THEN {p} \cup above[p] ELSE {}
    IN  {n \in S \cap Stored : above[n] \cap S = {}}

Touching(S, p) == {n \in S : nodes[n].days \cap p # {}}

(* _daily_sources, and what an aggregate of current days is made of         *)
Wanted(p) == Touching(Canonical(Here), p)

Pending(p) == \E e \in outbox : e.days \cap p # {}

-----------------------------------------------------------------------------
(***************************************************************************)
(* Marking                                                                 *)
(***************************************************************************)
Stale(r) == [r EXCEPT !.status = "stale", !.lease = NoBuilder]

MarkStale(P) == [p \in Periods |-> IF p \in P THEN Stale(rollup[p]) ELSE rollup[p]]

(* drain_invalidations: the first events, day by day, until the day budget  *)
(* is used up.  An event leaves the outbox with its last day.               *)
Drain ==
    LET first == {e \in outbox : Cardinality({f \in outbox : f.id < e.id}) < EventLimit}
        work  == UNION {{<<e.id, d>> : d \in e.left} : e \in first}
        before(w) == {v \in work : v[1] < w[1] \/ (v[1] = w[1] /\ v[2] < w[2])}
        done  == {w \in work : Cardinality(before(w)) < DayBudget}
        rest(e) == {d \in e.left : <<e.id, d>> \notin done}
    IN  /\ rollup' = MarkStale({p \in Periods : \E w \in done : w[2] \in p})
        /\ outbox' = {[e EXCEPT !.left = rest(e)] : e \in {f \in outbox : rest(f) # {}}}

(* The triggers on summary_nodes: one event for every node of days, over    *)
(* days[n].                                                                 *)
Announced(days) ==
    LET latest == {e.id : e \in outbox} \cup {0}
        base   == CHOOSE i \in latest : \A k \in latest : k <= i
        S      == DOMAIN days
    IN  {[id |-> base + Cardinality({m \in S : m <= n}), days |-> days[n],
          left |-> days[n]] : n \in S}

(* A deliberate bug: the trigger reports only the newest day of the span.   *)
AnnounceNewest(days) ==
    LET newest(D) == {d \in D : \A k \in D : k <= d}
    IN  outbox' = outbox \cup Announced([n \in DOMAIN days |-> newest(days[n])])

Announce(days) == outbox' = outbox \cup Announced(days)

Span(a, b) == {d \in Days : a <= d /\ d <= b}

Leaf(a, b) == [days |-> Span(a, b), parent |-> 0, at |-> "here"]

-----------------------------------------------------------------------------
Init ==
    /\ nodes = [i \in DOMAIN History |-> Leaf(History[i][1], History[i][2])]
    /\ outbox = {}
    /\ rollup = [p \in Periods |-> NoRollup]
    /\ todo = [b \in Builders |-> <<>>]
    /\ job = [b \in Builders |-> NoJob]

(***************************************************************************)
(* Changes to the nodes of the session                                     *)
(***************************************************************************)
(* A leaf is published over some days.                                      *)
PublishLeaf(a, b) ==
    LET new == Len(nodes) + 1
    IN  /\ new <= MaxNodes /\ a <= b
        /\ nodes' = Append(nodes, Leaf(a, b))
        /\ Announce([n \in {new} |-> Span(a, b)])
        /\ UNCHANGED <<rollup, todo, job>>

(* Nodes nobody condensed are condensed; the parent spans them all.         *)
PublishParent(S) ==
    LET new == Len(nodes) + 1
        all == UNION {nodes[n].days : n \in S}
        hull == {d \in Days : \E i, k \in all : i <= d /\ d <= k}
    IN  /\ new <= MaxNodes /\ S # {} /\ S \subseteq Canonical(Here)
        /\ nodes' = Append([n \in NodeIds |-> IF n \in S THEN [nodes[n] EXCEPT !.parent = new]
                                              ELSE nodes[n]],
                           [days |-> hull, parent |-> 0, at |-> "here"])
        /\ Announce([n \in {new} |-> hull])
        /\ UNCHANGED <<rollup, todo, job>>

(* A batch of nodes is deleted; the outbox shown is that of the session.    *)
DeleteNodes(S) ==
    /\ S # {} /\ S \subseteq Stored
    /\ nodes' = [n \in NodeIds |-> IF n \in S THEN [nodes[n] EXCEPT !.at = "deleted"]
                                   ELSE nodes[n]]
    /\ Announce([n \in S \cap Here |-> nodes[n].days])
    /\ UNCHANGED <<rollup, todo, job>>

(* reassign_session_nodes carries all nodes out of the session, or back.    *)
CarryNodes(from, to) ==
    LET S == {n \in NodeIds : nodes[n].at = from}
    IN  /\ S # {} /\ from # to
        /\ nodes' = [n \in NodeIds |-> IF n \in S THEN [nodes[n] EXCEPT !.at = to]
                                       ELSE nodes[n]]
        /\ Announce([n \in S |-> nodes[n].days])
        /\ UNCHANGED <<rollup, todo, job>>

(* The engine drains after a publication of its own.                        *)
DrainAfterPublication == Drain /\ outbox # {} /\ UNCHANGED <<nodes, todo, job>>

-----------------------------------------------------------------------------
(***************************************************************************)
(* A pass: run_rollup_maintenance, or /lcm rollups rebuild                 *)
(***************************************************************************)
At(b, phase) == job[b].phase = phase
Go(b, phase) == job' = [job EXCEPT ![b].phase = phase]
Return(b)    == job' = [job EXCEPT ![b] = NoJob]

BeginPass(b) ==
    /\ At(b, "idle") /\ todo[b] = <<>>
    /\ Drain /\ Go(b, "reclaim")
    /\ UNCHANGED <<nodes, todo>>

(* reclaim_stale_building: any build may have outlived its lease.           *)
Reclaim(b) ==
    /\ At(b, "reclaim") /\ Go(b, "list")
    /\ \E P \in SUBSET {p \in Periods : rollup[p].status = "building"} :
          rollup' = MarkStale(P)
    /\ UNCHANGED <<nodes, outbox, todo>>

Limited(seq) ==
    SubSeq(seq, 1, IF Len(seq) < BuildsPerPass THEN Len(seq) ELSE BuildsPerPass)

Orders(S) == {s \in [1..Cardinality(S) -> S] : {s[i] : i \in DOMAIN s} = S}

(* The order of the queries: by period_start, and Calendar lists the        *)
(* aggregates in it.                                                        *)
Before(p, q) ==
    \/ \E i, k \in Days : i < k /\ p = {i} /\ q = {k}
    \/ \E i, k \in DOMAIN Calendar : i < k /\ p = Calendar[i] /\ q = Calendar[k]

With(status, P) == {p \in P : rollup[p].status = status}

StaleOf(P) == {s \in Orders(With("stale", P)) :
                  \A i, k \in DOMAIN s : i < k => Before(s[i], s[k])}

(* A failure is due again after a while, the oldest first.                  *)
DueOf(P) == UNION {Orders(S) : S \in SUBSET With("failed", P)}

(* A deliberate bug: what failed is not tried again.                        *)
ListStale(b) ==
    /\ At(b, "list") /\ Return(b)
    /\ \E days \in StaleOf(Periods \ Aggregates), aggregates \in StaleOf(Aggregates) :
          todo' = [todo EXCEPT ![b] = Limited(days \o aggregates)]
    /\ UNCHANGED <<nodes, outbox, rollup>>

(* Stale days come first, then days that failed, then the aggregates in the *)
(* same way.  The four queries of a pass are taken as one read.             *)
List(b) ==
    /\ At(b, "list") /\ Return(b)
    /\ \E days \in StaleOf(Periods \ Aggregates), aggregates \in StaleOf(Aggregates),
          r \in DueOf(Periods \ Aggregates), s \in DueOf(Aggregates) :
          todo' = [todo EXCEPT ![b] = Limited(days \o r \o aggregates \o s)]
    /\ UNCHANGED <<nodes, outbox, rollup>>

(* The rebuild command names a day, its week, its month, or all of them in  *)
(* this order.                                                              *)
Targets(d) ==
    LET over == {p \in Aggregates : d \in p}
        longer(s) == \A i, k \in DOMAIN s : i < k => Cardinality(s[i]) <= Cardinality(s[k])
    IN  {<<{d}>>} \cup {<<p>> : p \in over}
            \cup {<<{d}>> \o s : s \in {o \in Orders(over) : longer(o)}}

(* It seeds what is not being built, with the aggregates of a day, and      *)
(* builds as many targets as a pass may.                                    *)
Rebuild(b, targets) ==
    LET named == {targets[i] : i \in DOMAIN targets}
        seeds == named \cup {p \in Aggregates : \E d \in Days : {d} \in named /\ d \in p}
    IN  /\ At(b, "idle") /\ todo[b] = <<>>
        /\ rollup' = MarkStale({p \in seeds : rollup[p].status # "building"})
        /\ todo' = [todo EXCEPT ![b] = Limited(targets)]
        /\ UNCHANGED <<nodes, outbox, job>>

(* The time budget of the pass is used up, or the process dies.             *)
EndPass(b) ==
    /\ todo[b] # <<>> \/ job[b] # NoJob
    /\ todo' = [todo EXCEPT ![b] = <<>>] /\ Return(b)
    /\ UNCHANGED <<nodes, outbox, rollup>>

-----------------------------------------------------------------------------
(***************************************************************************)
(* A build: build_day and _build_aggregate                                 *)
(***************************************************************************)
IsDay(p) == p \notin Aggregates

Set(b, r) == rollup' = [rollup EXCEPT ![job[b].period] = r]

(* Every build drains once more before it claims.                           *)
NextBuild(b) ==
    /\ At(b, "idle") /\ todo[b] # <<>>
    /\ Drain
    /\ job' = [job EXCEPT ![b] = [NoJob EXCEPT !.phase = "claim", !.period = Head(todo[b])]]
    /\ todo' = [todo EXCEPT ![b] = Tail(@)]
    /\ UNCHANGED nodes

(* upsert_building: the sources of the last publication stay.               *)
Claim(b) ==
    LET r == rollup[job[b].period]
    IN  /\ At(b, "claim") /\ Go(b, "read")
        /\ Set(b, [r EXCEPT !.status = "building", !.lease = b])
        /\ UNCHANGED <<nodes, outbox, todo>>

(* A deliberate bug: any builder of the period publishes.                   *)
OwnsStatus(b) == rollup[job[b].period].status = "building"

(* The compare-and-set of every statement that ends a build.                *)
Owns(b) ==
    LET r == rollup[job[b].period] IN r.status = "building" /\ r.lease = b

ReadDay(b) ==
    LET sources == Wanted(job[b].period)
    IN  /\ At(b, "read") /\ IsDay(job[b].period)
        /\ job' = [job EXCEPT ![b].phase = IF sources = {} THEN "resolve" ELSE "model",
                              ![b].sources = sources]
        /\ UNCHANGED <<nodes, outbox, rollup, todo>>

(* An aggregate reads the status of its days, then which of them have       *)
(* content, then the sources of the ready ones, then the nodes themselves.  *)
ReadStatuses(b) ==
    LET ready == {d \in job[b].period : rollup[{d}].status = "ready"}
    IN  /\ At(b, "read") /\ ~IsDay(job[b].period)
        /\ job' = [job EXCEPT ![b].phase = "content", ![b].ready = ready]
        /\ UNCHANGED <<nodes, outbox, rollup, todo>>

ReadContent(b) ==
    LET j == job[b]
    IN  /\ At(b, "content")
        /\ Go(b, IF \E d \in j.period \ j.ready : Wanted({d}) # {} THEN "defer"
                 ELSE IF j.ready = {} THEN "resolve" ELSE "lineage")
        /\ UNCHANGED <<nodes, outbox, rollup, todo>>

ReadLineage(b) ==
    /\ At(b, "lineage")
    /\ job' = [job EXCEPT ![b].phase = "texts",
                          ![b].sources = UNION {rollup[{d}].sources : d \in job[b].ready}]
    /\ UNCHANGED <<nodes, outbox, rollup, todo>>

ReadTexts(b) ==
    LET sources == Canonical(job[b].sources)
    IN  /\ At(b, "texts")
        /\ job' = [job EXCEPT ![b].phase = IF sources = {} THEN "defer" ELSE "model",
                              ![b].sources = sources]
        /\ UNCHANGED <<nodes, outbox, rollup, todo>>

(* A deliberate bug: the outbox is not looked at.                           *)
PublishBlindly(b) ==
    LET j == job[b]
    IN  /\ At(b, "model") /\ Owns(b)
        /\ Set(b, [status |-> "ready", lease |-> NoBuilder, sources |-> j.sources])
        /\ IF IsDay(j.period) THEN Go(b, "aggregates") ELSE Return(b)
        /\ UNCHANGED <<nodes, outbox, todo>>

(* mark_ready refuses while an event over the period waits or a source is   *)
(* gone; a published day marks its aggregates next.                         *)
Publish(b) ==
    LET j == job[b]
    IN  /\ At(b, "model") /\ Owns(b)
        /\ IF Pending(j.period) \/ ~(j.sources \subseteq Stored)
           THEN Set(b, Stale(rollup[j.period])) /\ Return(b)
           ELSE /\ Set(b, [status |-> "ready", lease |-> NoBuilder, sources |-> j.sources])
                /\ IF IsDay(j.period) THEN Go(b, "aggregates") ELSE Return(b)
        /\ UNCHANGED <<nodes, outbox, todo>>

MarkAggregates(b) ==
    /\ At(b, "aggregates") /\ Return(b)
    /\ rollup' = MarkStale({p \in Aggregates : job[b].period \subseteq p})
    /\ UNCHANGED <<nodes, outbox, todo>>

(* A deliberate bug: a row that was taken back is deleted all the same.     *)
ResolveAnyway(b) ==
    /\ At(b, "resolve")
    /\ Set(b, NoRollup) /\ Return(b)
    /\ UNCHANGED <<nodes, outbox, todo>>

(* resolve_no_source deletes the row, defer_incomplete gives it back.       *)
Resolve(b) ==
    /\ At(b, "resolve") /\ Owns(b)
    /\ Set(b, NoRollup) /\ Return(b)
    /\ UNCHANGED <<nodes, outbox, todo>>

Defer(b) ==
    /\ At(b, "defer") /\ Owns(b)
    /\ Set(b, Stale(rollup[job[b].period])) /\ Return(b)
    /\ UNCHANGED <<nodes, outbox, todo>>

(* A build that lost its claim changes nothing.                             *)
Superseded(b) ==
    /\ job[b].phase \in {"model", "resolve", "defer"} /\ ~Owns(b)
    /\ Return(b)
    /\ UNCHANGED <<nodes, outbox, rollup, todo>>

(* Any read, write or model call may raise: mark_failed, if it works, and   *)
(* the pass goes on.                                                        *)
Fail(b) ==
    /\ job[b].phase \notin {"idle", "reclaim", "list"} /\ Return(b)
    /\ \/ UNCHANGED rollup
       \/ /\ job[b].phase # "claim" /\ Owns(b)
          /\ Set(b, [rollup[job[b].period] EXCEPT !.status = "failed", !.lease = NoBuilder])
    /\ UNCHANGED <<nodes, outbox, todo>>

-----------------------------------------------------------------------------
Mutation ==
    /\ Cardinality(outbox) < MaxPending
    /\ \/ \E s \in Spans : PublishLeaf(s[1], s[2])
       \/ \E S \in SUBSET NodeIds : PublishParent(S) \/ DeleteNodes(S)
       \/ CarryNodes("here", "away") \/ CarryNodes("away", "here")

Build(b) ==
    \/ NextBuild(b) \/ Claim(b) \/ ReadDay(b) \/ ReadStatuses(b) \/ ReadContent(b)
    \/ ReadLineage(b) \/ ReadTexts(b) \/ Publish(b) \/ MarkAggregates(b)
    \/ Resolve(b) \/ Defer(b) \/ Superseded(b)

Maintenance(b) == BeginPass(b) \/ Reclaim(b) \/ List(b) \/ Build(b)

Next ==
    \/ Mutation \/ DrainAfterPublication
    \/ \E b \in Builders : Maintenance(b) \/ EndPass(b) \/ Fail(b)
    \/ \E b \in Operators, d \in Days : \E t \in Targets(d) : Rebuild(b, t)

Spec == Init /\ [][Next]_vars

=============================================================================
