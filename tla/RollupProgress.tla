--------------------------- MODULE RollupProgress ----------------------------
(***************************************************************************)
(* What maintenance achieves once the session is calm: the nodes no longer *)
(* change and no pass is cut short.  The engine calls maintenance again    *)
(* and again, so a pass that can go on does (weak fairness); a lease that  *)
(* nobody renews expires, and the backoff of a failure ends (strong        *)
(* fairness of the choices that see it).                                   *)
(***************************************************************************)
EXTENDS RollupStore

CONSTANT Asked  \* days an operator asks rebuilds for

ASSUME AskedAssumption == Asked \subseteq Days

VARIABLES
    calm,
    queued  \* targets a rebuild command reported "stale (bounded; not attempted)"

progressVars == <<vars, calm, queued>>

CalmDown == ~calm /\ calm' = TRUE /\ UNCHANGED <<vars, queued>>

Calm == calm /\ UNCHANGED <<calm, queued>> /\ \E b \in Builders : Maintenance(b)

(* Before the calm anything happens; or the session has a history and an    *)
(* operator asks for rebuilds.                                              *)
Stormy == ~calm /\ Next /\ UNCHANGED <<calm, queued>>

Backlog ==
    /\ ~calm /\ UNCHANGED calm
    /\ \/ \E b \in Builders : Build(b) /\ UNCHANGED queued
       \/ \E b \in Operators, d \in Asked : \E t \in Targets(d) :
             /\ Rebuild(b, t)
             /\ queued' = queued \cup {t[i] : i \in {k \in DOMAIN t : k > BuildsPerPass}}

Reclaims(b, p) ==
    calm /\ Reclaim(b) /\ rollup'[p] # rollup[p] /\ UNCHANGED <<calm, queued>>

Lists(b, p) ==
    /\ calm /\ List(b) /\ UNCHANGED <<calm, queued>>
    /\ \E i \in DOMAIN todo'[b] : todo'[b][i] = p

Fairness ==
    \A b \in Builders :
        /\ WF_progressVars(calm /\ Maintenance(b) /\ UNCHANGED <<calm, queued>>)
        /\ \A p \in Periods : SF_progressVars(Reclaims(b, p)) /\ SF_progressVars(Lists(b, p))

(* Nothing has failed and no lease is dead in a backlog.                    *)
BacklogFairness ==
    \A b \in Builders : WF_progressVars(calm /\ Maintenance(b) /\ UNCHANGED <<calm, queued>>)

StormSpec ==
    /\ Init /\ calm = FALSE /\ queued = {}
    /\ [][Stormy \/ CalmDown \/ Calm]_progressVars /\ Fairness

BacklogSpec ==
    /\ Init /\ calm = FALSE /\ queued = {}
    /\ [][Backlog \/ CalmDown \/ Calm]_progressVars /\ BacklogFairness

-----------------------------------------------------------------------------
Fresh(p) ==
    IF Wanted(p) = {} THEN rollup[p].status = "absent" ELSE rollup[p].status = "ready"

(* Whatever happened before, races, crashes, failures and partial drains    *)
(* included, once the session is calm the bounded passes bring every period *)
(* with content to a current rollup and clear every other, for good.        *)
EverythingFresh ==
    <>[](calm => outbox = {} /\ \A p \in Periods : Fresh(p))

(* The targets of a rebuild beyond the limit of a command "remain as durable *)
(* stale rows, so later automatic maintenance builds them",                 *)
(* docs/operator-guide.md:394.                                              *)
QueuedIsBuilt ==
    \A p \in Aggregates :
        calm /\ p \in queued /\ rollup[p].status = "stale" ~> rollup[p].status # "stale"

=============================================================================
