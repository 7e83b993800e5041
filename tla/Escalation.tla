----------------------------- MODULE Escalation -------------------------------
(***************************************************************************)
(* How a text becomes a summary: a detailed prompt down a chain of model   *)
(* routes, then a shorter one down the same chain, then plain truncation.  *)
(* Foreground compactions, rollup builds and sweeps of one engine do this  *)
(* in different threads, and share one circuit breaker per route and one   *)
(* guard that bounds the calls made in a window of time.                   *)
(***************************************************************************)
EXTENDS Integers, Sequences

CONSTANTS Summarizers,  \* threads that make summaries with one engine's guards
          Routes,       \* the chain: a sequence of routes without repetition
          MaxCalls,     \* calls that a window may have
          WindowLength, BackoffLength,  \* of the spend guard
          Threshold, Cooldown,          \* of the breaker
          LastTick      \* bounds the clock

VARIABLES tick,      \* the monotonic clock
          recorded,  \* the guard: the ticks of the window's calls
          backoff,   \* the guard: no calls before this tick
          failures,  \* the breaker: failures in a row of each route
          reopens,   \* the breaker: the tick until which a route is open
          summary,   \* of each thread: its level, its place in the chain
          made       \* a ghost: the ticks of the calls that were made

escalationVars == <<tick, recorded, backoff, failures, reopens, summary, made>>

NoSummary == [level |-> 0, at |-> 1, phase |-> "idle"]

\* Both guards live and start with the engine.
EscalationInit == /\ tick = 0
                  /\ recorded = << >>
                  /\ backoff = 0
                  /\ failures = [r \in DOMAIN Routes |-> 0]
                  /\ reopens = [r \in DOMAIN Routes |-> 0]
                  /\ summary = [t \in Summarizers |-> NoSummary]
                  /\ made = << >>

Tock == /\ tick < LastTick /\ tick' = tick + 1
        /\ UNCHANGED <<recorded, backoff, failures, reopens, summary, made>>

-----------------------------------------------------------------------------
(* The circuit breaker.                                                    *)

RouteAllowed(r) == reopens[r] <= tick

RecordSuccess(r) == /\ failures' = [failures EXCEPT ![r] = 0]
                    /\ reopens' = [reopens EXCEPT ![r] = 0]

\* The count is kept below the threshold: more failures change nothing.
RecordFailure(r) ==
    LET n == failures[r] + 1
    IN  IF n >= Threshold
        THEN /\ failures' = [failures EXCEPT ![r] = Threshold - 1]
             /\ reopens' = [reopens EXCEPT ![r] = tick + Cooldown]
        ELSE failures' = [failures EXCEPT ![r] = n] /\ UNCHANGED reopens

-----------------------------------------------------------------------------
(* The spend guard.                                                        *)

\* The calls that are still in the window: the calls are in order, and the
\* expired ones come first.
Expired == CHOOSE k \in 0 .. Len(recorded) :
              \A i \in DOMAIN recorded : i <= k <=> recorded[i] < tick - WindowLength
Pruned == SubSeq(recorded, Expired + 1, Len(recorded))

GrantsAfterTrip == Len(Pruned) < MaxCalls
Grants == tick >= backoff /\ Len(Pruned) < MaxCalls

\* The call that fills the window trips the guard: it backs off and starts
\* afresh.
RecordCall ==
    LET calls == Append(Pruned, tick)
    IN  IF Len(calls) >= MaxCalls
        THEN /\ backoff' = tick + BackoffLength
             /\ recorded' = << >>
        ELSE recorded' = calls /\ UNCHANGED backoff

-----------------------------------------------------------------------------
(* A chain of routes, twice.                                               *)

NowAt(t, s) == summary' = [summary EXCEPT ![t] = s]

\* After the first level the second, after that truncation, without a model.
NextLevel(t) == NowAt(t, IF summary[t].level = 1
                        THEN [level |-> 2, at |-> 1, phase |-> "gate"]
                        ELSE NoSummary)

NextRoute(t) == IF summary[t].at < Len(Routes)
                THEN NowAt(t, [summary[t] EXCEPT !.at = @ + 1, !.phase = "gate"])
                ELSE NextLevel(t)

BeginSummary(t) ==
    /\ summary[t].level = 0
    /\ NowAt(t, [level |-> 1, at |-> 1, phase |-> "gate"])
    /\ UNCHANGED <<tick, recorded, backoff, failures, reopens, made>>

\* The deadline of the sweep: no route of this level is tried any more.
OutOfTime(t) ==
    /\ summary[t].phase = "gate"
    /\ NextLevel(t)
    /\ UNCHANGED <<tick, recorded, backoff, failures, reopens, made>>

AskBreaker(t) ==
    /\ summary[t].phase = "gate"
    /\ IF RouteAllowed(summary[t].at)
       THEN NowAt(t, [summary[t] EXCEPT !.phase = "reserve"])
       ELSE NextRoute(t)
    /\ UNCHANGED <<tick, recorded, backoff, failures, reopens, made>>

\* try_record_call looks and records under one lock; refused, the rest of the
\* chain is left out as well.
ReserveCall(t) ==
    /\ summary[t].phase = "reserve"
    /\ IF Grants
       THEN /\ RecordCall
            /\ made' = Append(made, tick)
            /\ NowAt(t, [summary[t] EXCEPT !.phase = "call"])
       ELSE /\ NextLevel(t)
            /\ UNCHANGED <<recorded, backoff, made>>
    /\ UNCHANGED <<tick, failures, reopens>>

\* A text that fits, a text that is too long (the route is not to blame), or
\* nothing.
Answered(t) ==
    /\ summary[t].phase = "call"
    /\ RecordSuccess(summary[t].at)
    /\ NowAt(t, NoSummary) \/ NextRoute(t)
    /\ UNCHANGED <<tick, recorded, backoff, made>>

Unanswered(t) ==
    /\ summary[t].phase = "call"
    /\ RecordFailure(summary[t].at)
    /\ NextRoute(t)
    /\ UNCHANGED <<tick, recorded, backoff, made>>

EscalationNext ==
    \/ Tock
    \/ \E t \in Summarizers : \/ BeginSummary(t) \/ OutOfTime(t) \/ AskBreaker(t)
                              \/ ReserveCall(t) \/ Answered(t) \/ Unanswered(t)

EscalationSpec == EscalationInit /\ [][EscalationNext]_escalationVars

-----------------------------------------------------------------------------
\* Whatever the threads do, no stretch of time as long as the window sees more
\* calls than the guard allows: neither several threads that find the last
\* place free, nor a chain of fallbacks, nor the fresh start after a trip.
BudgetKept == \A n \in 1 .. Len(made) - MaxCalls :
                  made[n + MaxCalls] - made[n] > WindowLength
=============================================================================
