---------------------------- MODULE MCMaintenance ----------------------------
(***************************************************************************)
(* What runs behind the conversation, in one run: the scheduler of rollup  *)
(* maintenance, the passes it runs, which bring the rollups up to date,    *)
(* and the workers of semantic search.  They share no state, so a          *)
(* behaviour is one of one of them, chosen at the start, and the state     *)
(* spaces add.                                                             *)
(***************************************************************************)
EXTENDS RollupSchedulerProps, MCRollupProgress, SemanticSearch

CONSTANTS grep, recall  \* keys of the pool

VARIABLE part  \* the part that is run

parts == <<part, schedVars, progressVars, searchVars>>

OneGrep == {grep}
OneRecall == {recall}

\* Of the initial states of a part that is not run, one is enough.
Start == /\ part \in {"scheduler", "passes", "search"}
         /\ SchedInit
         /\ Init /\ calm = FALSE /\ queued = {}
         /\ SearchInit /\ (part # "search" => signed /\ live = {})

Scheduler == part = "scheduler" /\ SchedNext /\ UNCHANGED <<part, progressVars, searchVars>>

Passes == /\ part = "passes"
          /\ Stormy \/ CalmDown \/ Calm
          /\ UNCHANGED <<part, schedVars, searchVars>>

Finds == part = "search" /\ SearchNext /\ UNCHANGED <<part, schedVars, progressVars>>

MaintenanceSpec == /\ Start /\ [][Scheduler \/ Passes \/ Finds]_parts
                   /\ WF_schedVars(Worker)
                   /\ Fairness
                   /\ SearchFairness
=============================================================================
