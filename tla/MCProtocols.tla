----------------------------- MODULE MCProtocols ------------------------------
(***************************************************************************)
(* Ten protocols in one run: the ingestion of a session, the hooks that    *)
(* move a conversation to its next session, the embedding backfill, the    *)
(* views of retrieved evidence, the assertion sidecar, the guards of the   *)
(* summary model, the files of large tool outputs, the claims by which a   *)
(* compression skips the model, the sessions of subagents, and semantic    *)
(* search.  They share no state in these models, so a behaviour is one of  *)
(* one of them, chosen at the start, and the state spaces add.             *)
(***************************************************************************)
EXTENDS IngestReconcile, MCSessionCarry, EmbeddingBackfill, QueryViews,
        Assertions, Escalation, ToolSidecars, Sanitation, AuxiliarySessions,
        SemanticSearch

CONSTANTS Actors,  \* the processes of each protocol
          Things,  \* its sessions, leaves or rows
          grep, recall  \* the two kinds of search

VARIABLE part  \* the protocol that is run

protocols == <<part, ingestVars, carryVars, backfillVars, queryVars,
               assertionVars, escalationVars, sidecarVars, sanitationVars, auxiliaryVars,
               searchVars>>

OneGrep == {grep}
OneRecall == {recall}

\* A chain of one model and its fallback.
TwoRoutes == <<"primary", "fallback">>

\* Of the initial states of a part that is not run, one is enough.
Start == /\ part \in {"ingest", "carry", "backfill", "views", "assertions",
                      "guards", "sidecars", "sanitation", "auxiliary",
                      "search"}
         /\ IngestInit /\ (part # "ingest" => ~stamped)
         /\ CarryInit
         /\ BackfillInit
         /\ QueryInit /\ Cardinality(Present) = (IF part = "views" THEN 1 ELSE 0)
         /\ AssertionsInit
         /\ EscalationInit
         /\ SidecarsInit /\ (part # "sidecars" => \A o \in Outputs : held[o] = NoRow)
         /\ SanitationInit /\ (part # "sanitation" => bound = "here")
         /\ AuxiliaryInit
         /\ SearchInit /\ (part # "search" => signed /\ live = {})

Ingests   == part = "ingest" /\ IngestNext
             /\ UNCHANGED <<part, carryVars, backfillVars, queryVars, assertionVars,
                            escalationVars, sidecarVars, sanitationVars, auxiliaryVars, searchVars>>
Carries   == part = "carry" /\ CarryNext
             /\ UNCHANGED <<part, ingestVars, backfillVars, queryVars, assertionVars,
                            escalationVars, sidecarVars, sanitationVars, auxiliaryVars, searchVars>>
Backfills == part = "backfill" /\ BackfillNext
             /\ UNCHANGED <<part, ingestVars, carryVars, queryVars, assertionVars,
                            escalationVars, sidecarVars, sanitationVars, auxiliaryVars, searchVars>>
Views     == part = "views" /\ QueryNext
             /\ UNCHANGED <<part, ingestVars, carryVars, backfillVars, assertionVars,
                            escalationVars, sidecarVars, sanitationVars, auxiliaryVars, searchVars>>
Asserts   == part = "assertions" /\ AssertionsNext
             /\ UNCHANGED <<part, ingestVars, carryVars, backfillVars, queryVars,
                            escalationVars, sidecarVars, sanitationVars, auxiliaryVars, searchVars>>
Guards    == part = "guards" /\ EscalationNext
             /\ UNCHANGED <<part, ingestVars, carryVars, backfillVars, queryVars,
                            assertionVars, sidecarVars, sanitationVars, auxiliaryVars, searchVars>>
Keeps     == part = "sidecars" /\ SidecarsNext
             /\ UNCHANGED <<part, ingestVars, carryVars, backfillVars, queryVars,
                            assertionVars, escalationVars, sanitationVars, auxiliaryVars, searchVars>>
Cleans    == part = "sanitation" /\ SanitationNext
             /\ UNCHANGED <<part, ingestVars, carryVars, backfillVars, queryVars,
                            assertionVars, escalationVars, sidecarVars, auxiliaryVars, searchVars>>
Crosses   == part = "auxiliary" /\ AuxiliaryNext
             /\ UNCHANGED <<part, ingestVars, carryVars, backfillVars, queryVars,
                            assertionVars, escalationVars, sidecarVars, sanitationVars, searchVars>>
Searching == part = "search" /\ SearchNext
             /\ UNCHANGED <<part, ingestVars, carryVars, backfillVars, queryVars, assertionVars,
                            escalationVars, sidecarVars, sanitationVars, auxiliaryVars>>

ProtocolsSpec ==
    Start /\ [][Ingests \/ Carries \/ Backfills \/ Views \/ Asserts \/ Guards
                \/ Keeps \/ Cleans \/ Crosses \/ Searching]_protocols

(* A bound: without source times no message is compared by the clock. *)
ClockForStamps == stamped \/ now = 1

(* A bound: nothing is unloaded, and one search at a time uses a store.     *)
(* Searches of one store wait for its lock and stores share no cache; the  *)
(* unload and searches that meet in the pool have a run of their own.      *)
SearchesMeetNot == /\ unloading = "no"
                   /\ \A s, t \in Searches : Using(s) /\ Using(t) => s = t

ProtocolsSymmetry == Permutations(Actors) \cup Permutations(Things)
=============================================================================
