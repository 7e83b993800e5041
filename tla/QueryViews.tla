------------------------------ MODULE QueryViews -------------------------------
(***************************************************************************)
(* The cache of retrieved evidence: a question with a typed identity keeps *)
(* its evidence as a view in the message database.  An episode of          *)
(* AdaptiveRetrievalRegistry looks the view up and reuses it, or retrieves *)
(* evidence and publishes a new version.  Triggers on `messages' count     *)
(* every change (the corpus generation) and make views of changed rows     *)
(* stale.                                                                  *)
(*                                                                         *)
(* One identity is modelled.  A text is a number; what a retrieval finds   *)
(* is any present row.  Statements outside a write transaction are steps   *)
(* of their own.  Left out: the views the evidence compiler stores under   *)
(* identities nobody looks up, and the maintenance calls without a caller. *)
(***************************************************************************)
EXTENDS Integers, Sequences, FiniteSets, TLC

CONSTANTS Controllers,   \* registries, each of an engine of its own
          Rows,          \* messages
          MaxCorpus,     \* changes of messages
          MaxClaims,     \* claims and other changes of the view
          MaxFound       \* messages an episode finds

Unborn == 0
Gone == -1
Alone == "alone"    \* no build is under way

VARIABLES corpus,    \* lcm_query_corpus_state.generation
          text,      \* content of each row
          view,      \* the row of lcm_query_views
          versions,  \* lcm_query_view_versions with their sources
          episode    \* what each controller is doing

queryVars == <<corpus, text, view, versions, episode>>

Absent == "absent"
NoEpisode == [at |-> "none", snapshot |-> 0, since |-> 0, found |-> {}, round |-> 1,
              version |-> 0, generation |-> 0, intact |-> TRUE, seen |-> 0,
              held |-> 0, base |-> 0, deps |-> {}]

QueryInit ==
    /\ corpus = 0
    /\ text \in [Rows -> {Unborn, 1}]
    /\ view = [status |-> Absent, generation |-> 0, version |-> 0, nonce |-> Alone,
               leased |-> FALSE]
    /\ versions = <<>>
    /\ episode = [c \in Controllers |-> NoEpisode]

Present == {r \in Rows : text[r] > 0}
Citation(r) == [row |-> r, text |-> text[r]]
Current(dep) == text[dep.row] = dep.text
Step(c, at) == episode' = [episode EXCEPT ![c].at = at]
Search(c) == episode' = [episode EXCEPT
                 ![c] = [NoEpisode EXCEPT !.at = "retrieve", !.snapshot = episode[c].snapshot]]

-----------------------------------------------------------------------------
(* A change of a message counts; an update or a deletion makes a view      *)
(* stale that cites the row, and takes the build away from its owner.      *)
StaleView == [view EXCEPT !.status = "stale", !.generation = @ + 1,
                          !.nonce = Alone, !.leased = FALSE]
Cites(r) == view.version > 0 /\ \E d \in versions[view.version].deps : d.row = r
InvalidatedByUpdate(r, now) ==
    IF view.status \in {"ready", "building"} /\ Cites(r) /\ now # Gone
    THEN StaleView ELSE view
Invalidated(r, now) ==
    IF view.status \in {"ready", "building"} /\ Cites(r) THEN StaleView ELSE view

Change(r, now) ==
    /\ corpus < MaxCorpus
    /\ corpus' = corpus + 1
    /\ text' = [text EXCEPT ![r] = now]
    /\ UNCHANGED <<versions, episode>>

InsertMessage(r) == text[r] = Unborn /\ Change(r, 1) /\ UNCHANGED view
UpdateMessage(r) == text[r] > 0 /\ Change(r, text[r] + 1) /\ view' = Invalidated(r, text[r] + 1)
DeleteMessage(r) == text[r] > 0 /\ Change(r, Gone) /\ view' = Invalidated(r, Gone)

LeaseRunsOut ==
    /\ view.status = "building" /\ view.leased
    /\ view' = [view EXCEPT !.leased = FALSE]
    /\ UNCHANGED <<corpus, text, versions, episode>>

TtlPasses ==
    /\ view.version > 0 /\ ~versions[view.version].old
    /\ versions' = [versions EXCEPT ![view.version].old = TRUE]
    /\ UNCHANGED <<corpus, text, view, episode>>

-----------------------------------------------------------------------------
(* start: the corpus is noted, then the view is looked up; a usable hit is *)
(* confirmed by a second look-up, which also counts it.                    *)
StartEpisode(c) ==
    /\ episode[c].at = "none"
    /\ episode' = [episode EXCEPT ![c] = [NoEpisode EXCEPT !.at = "row", !.snapshot = corpus]]
    /\ UNCHANGED <<corpus, text, view, versions>>

ReadView(c) ==
    /\ episode[c].at = "row"
    /\ IF view.status \in {Absent, "building", "failed"} \/ view.version = 0
       THEN Search(c)
       ELSE episode' = [episode EXCEPT ![c].at = IF versions[view.version].old
                                                  THEN "expire" ELSE "sources",
                                       ![c].version = view.version,
                                       ![c].generation = view.generation,
                                       ![c].intact = view.status = "ready"]
    /\ UNCHANGED <<corpus, text, view, versions>>

(* Whatever the view is by now: a rebuild under way is ended, too. *)
ExpireView(c) ==
    /\ episode[c].at = "expire"
    /\ view.generation < MaxClaims
    /\ view' = IF view.version = episode[c].version /\ view.status # "expired"
               THEN [view EXCEPT !.status = "expired", !.generation = @ + 1] ELSE view
    /\ Search(c)
    /\ UNCHANGED <<corpus, text, versions>>

ReadSources(c) ==
    /\ episode[c].at = "sources"
    /\ episode' = [episode EXCEPT ![c].at = "corpus",
           ![c].intact = @ /\ \A d \in versions[episode[c].version].deps : Current(d)]
    /\ UNCHANGED <<corpus, text, view, versions>>

ReadCorpus(c) ==
    /\ episode[c].at = "corpus"
    /\ LET fresh == episode[c].intact /\ versions[episode[c].version].covered = corpus IN
       episode' = [episode EXCEPT ![c].seen = corpus,
           ![c].held = IF fresh /\ episode[c].round = 1 THEN episode[c].version ELSE @,
           ![c].at = IF ~fresh THEN "stale"
                     ELSE IF episode[c].round = 1 THEN "again" ELSE "confirm"]
    /\ UNCHANGED <<corpus, text, view, versions>>

MarkStale(c) ==
    /\ episode[c].at = "stale"
    /\ view.generation < MaxClaims
    /\ view' = IF view.status = "ready" /\ view.version = episode[c].version
               THEN StaleView ELSE view
    /\ Search(c)
    /\ UNCHANGED <<corpus, text, versions>>

(* A view that does not meet the requirements of the episode stays a hit:   *)
(* what the episode then finds is not published.  One that exceeds the     *)
(* bounds of the controller is a miss.                                     *)
LookAgain(c) ==
    /\ episode[c].at = "again"
    /\ \/ episode' = [episode EXCEPT ![c].at = "row", ![c].round = 2]
       \/ Step(c, "unmet")
       \/ Search(c)
    /\ UNCHANGED <<corpus, text, view, versions>>

Confirmed(c) == /\ view.status = "ready" /\ view.version = episode[c].version
                /\ view.generation = episode[c].generation

ConfirmHit(c) ==
    /\ episode[c].at = "confirm"
    /\ IF Confirmed(c) THEN Step(c, "ready") ELSE Search(c)
    /\ UNCHANGED <<corpus, text, view, versions>>

-----------------------------------------------------------------------------
(* search: rounds of retrieval, at times of their own; `since' remembers   *)
(* the corpus the first of them saw.                                       *)
Retrieve(c) ==
    /\ episode[c].at = "retrieve"
    /\ \E r \in Present :
         /\ Cardinality(episode[c].found) < MaxFound /\ Citation(r) \notin episode[c].found
         /\ episode' = [episode EXCEPT ![c].found = @ \cup {Citation(r)},
                ![c].since = IF episode[c].found = {} THEN corpus ELSE @]
    /\ UNCHANGED <<corpus, text, view, versions>>

(* finish: claim, cite, publish.  A build with a live lease is not taken.  *)
SnapshotAtClaim(c) == corpus
SnapshotOf(c) == episode[c].snapshot

ClaimBuild(c) ==
    /\ episode[c].at = "retrieve" /\ episode[c].found # {}
    /\ IF view.status = "building" /\ view.leased
       THEN episode' = [episode EXCEPT ![c] = NoEpisode] /\ UNCHANGED view
       ELSE /\ view.generation < MaxClaims
            /\ view' = [view EXCEPT !.status = "building", !.nonce = c, !.leased = TRUE,
                   !.generation = IF view.status = Absent THEN 0 ELSE @ + 1]
            /\ episode' = [episode EXCEPT ![c].at = "cite", ![c].base = view.version,
                                          ![c].generation = view'.generation,
                                          ![c].snapshot = SnapshotOf(c)]
    /\ UNCHANGED <<corpus, text, versions>>

(* A citation whose quote is gone fails the build; one whose row changed   *)
(* around the quote is taken with the row's new hash.                      *)
Cite(c) ==
    /\ episode[c].at = "cite"
    /\ \/ /\ {d.row : d \in episode[c].found} \subseteq Present
          /\ episode' = [episode EXCEPT ![c].at = "publish",
                                        ![c].found = {},
                                        ![c].deps = {Citation(d.row) : d \in episode[c].found}]
       \/ /\ \E d \in episode[c].found : ~Current(d)
          /\ Step(c, "fail")
    /\ UNCHANGED <<corpus, text, view, versions>>

OwnsBuild(c) == /\ view.status = "building" /\ view.nonce = c
                /\ view.generation = episode[c].generation

PublishReady(c) ==
    /\ episode[c].at = "publish"
    /\ \/ /\ ~OwnsBuild(c)
          /\ UNCHANGED <<view, versions>> /\ episode' = [episode EXCEPT ![c] = NoEpisode]
       \/ /\ OwnsBuild(c) /\ corpus # episode[c].snapshot
          /\ view' = StaleView
          /\ UNCHANGED versions /\ episode' = [episode EXCEPT ![c] = NoEpisode]
       \/ /\ OwnsBuild(c) /\ corpus = episode[c].snapshot
          /\ \E d \in episode[c].deps : ~Current(d)
          /\ UNCHANGED <<view, versions>> /\ Step(c, "fail")
       \/ /\ OwnsBuild(c) /\ corpus = episode[c].snapshot
          /\ \A d \in episode[c].deps : Current(d)
          /\ IF view.version = episode[c].base
             THEN /\ versions' = Append(versions, [covered |-> corpus, old |-> FALSE,
                         deps |-> episode[c].deps, since |-> episode[c].since])
                  /\ view' = [view EXCEPT !.status = "ready", !.nonce = Alone,
                                          !.leased = FALSE, !.version = @ + 1]
             ELSE UNCHANGED <<view, versions>>
          /\ episode' = [episode EXCEPT ![c] = NoEpisode]
    /\ UNCHANGED <<corpus, text>>

MarkFailed(c) ==
    /\ episode[c].at = "fail"
    /\ view' = IF OwnsBuild(c)
               THEN [view EXCEPT !.status = "failed", !.nonce = Alone, !.leased = FALSE]
               ELSE view
    /\ episode' = [episode EXCEPT ![c] = NoEpisode]
    /\ UNCHANGED <<corpus, text, versions>>

(* An episode is finished, abandoned, or ends with its process. *)
EndEpisode(c) ==
    /\ episode[c].at # "none"
    /\ episode' = [episode EXCEPT ![c] = NoEpisode]
    /\ UNCHANGED <<corpus, text, view, versions>>

QueryNext ==
    \/ \E r \in Rows : InsertMessage(r) \/ UpdateMessage(r) \/ DeleteMessage(r)
    \/ LeaseRunsOut \/ TtlPasses
    \/ \E c \in Controllers :
         \/ StartEpisode(c) \/ ReadView(c) \/ ExpireView(c) \/ ReadSources(c)
         \/ ReadCorpus(c) \/ MarkStale(c) \/ LookAgain(c) \/ ConfirmHit(c)
         \/ Retrieve(c) \/ ClaimBuild(c) \/ Cite(c) \/ PublishReady(c)
         \/ MarkFailed(c) \/ EndEpisode(c)

QuerySpec == QueryInit /\ [][QueryNext]_queryVars

-----------------------------------------------------------------------------
(* Negative space: what a look-up calls a hit was retrieved entirely from  *)
(* the corpus the look-up compares it with, so no message it never saw can *)
(* bear on the question, however long retrieval and publication took.      *)
HitMissesNothing == \A c \in Controllers :
    episode[c].at \in {"again", "confirm", "ready"} =>
        versions[episode[c].version].since = episode[c].seen

(* A view that is ready cites rows as they are.                            *)
ReadyCitesWhatIs == view.status = "ready" =>
    \A d \in versions[view.version].deps : Current(d)

(* What the documentation says of reuse: evidence is reused "only when     *)
(* typed intent, requirement cardinality, exact source dependencies, and   *)
(* negative-space coverage still match" (docs/retrieval-tools.md): an      *)
(* episode that is ready holds the evidence the second look-up confirmed.  *)
ReuseStillMatches == \A c \in Controllers :
    episode[c].at = "ready" =>
        versions[episode[c].held].covered = versions[episode[c].version].covered
================================================================================
