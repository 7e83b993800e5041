----------------------------- MODULE SemanticSearch -----------------------------
(***************************************************************************)
(* Semantic search: a worker thread borrows a vector store from a small    *)
(* pool, ranks the vectors of the corpus, and gives the store back; the    *)
(* unload of the plugin waits for the workers and closes the pool, while   *)
(* other processes write vectors (src/retrieval_core.py, src/tools.py,     *)
(* src/vector_store.py).                                                   *)
(*                                                                         *)
(* The corpus is that of one identity, whose vectors all have sign bits or *)
(* none has.  A search is not filtered, and its limit is not below the     *)
(* size of the corpus, so that ranking loses nothing.  A search stands for *)
(* a place among the worker slots, with the call that waits for it; a call *)
(* that finds no place, or a closed pool, degrades and changes nothing.    *)
(***************************************************************************)
EXTENDS Integers, FiniteSets

CONSTANTS Searches,  \* _LCM_SEMANTIC_MAX_WORKERS places
          Grep,      \* keys of the pool whose searches stop at ScanRows
          Recall,    \* keys whose searches cover the corpus in batches
          Nodes,     \* summary nodes, newer ones greater
          ScanRows,  \* bounded_scan_rows
          PoolMax,   \* _POOL_MAX_PATHS
          CacheMax,  \* _MATRIX_CACHE_MAX_ENTRIES
          MaxVersion \* bound on data_version, from its value at the start

ASSUME SearchAssumption == /\ Nodes \subseteq Nat /\ IsFiniteSet(Nodes)
                           /\ Grep \cap Recall = {}
                           /\ ScanRows \in Nat \ {0}
                           /\ PoolMax \in Nat \ {0} /\ CacheMax \in Nat \ {0}

PoolKeys == Grep \cup Recall  \* (db_path, bounded_scan_rows)

VARIABLES signed,         \* the identity has sign bits
          live,           \* nodes with a vector
          orphans,        \* deleted nodes that still have one
          gone,           \* deleted nodes that have none
          dataVersion,    \* data_version of the profile
          pooled,         \* keys of _vector_store_pool
          matrices,       \* _matrix_cache of each pooled store
          signs,          \* its _binary_matrix_cache
          searches,       \* the worker and the call of each search
          poolClosed,     \* _pool_closed
          registryClosed, \* _deadline_worker_registry_closed
          unloading,      \* where the unload is
          joining         \* the workers it joins

corpusVars == <<signed, live, orphans, gone, dataVersion>>
poolVars == <<pooled, matrices, signs, searches>>
unloadVars == <<poolClosed, registryClosed, unloading, joining>>
searchVars == <<corpusVars, poolVars, unloadVars>>

NoSearch == [at |-> "off", key |-> CHOOSE k \in PoolKeys : TRUE, count |-> 0,
             version |-> 0, todo |-> {}, keep |-> FALSE, hits |-> {},
             coverage |-> "none", steady |-> {}]

SearchInit == /\ signed \in BOOLEAN
              /\ live \in SUBSET Nodes
              /\ orphans = {} /\ gone = {} /\ dataVersion = 0
              /\ pooled = {}
              /\ matrices = [k \in PoolKeys |-> {}]
              /\ signs = [k \in PoolKeys |-> {}]
              /\ searches = [s \in Searches |-> NoSearch]
              /\ poolClosed = FALSE /\ registryClosed = FALSE
              /\ unloading = "no" /\ joining = {}

Vectors == live \cup orphans

(* The n most recent nodes of S. *)
Newest(S, n) == {x \in S : Cardinality({y \in S : y > x}) < n}
-----------------------------------------------------------------------------
(* Writers, in this process or another, use stores of their own.  `steady' *)
(* is a history variable: the nodes that were there all through a search.  *)

(* Each row bumps the version in the transaction that writes it. *)
Bumped(n) == dataVersion + n

PublishVectors(S) ==
    /\ S # {} /\ S \cap (Vectors \cup gone) = {}
    /\ dataVersion + Cardinality(S) <= MaxVersion
    /\ live' = live \cup S
    /\ dataVersion' = Bumped(Cardinality(S))
    /\ UNCHANGED <<signed, orphans, gone, poolVars, unloadVars>>

NotSteady(S) == searches' = [s \in Searches |-> [searches[s] EXCEPT !.steady = @ \ S]]

(* A reset deletes nodes in one transaction and their vectors in the next, *)
(* if it can; `/new' and the cleaning commands do both in one.             *)
DropNodes(S) ==
    /\ S # {} /\ S \subseteq live
    /\ live' = live \ S
    /\ NotSteady(S)
    /\ \/ orphans' = orphans \cup S /\ UNCHANGED <<gone, dataVersion>>
       \/ /\ dataVersion < MaxVersion
          /\ gone' = gone \cup S /\ dataVersion' = Bumped(1)
          /\ UNCHANGED orphans
    /\ UNCHANGED <<signed, pooled, matrices, signs, unloadVars>>

PurgeOrphans(S) ==
    /\ S # {} /\ S \subseteq orphans
    /\ dataVersion < MaxVersion
    /\ orphans' = orphans \ S /\ gone' = gone \cup S
    /\ dataVersion' = Bumped(1)
    /\ UNCHANGED <<signed, live, poolVars, unloadVars>>
-----------------------------------------------------------------------------
(* The pool.  A store is reserved under the pool's lock, and its own lock  *)
(* is waited for without it.                                               *)

Querying == {"count", "vectors", "signs", "load", "rescore", "probe", "batch",
             "fetch", "leave"}
Holding(s) == searches[s].at \in Querying
Using(s) == Holding(s) \/ searches[s].at \in {"reserved", "left"}

UsersOf(k) == {s \in Searches : Using(s) /\ searches[s].key = k}

(* The stores that nobody uses once search s does not count. *)
Unlocked(s) == {k \in PoolKeys : \A t \in UsersOf(k) \ {s} : ~Holding(t)}
Unused(s) == {k \in PoolKeys : UsersOf(k) \subseteq {s}}

(* What can be left of pool p after its idle stores in excess are closed.  *)
(* Which of them were used last is left open, as it is of the caches.      *)
Evictions(p, idle) ==
    LET excess == Cardinality(p) - PoolMax
        spare == Cardinality(p \cap idle) IN
    {p \ E : E \in {D \in SUBSET (p \cap idle) :
        Cardinality(D) = IF excess <= 0 THEN 0 ELSE IF excess < spare THEN excess ELSE spare}}

(* A closed store loses its caches. *)
CachesOf(cache, p) == [k \in PoolKeys |-> IF k \in p THEN cache[k] ELSE {}]

PoolBecomes(p) == /\ pooled' = p
                  /\ matrices' = CachesOf(matrices, p)
                  /\ signs' = CachesOf(signs, p)

SearchIs(s, record) == searches' = [searches EXCEPT ![s] = record]
Proceeds(s, step) == SearchIs(s, [searches[s] EXCEPT !.at = step])

BorrowStore(s, k) ==
    /\ searches[s].at = "off" /\ ~poolClosed
    /\ SearchIs(s, [NoSearch EXCEPT !.at = "reserved", !.key = k, !.steady = live])
    /\ \E p \in Evictions(pooled \cup {k}, Unused(s) \ {k}) : PoolBecomes(p)
    /\ UNCHANGED <<corpusVars, unloadVars>>

TakeStore(s) ==
    /\ searches[s].at = "reserved"
    /\ \A t \in Searches : Holding(t) => searches[t].key # searches[s].key
    /\ Proceeds(s, "count")
    /\ UNCHANGED <<pooled, matrices, signs>>

Unlock(s) ==
    /\ searches[s].at = "leave"
    /\ SearchIs(s, [NoSearch EXCEPT !.at = "left", !.key = searches[s].key,
                                 !.hits = searches[s].hits])
    /\ UNCHANGED <<pooled, matrices, signs>>

Release(s) ==
    /\ searches[s].at = "left"
    /\ SearchIs(s, IF searches[s].hits = {} THEN NoSearch
                  ELSE [NoSearch EXCEPT !.at = "answered"])
    /\ \E p \in Evictions(pooled, Unused(s)) : PoolBecomes(p)
-----------------------------------------------------------------------------
(* The search, on the store that is held.  Its statements are transactions *)
(* of their own.                                                           *)

Answers(s, coverage, hits) ==
    SearchIs(s, [searches[s] EXCEPT !.at = "leave", !.coverage = coverage, !.hits = hits,
                                   !.todo = {}, !.version = 0, !.keep = FALSE])

(* The two counts of _binary_fully_synced. *)
CountSigns(s) ==
    /\ searches[s].at = "count"
    /\ SearchIs(s, [searches[s] EXCEPT !.at = "vectors",
                     !.count = IF signed THEN Cardinality(Vectors) ELSE 0])
    /\ UNCHANGED <<pooled, matrices, signs>>

CountVectors(s) ==
    /\ searches[s].at = "vectors"
    /\ LET synced == searches[s].count > 0 /\ searches[s].count = Cardinality(Vectors)
       IN SearchIs(s, [searches[s] EXCEPT !.at = IF synced THEN "signs" ELSE "probe",
                                         !.count = 0])
    /\ UNCHANGED <<pooled, matrices, signs>>

(* A matrix cached under the version of the data and the ids asked for. *)
Cached(cache, ids) == {m \in cache : m.version = dataVersion /\ m.ids = ids}

Cachings(cache, m) ==
    IF Cardinality(cache) < CacheMax THEN {cache \cup {m}}
    ELSE {(cache \ {old}) \cup {m} : old \in cache}

(* The prescreen ranks the whole corpus by its sign bits; a cached matrix  *)
(* stands for it while the version is the same.                            *)
EveryNode == {}  \* a matrix of signs is of no set of ids

Prescreened(s, rows) ==
    IF rows = {} THEN Answers(s, "none", {})
    ELSE SearchIs(s, [searches[s] EXCEPT !.at = "rescore", !.todo = rows, !.version = 0])

ReadSigns(s) ==
    /\ searches[s].at = "signs"
    /\ LET k == searches[s].key
           found == Cached(signs[k], EveryNode) IN
       IF found = {}
       THEN SearchIs(s, [searches[s] EXCEPT !.at = "load", !.version = dataVersion])
       ELSE \E m \in found : Prescreened(s, m.rows)
    /\ UNCHANGED <<pooled, matrices, signs>>

LoadSigns(s) ==
    /\ searches[s].at = "load"
    /\ Prescreened(s, live)
    /\ LET k == searches[s].key
           loaded == [version |-> searches[s].version, ids |-> EveryNode, rows |-> live] IN
       \E cache \in Cachings(signs[k], loaded) : signs' = [signs EXCEPT ![k] = cache]
    /\ UNCHANGED <<pooled, matrices>>

(* Their vectors are loaded without a look at the nodes. *)
Rescore(s) ==
    /\ searches[s].at = "rescore"
    /\ Answers(s, "full_approx", searches[s].todo \cap Vectors)
    /\ UNCHANGED <<pooled, matrices, signs>>

(* The exact scan: the ids first, and then their vectors.  Of a scan that  *)
(* stops at ScanRows one id more is asked for, which tells whether there   *)
(* are more.  A scan of several batches drops every cache and keeps none   *)
(* of its matrices.                                                        *)
ScanOf(k) == IF k \in Recall THEN live ELSE Newest(live, ScanRows)
CoversScan(k) == k \in Recall \/ Cardinality(ScanOf(k)) <= ScanRows
CoversAll(k) == k \in Recall \/ Cardinality(live) <= ScanRows

Probe(s) ==
    /\ searches[s].at = "probe"
    /\ LET k == searches[s].key
           scan == ScanOf(k)
           keep == Cardinality(scan) <= ScanRows IN
       /\ IF live = {} THEN Answers(s, "none", {})
          ELSE SearchIs(s, [searches[s] EXCEPT
                 !.at = "batch", !.todo = scan, !.keep = keep,
                 !.coverage = IF CoversAll(k) THEN "full" ELSE "bounded"])
       /\ matrices' = [matrices EXCEPT ![k] = IF keep THEN @ ELSE {}]
       /\ signs' = [signs EXCEPT ![k] = IF keep THEN @ ELSE {}]
    /\ UNCHANGED pooled

Scored(s, batch, rows) ==
    IF batch = searches[s].todo
    THEN Answers(s, searches[s].coverage, searches[s].hits \cup rows)
    ELSE SearchIs(s, [searches[s] EXCEPT !.todo = @ \ batch, !.hits = @ \cup rows])

ScanBatch(s) ==
    /\ searches[s].at = "batch"
    /\ LET batch == Newest(searches[s].todo, ScanRows)
           found == Cached(matrices[searches[s].key], batch) IN
       \/ ~searches[s].keep /\ Scored(s, batch, batch \cap Vectors)
       \/ searches[s].keep /\ \E m \in found : Scored(s, batch, m.rows)
       \/ /\ searches[s].keep /\ found = {}
          /\ SearchIs(s, [searches[s] EXCEPT !.at = "fetch", !.version = dataVersion])
    /\ UNCHANGED <<pooled, matrices, signs>>

LoadMatrix(s) ==
    /\ searches[s].at = "fetch"
    /\ LET k == searches[s].key
           batch == searches[s].todo
           rows == batch \cap Vectors
           loaded == [version |-> searches[s].version, ids |-> batch, rows |-> rows] IN
       /\ Scored(s, batch, rows)
       /\ \E cache \in Cachings(matrices[k], loaded) :
             matrices' = [matrices EXCEPT ![k] = cache]
    /\ UNCHANGED <<pooled, signs>>

(* The deadline passes in the middle of it, or a statement fails: what was *)
(* found so far is an answer that claims nothing.                          *)
TriesAgain == "reserved"
GivesItBack == "leave"

Expire(s) ==
    /\ Holding(s) /\ searches[s].at # "leave"
    /\ SearchIs(s, [NoSearch EXCEPT !.at = GivesItBack, !.key = searches[s].key,
                                 !.hits = searches[s].hits])
    /\ UNCHANGED <<pooled, matrices, signs>>

Query(s) == \/ CountSigns(s) \/ CountVectors(s) \/ ReadSigns(s) \/ LoadSigns(s)
            \/ Rescore(s) \/ Probe(s) \/ ScanBatch(s) \/ LoadMatrix(s) \/ Expire(s)

WorkerRuns(s) == /\ TakeStore(s) \/ Query(s) \/ Unlock(s) \/ Release(s)
                 /\ UNCHANGED <<corpusVars, unloadVars>>
-----------------------------------------------------------------------------
(* The hits become nodes in a second worker, which has a connection of its *)
(* own and is tracked for the unload; a call that has no hits, is late or  *)
(* finds the registry closed goes without it.                              *)
Hydrate(s) ==
    /\ searches[s].at = "answered"
    /\ ~registryClosed
    /\ SearchIs(s, [NoSearch EXCEPT !.at = "hydrate"])
    /\ UNCHANGED <<corpusVars, pooled, matrices, signs, unloadVars>>

CallReturns(s) ==
    /\ searches[s].at = "answered"
    /\ SearchIs(s, NoSearch)
    /\ UNCHANGED <<corpusVars, pooled, matrices, signs, unloadVars>>

Hydrated(s) ==
    /\ searches[s].at = "hydrate"
    /\ SearchIs(s, NoSearch)
    /\ UNCHANGED <<corpusVars, pooled, matrices, signs, unloadVars>>
-----------------------------------------------------------------------------
(* The end of shutdown_all(). *)

BeginUnload ==
    /\ unloading = "no"
    /\ unloading' = "join" /\ registryClosed' = TRUE
    /\ joining' = {s \in Searches : searches[s].at = "hydrate"}
    /\ UNCHANGED <<corpusVars, poolVars, poolClosed>>

JoinWorkers ==
    /\ unloading = "join"
    /\ \A s \in joining : searches[s].at # "hydrate"
    /\ unloading' = "pool" /\ poolClosed' = TRUE /\ joining' = {}
    /\ UNCHANGED <<corpusVars, poolVars, registryClosed>>

ClosePool ==
    /\ unloading = "pool"
    /\ \A s \in Searches : ~Using(s)
    /\ unloading' = "done"
    /\ PoolBecomes({})
    /\ UNCHANGED <<corpusVars, searches, poolClosed, registryClosed, joining>>

Unloads == JoinWorkers \/ ClosePool

(* The plugin is registered again. *)
Register ==
    /\ unloading = "done"
    /\ unloading' = "no" /\ poolClosed' = FALSE /\ registryClosed' = FALSE
    /\ UNCHANGED <<corpusVars, poolVars, joining>>
-----------------------------------------------------------------------------
SearchNext ==
    \/ \E S \in SUBSET Nodes :
         PublishVectors(S) \/ DropNodes(S) \/ PurgeOrphans(S)
    \/ \E s \in Searches : \/ \E k \in PoolKeys : BorrowStore(s, k)
                           \/ WorkerRuns(s)
                           \/ Hydrate(s) \/ CallReturns(s) \/ Hydrated(s)
    \/ BeginUnload \/ Unloads \/ Register

SearchSpec == SearchInit /\ [][SearchNext]_searchVars

(* Every statement is bounded by the deadline, and so is a hydration.      *)
SearchFairness == /\ WF_searchVars(Unloads)
                  /\ \A s \in Searches : WF_searchVars(WorkerRuns(s) \/ Hydrated(s))
-----------------------------------------------------------------------------
(* An answer that says it covers the corpus contains every vector that was *)
(* there during the whole search, whatever was cached before, and was      *)
(* written or deleted by other processes meanwhile.                        *)
FullMissesNothing ==
    \A s \in Searches :
        searches[s].at = "leave"
          /\ searches[s].coverage \in {"full", "full_approx"}
            => searches[s].steady \subseteq searches[s].hits

(* No store is closed under a search that uses it or waits for it, and     *)
(* after the unload no store is open and no worker holds a connection.     *)
StoresOutliveUse ==
    /\ \A s \in Searches : Using(s) => searches[s].key \in pooled
    /\ unloading = "done" => /\ pooled = {}
                             /\ \A s \in Searches : /\ ~Using(s)
                                                    /\ searches[s].at # "hydrate"

(* The unload ends, whatever the workers were doing.                       *)
SearchUnloadEnds == unloading = "join" ~> unloading = "done"
=============================================================================
