# A TLA+ model of hermes-lcm

hermes-lcm is a context engine for a chat host. It writes every raw message to a
SQLite database before the model sees it, summarises old messages into the leaves
of a DAG, condenses leaves into deeper nodes, and gives the host a shorter list in
which summaries stand for the messages they replace. Around this it keeps rollups of
days, weeks and months, embeddings, assertions read out of messages, views of retrieved
evidence and files for large tool outputs. Raw rows are never lost by design; what
can go wrong is the bookkeeping: which rows are in which summary, how far a session
has come, who owns a conversation, and what of the derived data is still true while
several engines, threads and processes share one database.

This directory models that bookkeeping, checks it with TLC and proves its main
invariants with TLAPS. Every definition in the modules is translated from the
sources; `PROJECT.json` names the lines, the hazards each property is for, and the
notes of every component.

## 1. Inventory

### Components

| Component | State it keeps | Operations | Hard behaviour |
|---|---|---|---|
| Message store (`store.py`) | rows with an increasing `store_id`, owner session, content | append, search, rewrite of a covered tool result (transcript GC) | rows change while a summary of them is being made |
| Summary DAG (`dag.py`) | nodes with session, depth, source ids | `publication_snapshot`, `publish_node`, coverage, uncondensed nodes, deletion, reassignment | the model is called between snapshot and publication, without a lock |
| Lifecycle rows (`lifecycle_state.py`) | per conversation: current session, frontier, bind time, last finalized session and its checkpoint, debt, carry pointer | bind, resume, finalize, advance, rollover, debt, prune | read-modify-write from several connections, late session ends |
| Engine hooks (`engine.py`, `session_reset.py`) | session, `_last_compacted_store_id`, ingest cursor, pending boundaries | `on_session_start/end/reset`, rollover, boundary, `/new`, rotate | the host calls them in many orders, from several threads; a process dies between two statements |
| Compaction (`compaction.py`, `fresh_tail.py`) | one call's working list, hidden gap, chunk; proofs and claims of a pure cleaning | preflight, compress: leaf pass, hidden store pass, sweep, condensation, assembly | long calls over state that moves; rescues that shrink a chunk; failures after a partial success |
| Temporal rollups (`rollup_store.py`, `rollup_builder.py`, `rollup_periods.py`) | day/week/month rows with a status, a generation, a lease; an invalidation outbox | build, mark stale, drain, reclaim | builders race with invalidations and with each other; crash with a lease |
| Rollup scheduler, shutdown group (`engine.py`) | queue, follow-up slot, active keys, leases; references per engine, gates | submit, lease, drain, clone, evict, unload | lost requests, work nobody waits for, use after close |
| Ingest, reconciliation (`engine.py`, `reconcile.py`, `store.py`) | ingest cursor, stored tail | ingest, reconcile after a restart, align a replay, append | replays, edits, truncated and compacted histories |
| Large payloads (`externalize.py`, a backfill script) | files, references, a journal | write, resolve, apply, roll back | crash between file, row and journal |
| Escalation (`escalation.py`) | breaker per route, spend window | summarise in three levels down a chain of routes | concurrent calls, time windows |
| Auxiliary sessions (`aux_session.py`, `engine.py`) | tables of agent ids, generations, parents, usage | start, report, end, continuation, reuse of an id | late calls about ids that were given to somebody else |
| Embeddings (`vector_store.py`, `embedding_provider.py`, `command.py`) | vectors, in-flight rows, a lease | backfill, recovery, retry | requests cost money, answers may be lost, leases lapse |
| Semantic search (`retrieval_core.py`, `tools.py`, `vector_store.py`) | a pool of vector stores with matrix caches, workers behind a deadline | borrow a store, prescreen or scan, hydrate, unload | caches beside writers in other processes, workers that outlive their call |
| Assertions (`assertion_*.py`) | texts read, receipts, claims, links | take a batch, extract, publish, query | sources change while the model reads them |
| Query views (`query_view_store.py`, `adaptive_retrieval.py`) | views by identity, versions, corpus generation | look up, claim, cite, publish, expire | a look-up of several statements |
| Schema (`db_bootstrap.py`), trajectories, tools, commands, registration, configuration, other scripts | mostly derived or read-only data | | see section 6 |

Components interact through the SQLite file (one write transaction at a time), through
the engine object (hooks, compress and background passes run in different threads),
and through the host's own message list, which the engine shortens only by what
`compress` returns.

### What makes them correct

* Publication: a node is committed only from the inputs its text was made of; lineage
  never leaves the session; the frontier passes only rows that are in a summary; every
  node has at most one parent; rows the host no longer shows are summarised, once.
* Lifecycle: a late end does not free the new owner's slot; within a bind the frontier
  never goes back; a checkpoint is resumed only by the session that left it; what moves from
  a session to the next survives a death in between, or can be moved again.
* Rollups: a `ready` rollup reflects the nodes that exist, or an invalidation that
  covers it is still pending; when the session is calm, everything becomes fresh.
* Scheduler and shutdown: no request is lost, nothing runs on a closed store, nothing is
  left behind, and shutdown ends.
* Ingest: every turn handed over is stored, once if it can be told from others.
* Derived data: nothing is sent to a provider twice, a hit misses no message, a query meets no
  outdated receipt, a reference finds its file.
* Threads: the model is skipped exactly when a proof stands; no window sees more calls than it
  may; no agent is taken for another.

## 2. Modules

| Module | Models |
|---|---|
| `LifecycleState` | the row of `lcm_lifecycle_state` and the effect of each operation on it, as pure operators |
| `SummaryPublication`, `SummaryPublicationProps` | the core: store, DAG, lifecycle row, engines, compaction calls and the host's lists, one action per hook and per step of `compress`; its properties and the refinement mapping |
| `SummaryProgress` | the abstract promise of the core: arrivals, ownership and a progress mark that passes only summarised rows |
| `SessionCarry` | the hooks between two sessions and `/new`, statement by statement, on the row and the nodes |
| `IngestReconcile` | how turns handed over by the host become rows |
| `Sanitation` | the claims by which a compression skips the model |
| `RollupStore`, `RollupStoreProps` | the outbox, the rows and sources of rollups, the nodes they are made of, passes and builds; one action per transaction or read |
| `RollupView` | the abstract promise of the rollups: a view of the nodes by period that may lag but never misleads |
| `RollupReader` | composes `RollupStore` with calls of `lcm_recent` |
| `RollupProgress` | composes `RollupStore` with fairness: what happens once the session is calm |
| `RollupScheduler`, `RollupSchedulerProps` | the process-wide worker, its queue, follow-up slot and leases |
| `EngineShutdown` | extends the scheduler with engines, clones, records of background work, and the unload |
| `EmbeddingBackfill` | `/lcm embed backfill --apply` |
| `QueryViews` | the cache of evidence and the episodes that use it |
| `Assertions` | extraction, publication and queries of assertions |
| `Escalation` | levels, routes, breaker and spend guard of one summary |
| `ToolSidecars` | files of tool outputs and the script that makes and takes them back |
| `SemanticSearch` | semantic search: the pool of vector stores, one search statement by statement, its caches, the workers and their unload |
| `AuxiliarySessions` | subagents and the ids and objects they are known by |
| `MC*` | the instances TLC checks; `MCMaintenance` and `MCProtocols` put several models side by side |
| `SummaryPublication_proofs`, `RollupStore_proofs`, `EngineShutdown_proofs` | TLAPS proofs about the module of that name; those about the rollups include `RollupReader`, those about the shutdown `RollupScheduler` |
| `Sessions_proofs` | proofs about `SessionCarry` and `AuxiliarySessions` |
| `MessageStore_proofs` | proofs about `IngestReconcile` and `ToolSidecars` |
| `Vectors_proofs` | proofs about `EmbeddingBackfill` and `SemanticSearch` |
| `Evidence_proofs` | proofs about `QueryViews` and `Assertions` |
| `ModelCalls_proofs` | proofs about `Sanitation` and `Escalation` |

### How the core corresponds to the code

`messages` is the table of raw rows, `nodes` that of summary nodes (a sequence, so the
index is the id), `row` the lifecycle row of the one conversation modelled. `engine[e]`
is an engine object: its session, `_last_compacted_store_id` (`marker`), and whether the
host still uses it for that session. `job[e]` is the `compress` call it runs, `transcript[s]`
what the host keeps of a session.

`_compress_impl` is split where other threads and processes can come in between, that is at
every read of the database outside a write transaction that matters and around every model call:

* `BeginCompress` chooses the active window (and remembers the hidden gap before it), or
  loads a chunk of the hidden prefix;
* `FreezeLeaf` resolves the lineage of the chunk and takes the publication snapshot;
* `PublishLeaf` is the write transaction of `publish_node` with the assignment of the
  marker after it, for any older part of the chunk (a rescue may shrink it);
* `ChooseNodes`, `FreezeNodes`, `PublishNodes` are the condensation;
* `Raise`, `StopSweep`, `RejectPublication` are the error paths: the exception reaches the host, or a
  sweep that already committed a leaf returns what it has;
* `ReturnContext` is the host replacing its list.

`StartSession`, `ResumeInPlace`, `EndSession`, `Ingest`, `Rotate` are the hooks, `RewriteRow`
is transcript GC, `Crash` the death of a process.

Abstractions of the core, all deliberate:

* Message text is its store id. `text` of a node is a ghost: what the summary was computed
  from. Nothing in the actions reads it.
* Token budgets, ignore patterns, tool groups, dependent replies and the system anchor decide
  which chunk is taken; the chunk is *any* oldest part of what is eligible.
* One conversation, so one lifecycle row. A missing row is `EmptyRow`. In the core each lifecycle
  operation is one step; `SessionCarry` splits its read from its write.
* The fresh tail is a number of messages and at least 1 (the default is 32).
* The host: one live engine per session; the in-place compression boundary is called on the
  engine that ran the compress, unless another engine took the session over; with
  `RestartDuringCompress = FALSE` it does not start a session while a compress of that
  session or engine has not returned. `on_session_end` may come at any time. The ingest that
  `on_session_end` makes first is an `Ingest` step before `EndSession`.
* A session may be started with a transcript cut at its start.

`SessionCarry` models an operation as a program (`todo`) of the statements it executes on the row and
the nodes: `FinalizeSteps` and `BindSteps` are a read and a write each, a boundary adds the move of the nodes, the
advance and the end of the carry pointer. A process may die between any two. `gateway` is the
`/new` command, which first deletes the nodes and then clears the row, so that it finds the session
again after a death. Programs of different engines always overlap, statement by statement, since nothing in the code makes processes
take turns. `Intrusion` says whether hooks also run during a `/new`; the runs set it to `FALSE`, a conversation whose
user asks for a new one and waits for the answer.

`IngestReconcile` numbers turns in a ghost, `said`; the code sees only what a turn says and its source
time. `ProvesReplay`, `FindCursor` and `WindowCursor` are the cursor after a restart, `Mask`, `Covered` and `Gate`
the alignment of a batch with stored rows, `IsDuplicateReplay` the guard in the store.
`Decide` reads the stored tail and chooses; `AppendBatch` is the write transaction later. The host
reloads a whole, a compacted or a partial transcript, rows are rewritten, and `Compress` puts a
summary in front of the list.

`Sanitation`: `Preflight` leaves a proof for a list of messages, `Prepare` turns it into a claim,
`CompressTurn` executes by claim, by handoff, or with the model. What the claim lock protects is
one step; `RunOutside` (generic compression), `HookEnd` and the storage binding of `HookStart`
and `Bind` do not hold it.

### How the rollups correspond to the code

A trigger on `summary_nodes` puts an event into `lcm_rollup_invalidations` in the transaction that
changes a node (`Announce`). `Drain` is `drain_invalidations`: it marks the touched days, weeks and
months stale, day by day within its limits, and an event that it does not finish keeps its cursor (`left`).
`BeginPass`, `Reclaim` and `List` are the start of `run_rollup_maintenance`, `Rebuild` is the operator's
command, `EndPass` its time budget or the death of the process. A build is `NextBuild` (which drains once
more), `Claim`, its reads (`ReadDay`, or for an aggregate `ReadStatuses`, `ReadContent`, `ReadLineage`,
`ReadTexts`), the model call, and one of `Publish`, `Resolve`, `Defer`, `Superseded` and `Fail`; a published
day then marks its aggregates in a transaction of its own (`MarkAggregates`). The nodes change by
`PublishLeaf`, `PublishParent`, `DeleteNodes` and `CarryNodes` (`reassign_session_nodes`).

Abstractions: a period is the set of its days, and `Calendar` lists weeks and months in the order of the pass's
query. `lease` stands for `generation` and `lease_nonce` together: the nonce is fresh for each claim and every
statement that advances the generation replaces or clears it, and row ids are never reused. The text of a node
never changes, so the text of a rollup is the set of nodes it was made of. One session; events of
other sessions, which share the limits of a drain, are left out. The four queries that list a pass are one step.
Leases and backoff are choices: any building row may have expired, any failed row may be due. Work limits (4096
nodes) and lineages that overlap without containment make a build raise: `Fail`. The reader asks about a
window of days, one call after another of `_recent_ready_rollups`, each of three statements.

### How the scheduler and the shutdown correspond to the code

Every action of `RollupScheduler` is one critical section of the scheduler's condition: `Schedule` joins a
queued key, asks for the rerun of the running one, enters or is refused; `AcquireExclusive` and
`ReleaseExclusive` are the operator's lease; `Take`, `FinishIntoFollowUp` and `Finish` the worker. `owed` is a ghost: the requests
that were accepted and have not been served by a pass that began later.

`EngineShutdown` adds the threads around it: the host's thread of each engine (`BeginClone`, `BeginUse`, `Bind`,
`Evict`, `Drop`), the thread that makes the engine schedule work (`caller`), extraction
workers, drain waiters and the unloading thread. A schedule passes the gate (`EnterSchedule`), submits,
starts an extraction and only then puts its work on record (`TrackAccepted`): the window between is
what the properties are about. A shutdown is `Lock` (which also sets `_rollup_maintenance_stopping`: nobody reads it
between), `Settle`, `AwaitWork` (the waits for rollups and extraction as one guard), `Close`, `Retire` or `Discard`.
An unload closes the gate, takes a snapshot, shuts the engines down one by one and waits for drains.

### How the sidecar protocols correspond to the code

* `EmbeddingBackfill`: a run is a lease (`claimant`); a row is marked in flight before its request (`Reserve`,
  `Dispatch`), the request leaves (`Transmit`), is answered or not, and is published under a comparison
  with the lease. `Recover` is the next run's look at what the last one left. A run that lost its lease goes on until
  it looks.
* `QueryViews`: one identity. `ReadView`, `ExpireView`, `ReadSources`, `ReadCorpus`, `MarkStale` are the statements of a
  look-up, `LookAgain` and `ConfirmHit` the second one, which an episode whose evidence does not meet the request leaves out (`unmet`: nothing is searched or published); `Retrieve`, `ClaimBuild`, `Cite`, `PublishReady`, `MarkFailed` a build.
  `Change` is the trigger on messages.
* `Assertions`: `rowText` is what a row says, `current` the receipts in force, `outcome` what was read out of a text.
  `TakeBatch`, `SkipCurrent`, `Extract`, `PublishAssertions` are an extractor; `Refused` is the query that
  meets a receipt whose text is not the row's, which raises in the code.
* `Escalation`: `AskBreaker`, `ReserveCall`, `Answered`, `Unanswered` down the chain and the levels. Time is a bounded
  clock, `made` a ghost of the calls.
* `ToolSidecars`: a file is created under its final name, filled, synced; others look for the same content meanwhile.
  `BeginApply` to `EndApply` and `BeginRollback` to `EndRollback` are the script; it runs while the
  engines are stopped, as `docs/operator-guide.md:1141-1150` requires (`Quiet`, `Stopped`).
* `SemanticSearch`: a search borrows a store (`BorrowStore` reserves it under the pool's lock, `TakeStore` waits for the
  store's own), counts signs and vectors, ranks a cached or freshly read matrix of sign bits (`ReadSigns`, `LoadSigns`,
  `Rescore`) or scans ids and then vectors (`Probe`, `ScanBatch`, `LoadMatrix`), may expire anywhere, and gives the store back
  in two steps (`Unlock`, `Release`); hits are hydrated by a second worker. Caches are sets of matrices with the
  `data_version` they were read under; which entry is evicted is left open. `steady` is a ghost: the nodes that were there all
  through a search. `BeginUnload`, `JoinWorkers`, `ClosePool` are the end of `shutdown_all`, `Register` a later registration.
* `AuxiliarySessions`: an object on the caller's stack has a token; `table` holds what the engine knows about ids. What
  the host is assumed to do, and which late calls cannot be told apart, is in the header of the module.

## 3. Properties, runs and bounds

| Run | Instance | Shows |
|---|---|---|
| `publication` | 2 engines, 2 sessions, 2 rows, 2 binds, restarts under a running compress | `PublicationInv` (the inductive invariant of the proofs, types included), `LineageOwned`, `CursorNotAhead`, `PublishedFromFrozenInputs`, `FrontierMonotone` |
| `progress` | 2 engines, 2 sessions, 3 rows, host does not restart under a compress | `ImplementsProgress` (refinement of `SummaryProgress`), `StorePassSkipsCovered`, `CondensedOnce` |
| `rollups` | 2 processes that maintain and rebuild, 2 days and their week, 2 nodes that may condense, a reader of both days | `ReadyIsCurrent`, `NoPeriodLost`, `PublishesCurrent`, `ServedWasCurrent`, `ImplementsView` (refinement of `RollupView`) |
| `maintenance` | the scheduler with 3 keys for 2 places and 2 engines; beside it 1 process, a day and its week, any past, then calm; two searches of one node and the unload | `AcceptedIsKept`, `RebuildsAlone`, `DrainedIsDone`, `StoresOutliveUse`; `EveryRequestRuns`, `EverythingFresh`, `SearchUnloadEnds` (liveness) |
| `shutdown` | a prototype and a clone with rollup passes and extractions, and the unload | `WorkIsSeen`, `UnloadIsQuiet`, `SchedulesOnOpenStore`; `WaitsEnd` (liveness) |
| `protocols` | ten models side by side, two processes each (three agents on two ids) | see the next table |
| `borrowed_frontier`, `duplicate_leaf`, `starvation`, `lost_repeat`, `late_end`, `stale_reuse` | small instances | statements of the documents and comments that the code does not keep; see section 5 |

`MCMaintenance` and `MCProtocols` choose one model at the start and leave the variables of the others
alone. The models share no state, so a behaviour is one of one model and the numbers of states add.

| Model in `protocols` | Properties |
|---|---|
| `IngestReconcile` | `HandedIsKept`: every turn the host handed over can be read back from a row; `ToldTurnsStoredOnce`: turns that can be told apart are stored once and in order |
| `SessionCarry` | `OnlyLateEndsTakeBack`: between overlapping hooks, nothing but the late end of the session finalized last takes back the frontier of the current one; `ForgettingCanBeRetried`: as long as `/new` has left nodes, the row still leads to them |
| `EmbeddingBackfill` | `NeverResent`, `EmbeddedIsDone` |
| `QueryViews` | `HitMissesNothing`, `ReadyCitesWhatIs` |
| `Assertions` | `QueriesAreAnswered`, `ReadOnce` |
| `Escalation` | `BudgetKept`: no window of time sees more calls than it may |
| `ToolSidecars` | `ReferencesResolve`, `MadeIsJournalled` |
| `Sanitation` | `SanitisesExactly`: the model is skipped only on a proof that stands, and a turn that nobody crossed is not refused |
| `AuxiliarySessions` | `AgentsKeptApart`: an agent reads its own usage, and the holder of an id is not made foreground or retired by a call meant for another |
| `SemanticSearch` | `FullMissesNothing`: an answer that claims to cover the corpus has every vector that was there all through the search |

### Bounds

Core. With a fresh tail of 1, two rows are one eligible row and one that is
not, enough for any race about one row, its leaf, the frontier and the bind. A hidden prefix
next to an eligible window needs a third row. Two engines give every pairwise race (both may
hold one session: one live, one replaced). Two sessions and two binds give takeover and return; the
third bind that a borrowed frontier needs is in `borrowed_frontier`. Two leaves are one
condensation, and racing engines add a third and a fourth node. `MaxDepth`, `MaxMessages`, `MaxNodes`, `MaxBinds` bound the
run, not the code; with `MaxNodes` nodes no leaf is begun, so races and condensation still add nodes beyond it.

Rollups. Two days and one week give every relation of periods that the code distinguishes (a day, its
aggregate, another day of the same aggregate). A drain of one day at a time (`DayBudget = 1`; 256 in the code)
stops inside an event of two days (`TwoSpans` are the spans of leaves: the first day or both). One build per pass is the
smallest limit and makes later passes matter. `MaxPending` only stops new changes while an event waits, it does
not hurry the drain. `OneBesideOne` is the bound that makes one run of what would be three: two
processes at work, a reader in the middle of a call, and a second node that condenses the first; each is
explored beside one process at work, no two of them together. The `VIEW` leaves out what no step
can read again: the sources of rows that are not ready and what a job has already used.

Scheduler and shutdown. Three keys for two places fill the queue while a third is asked for and a lease is held.
In `shutdown` one key and one place make every request of the second engine a join or a rerun. `MaxGen` bounds the
schedules one record counts; `Working` names the engines that schedule at all. `TwoAtWorkLive` leaves out the states in which
both engines have work and one of them is already evicted, dropped or shutting down alone: the unload then finds
both at work, and each alone is explored in all its lives. It cuts no fair step, since only the host's
choices (`BeginUse`, `Evict`, `Drop`) lead out of it.

Protocols. Two processes and two things (rows, leaves, outputs, sources, ids) each; three agents on two ids, so that
an id has a past holder, a holder and a claimant. `MaxTurns`, `MaxTime`, `MaxReloads` and `MaxRewrites` give a whole
conversation with one restart and one rewritten row; `ClockForStamps` lets time pass only when the host gives source
times. `MaxSummaries`, `MaxBinds` and `ForgetsOneNode` bound the carry: after the last node and the last bind nothing is reset or forgotten any more.
Two binds and one node are a session that ends, its successor, and a frontier the successor has to lose. `OneIsShort`: of two programs under way one has
at most a read and its write left, the pair of statements that another's write can come between (an end, a bind, the tail of a rollover or of a boundary).
`BindsFit` drops programs whose next bind would exceed `MaxBinds`, where only a death could follow. `MaxRuns = 2` is a run and one that
takes it over and recovers; a third one was checked too, and the proofs cover any number. `MaxCorpus`, `MaxClaims`, `MaxFound`, with one present row at first, give a change and a rebuild of the view.
`MaxBatch`, `MaxLinks`: one row and one link a batch. `LastTick = 4` is a window, a backoff longer than it, and one tick after
(1800 and 600 seconds in the code: `BudgetKept` needs the backoff to outlast the window, and with settings that make it
shorter it would not hold). `MaxFiles` lets one writer fail and another succeed. `MaxEvents` bounds revisions and attempts together.
`MaxFresh` is one object seen again under a new id.
Search: two nodes and one write beside `ScanRows = 1` give a corpus that fits a scan and one that does not; a pool of one store and one
cached matrix make every eviction happen. `SearchesMeetNot` leaves the unload, and two searches in the pool at once, to
`maintenance`, where the corpus does not change (stores share no cache, and searches of one store wait for its lock). Larger instances were also run to their end without error: `Sanitation` with three
threads, `AuxiliarySessions` with three agents on three ids and four on two.

Processes and things that no action or property distinguishes are symmetric; no run with liveness uses
symmetry.

Deadlock is not checked: with bounds on rows, nodes, binds, runs or events every modelled system stops, and the
unload is meant to be the end.

### Fairness

* `EverythingFresh`: the engine schedules maintenance after every ingest, so a pass that can go on does
  (weak fairness); leases expire and the backoff of a failure ends (strong fairness of the choices that see
  them). `calm` is the moment after which the nodes no longer change and no pass is cut short; before it
  anything happens. With one process the lease of a running build is not taken by another pass for ever,
  which no fairness could exclude with two.
* `EveryRequestRuns`: the worker is a thread and a pass is bounded work (it has a time budget), so
  weak fairness of `Worker`. No lease is assumed to be given back for it.
* `SearchUnloadEnds`: every statement of a search and a hydration is bounded by its deadline, so weak fairness of the workers, and of
  the unloading thread.
* `WaitsEnd`: weak fairness of the worker, the unloading thread, threads in a schedule,
  extractions (bounded by the model's timeout), the construction of a clone and the threads in a
  shutdown or a drain. The host's choices are not fair: it may never evict or drop an engine.
* `QueuedIsBuilt` (a violation): in `starvation` nothing fails and no lease dies, so weak fairness of the
  maintenance steps is all there is to assume.
* The core and the protocols assume none: the host decides whether `compress` is ever called.

Properties of `progress` hold only when the host does not restart a session under a running
compress. The group of a condensation (`engine.py`, `get_uncondensed_at_depth`) and the hidden chunk
(`_load_hidden_store_leaf_chunk`) are read before the snapshot that protects them. With
`RestartDuringCompress = TRUE` TLC shows another engine publishing a covering node in between; the
snapshot then contains that node, validation accepts it, and the same rows or nodes are
summarised twice. Likewise a stale `hidden_gap_bounds` can then move the frontier over a gap.

## 4. Proofs

They hold for every value of the constants: any number of engines, sessions, keys, threads, rows.

| Module | Theorem | Property | Inductive because of |
|---|---|---|---|
| `SummaryPublication_proofs` | `Invariance` | `PublicationInv` | it is the conjunction below |
| | `LineageTheorem`, `CursorTheorem` | `LineageOwned`, `CursorNotAhead` | `FrozenFrom`, `MarkerBehind`, `OneInCharge`, `UnboundIsEmpty` |
| | `FrontierTheorem` | `FrontierMonotone` | `PublicationInv` |
| | `FrozenInputsTheorem` | `PublishedFromFrozenInputs` | `PublicationInv` |
| | `CondensedTheorem`, `StorePassTheorem` | `CondensedOnce`, `StorePassSkipsCovered` | `ApartInv`: `OwnSession`, `GroupFree`, `DebtFree` |
| | `ProgressTheorem` | `ImplementsProgress` (refinement) | `GapInv`: `TranscriptOK`, `WindowOK`, `GapOK`, `DebtOK`, `ChunkOK` |
| `RollupStore_proofs` | `RollupSafe`, `RollupTypes`, `ReadyCurrent` | `TypeOK`, `ReadyIsCurrent` | `RollupInv`: `NodesOK`, `OutboxOK`, `RowsOK`, `JobOK` |
| | `PublishedCurrent`, `RollupsAreAView` | `PublishesCurrent`, `ImplementsView` (refinement) | `RollupInv` |
| | `NoneLost` | `NoPeriodLost` | `RollupInv`, `NeverLost` |
| | `ServedCurrent` | `ServedWasCurrent` | `RollupInv`, `AskingOK` |
| `EngineShutdown_proofs` | `SchedulerTypes`, `RequestsKept`, `LeaseIsExclusive`, `DrainIsSound`, `NobodyWaitsForNothing` | `AcceptedIsKept`, `RebuildsAlone`, `DrainedIsDone` | the shape of queue, slot and leases |
| | `GroupSafe`, `WorkSeen`, `UnloadQuiet`, `StorageOpen` | `WorkIsSeen`, `UnloadIsQuiet`, `SchedulesOnOpenStore` | `GroupInv`: `GateHolds`, `InTurn`, `LiveIsFound`, `WorkIsListed`, `ClosesAtRest` |
| `Sessions_proofs` | `FrontierTakenBackByLateEnds`, `ForgettingRetried` | `OnlyLateEndsTakeBack`, `ForgettingCanBeRetried` | `CarryInv`: `CarryTypes`, `Alone`, `Forgetting` |
| | `AgentsAreKeptApart` | `AgentsKeptApart` | `AuxiliaryInv`: `IdInv`, `LeavingToArrive` |
| `ModelCalls_proofs` | `ClaimsAreSound` | `SanitisesExactly` | `RecordsAreBacked`, `AloneIsPromised` |
| | `BudgetTheorem` | `BudgetKept` | `GuardInv`: `Remembers` |
| `Vectors_proofs` | `NothingIsResent`, `EmbeddedStaysDone` | `NeverResent`, `EmbeddedIsDone` | `RunsDiffer`, `HolderIsAlone`, `MarkedFirst`, `SentOnce` |
| | `FullIsFull`, `StoresStayOpen` | `FullMissesNothing`, `StoresOutliveUse` | `CachesOK`, `ScanOK`, `UnloadOK` |
| `Evidence_proofs` | `ReadyIsTrue`, `HitsAreComplete` | `ReadyCitesWhatIs`, `HitMissesNothing` | `ViewNamesTheLast`, `CoversItsSearch`, `SearchesAfterNote`, `LooksAtVersion` |
| | `AnswersAreCurrent`, `TextsAreReadOnce` | `QueriesAreAnswered`, `ReadOnce` | `CurrentMatches` |
| `MessageStore_proofs` | `HandedTurnsAreKept` | `HandedIsKept` | `IngestInv`: `StoreInv`, `CursorOK`, `BatchOK`, `FromTheFirst` |
| | `ToldTurnsAreStoredOnce` | `ToldTurnsStoredOnce` | `ToldInv`: `StoreTold`, `ListTold`, `WorkerTold`, `OneServes` |
| | `ReferencesLast`, `JournalKnows` | `ReferencesResolve`, `MadeIsJournalled` | `WorkOK`, `ScriptOK`, `JournalOK` |

Publication. `LineageOwned` and `CursorNotAhead` are not inductive. The lineage of a condensation needs that
a frozen group exists and has one depth (`FrozenFrom`). The cursor needs to hold also for an
engine that ended its session and may take it back (`MarkerBehind`), which in turn needs that
the host gave each session to one engine at a time (`OneInCharge`) and that a free conversation
has frontier 0 (`UnboundIsEmpty`).

Three results assume `~RestartDuringCompress`, a host that starts no session under a running compress of it,
because without it TLC refutes them (section 3). Then an engine keeps the session it began with (`OwnSession`), nobody else compresses that
session, and so a chosen group is still free and a loaded chunk still uncovered when it is frozen (`GroupFree`, `DebtFree`).
`ProgressTheorem` is a step simulation: every step of the protocol is an arrival, an atomic publication, or a stutter of `SummaryProgress`. The hard
part is that a commit moves the frontier to the end of its chunk, and no row may be left behind. The invariant says where such a row
would be: the host's list holds the newest rows without a gap (`TranscriptOK`), a window is cut from it oldest first and the hidden
prefix is older (`WindowOK`), so whatever lies between the frontier and the end of a chunk is in the window, in what was remembered as hidden, in
the loaded chunk, or in a leaf (`GapOK`, `DebtOK`); and the rows of a chunk that the marker keeps out of the snapshot are behind the
frontier already (`ChunkOK`).

Rollups. `ReadyIsCurrent` is excused by events that wait, and an event is worked off day by day, so the invariant speaks of the days that
are *left*: a period over which no day is left, and which is ready, has the sources it should have (`RowsOK`), and a build that still owns its
lease knows as much as its phase has read (`JobOK`). An event whose span was marked in part can lie over a ready period only with what
is still left of it (`OutboxOK`). Every change of the nodes either leaves a period's canonical frontier as it was or puts an event over
it (`NodesChange`), which is where the triggers earn their place: `CanonicalIs` gives the frontier by the ancestors of a node, whose recursion
ends because parents are younger. `NoneLost` assumes `History = <<>>`, a store whose nodes were all published with the
feature on; nodes from before have no events, which is the finding `starvation`.

Shutdown. The record of an engine with background work is in the group or under a drain (`WorkIsSeen` is inductive beside the rest): between the gate and
the record stands the thread that schedules (`caller`), and a shutdown closes the storage only when no schedule is in flight
(`ClosesAtRest`). An engine that is live when the gate closes is found by the snapshot or was shut down before it (`LiveIsFound`), and work it leaves
behind is found by the list of records (`WorkIsListed`).

Scheduler. Every ghost request is found in the queue, the follow-up slot or the running pass; a key is in one
of queue and lease; the queue holds each key once.

Carry. `FrontierTakenBackByLateEnds` assumes nothing: the programs of any number of engines and a `/new` interleave statement by
statement, every write computes from a row read at any earlier time, and every process may die. It goes through the five writes of the row.
A bind either writes nothing or counts a bind (`BoundRow`), an advance takes the maximum (`AdvancedRow`), the clearing of a `/new` leaves no
session current or the frontier alone (`ClearedRow`), and a finalization that leaves a session current writes back the current session and the
frontier it read, which its WHERE admits only for a session that was finalized last (`FinalizedRow`). What the last case does to a newer
conversation is the finding `late_end`. `ForgettingRetried` assumes `~Intrusion`: then an explicit `/new` works alone (`Alone`), still sees the row it
read, and comes to clear it only when the sessions the row names are empty (`Forgetting`). The hooks may overlap each other.

Agents. What the tables say of one id can be stated for that id alone, which is what makes the invariant manageable (`IdInv`): an id is of one
agent at a time (`OneCurrent`), and agents it displaced wait for their ends while there is one (`DisplacedByCurrent`); the token a hook has seen is
the id's generation or is retired (`SeenRemembered`), so a late call of a displaced agent changes nothing; the live holder has the current generation
(`HolderHolds`); and while the end of a displaced agent may still come without it on the stack, the id is guarded, reused or has
usage of its own, so that end is refused (`LateEndExpected`). Ids are related only by a boundary under way: an agent that arrives has exactly one that leaves
(`LeavingToArrive`). The proof attempt found a case the module had to rule out: two boundaries could be under way towards one id at once, against
the host this module describes, in which calls about one id come one after the other. Three agents on two ids, the instance TLC exhausts, are
too few to get there. `ContinueAs` now waits for its new id to be `Settled`, as the other calls do.

Spend guard. A call the guard no longer remembers was out of the window when it was pruned, or was made by the time the guard backed off (`Remembers`).
The theorem assumes that the guard is on and that the backoff is longer than the window (`Configured`), as in the defaults (600 and 1800 seconds); the code
accepts other settings.

Sanitation. A handoff, a claim and a decision each agree with the proof that some preflight left
(`RecordsAreBacked`), and a turn that nobody crossed has its handoff or claim still there (`AloneIsPromised`).

Assertions. A receipt in force has the text of its row (`CurrentMatches`): publication compares, and every change of a row
invalidates in the same transaction.

Backfill. Two runs never share a number (`RunsDiffer`), so a comparison with the lease finds one process at most (`HolderIsAlone`).
A row whose request may have left was marked first (`MarkedFirst`), and a run sends a row once (`SentOnce`): whatever a
late run does, the mark of the row is its own or it is not touched.

Views. A version covers the corpus of its first search because the snapshot is taken before the search
(`SearchesAfterNote`) and published with it (`CoversItsSearch`); a look-up that says hit compared that version with the corpus it
read (`LooksAtVersion`); the view names the last version (`ViewNamesTheLast`).

Search. A cached matrix that is of the present version holds every node that is there (`CachesOK`): its rows may be newer than the version
it is stored under, never older, because a new vector bumps the version in its own transaction. So what was there all through a search is always
among what it found or has still to look at (`ScanOK`). No store is evicted under a search because a place in the pool is reserved
before the store is waited for, and none after the unload because the pool is closed to newcomers first (`UnloadOK`).

Ingest. Whatever a worker's cursor has passed is scaffolding or stored (`CursorOK`), and what a decision leaves out of its batch is stored or in the batch
(`BatchOK`), so an append makes the whole list readable; one transaction loses no row and leaves every message of its batch with a row that
says the same (`StoresBatch`). That decisions keep this is the work: each of the four ways to prove a replayed prefix compares it with the stored tail,
so its turns are stored (`ReplayIsStored`); the window cursor counts copies behind an anchor (`WindowIsStored`); the mask leaves out what a row says or,
for a rewritten row, what its call recalls (`MaskIsStored`); and the scaffold that a reload shows stands at its head, so the mask past it cannot reach
a turn the store lacks (`ScaffoldMaskIsStored`). The system prompt is in none of those counts; it is the first turn, and
the first rows that are stored begin with it (`FromTheFirst`).

Turns told apart. While the conversation opens with its system prompt, no two turns say the same, no row was rewritten and no second process served it,
the store is a beginning of the conversation (`StoreTold`), and a list ends with exactly the turns the store lacks (`Follows`). So it is enough
that a decision keeps the end of its list and nothing else. Nothing less, because what no row holds is not remembered (`NewIsNotRemembered`). Nothing
more, because a list a worker starts over on opens in one of three ways (`Opens`): with a summary, and then the window cursor counts past every
repeated turn (`WindowReaches`); with the whole of what is stored, which proves itself whether or not it has turns that cleanup would
take out (`WholeProves`); or with what the store has not got. What is kept says something that no row says, so the store's own guard
lets all of it through (`NewAreAppended`). A compaction cuts the beginning of a list and keeps the order of the rest (`Shortens`).

Sidecars. A file belongs to one writer until it is whole, and whoever is about to write a reference has found the file whole (`WorkOK`); a
rollback takes what nothing referred to when it began, and nothing refers to it since, because the engines rest (`ScriptOK`). An output has one
pending entry at most, and the script makes a file for it only under that entry (`JournalOK`); an entry of a file that was taken back may
stay beside it, which is why the invariant speaks of files and not of entries.

The proofs rest on the named assumptions of the modules (`NoSessionAssumption`, `PublicationAssumption`, `PendingAssumption` and so on:
the constants have their types, limits are positive), which TLC evaluates in the runs. Each proof has one lemma per action.

Induction over data is done where it can be said of one set of numbers: `LeastNatural` (the well-foundedness of `<` and the
library's theorem on minimal elements) gives the smallest counterexample, which proves that the recursion over ancestors is defined
(`AboveExists`) and that a finite set of event numbers has a maximum (`FiniteMaximum`). An induction over an arbitrary predicate is
out of reach, and so are the folds of the library; `IngestReconcile` picks positions by their rank and appends by a recursive function instead,
of which `RankIsOrder`, `PickProperties` and `AppendedStepwise` say what is needed.

Model-checked only:

* liveness (`EverythingFresh`, `EveryRequestRuns`, `WaitsEnd`, `SearchUnloadEnds`), which with fairness and ENABLED is out of the prover's
  reach.

## 5. Where code and documents disagree

* **A borrowed frontier** (`borrowed_frontier`, `NeverBorrowsFrontier`). `finalize_session` keeps the maximum
  of the ending session's frontier and the stored checkpoint, whoever left it
  (`lifecycle_state.py:365`). Session A stores a row and is taken over by B, which compacts to frontier 2
  and ends; A is bound again with frontier 0 and ends; its checkpoint becomes 2, and the next bind of A
  starts behind rows that are in none of its leaves. `docs/store-backed-compaction-design.md:13-14`: "Never
  borrow a frontier from a side-channel or another session."
* **A duplicate leaf** (`duplicate_leaf`, `NoDuplicateLeaf`). A leaf beyond an open gap commits no frontier
  (`compaction.py:1754`). A crash before the shortened list is saved makes the restarted engine summarise
  its rows again. Lines 39-40 of the same document: "A crash or session rollover between
  publication and cursor advance must not duplicate a node or mark uncovered rows as covered."
* **A late end** (`late_end`, `LateEndKeepsCarrySource`). `finalize_session` tests the session against the row it read
  (`lifecycle_state.py:339`) and writes in a second statement of an autocommit connection what it computed from it. When another process
  has bound a newer session in between, the WHERE of lines 381-382 still admits the write, because the older session is
  still the one finalized last; the write puts back the current session that was read, which is none, and its frontier, and the older
  session becomes the carry source. The comment at lines 337-338: "A late end hook from an older agent must not replace a newer
  conversation's carry source, especially after an explicit /new." An advance of the newer session is lost the same
  way; `OnlyLateEndsTakeBack` says that no other write does that.
* **A lost repeat** (`lost_repeat`, `EveryMessagePersisted`). When the cursor after a restart proves a replay, messages that equal
  any stored row are masked in the whole batch, the part past the cursor included (`reconcile.py:1673`): a turn the
  user repeats for the first time after a restart, without a source time, is dropped.
  `docs/features-overview.md:16`: "LCM persists every message in a plugin-local SQLite store".
* **Stale reuse** (`stale_reuse`, `ReuseStillMatches`). `start()` takes the evidence of its first look-up and confirms
  only the status of the second one (`adaptive_retrieval.py:954`). Another engine may have rebuilt the view in between; the
  episode is ready with the evidence of the version that was invalidated. `docs/retrieval-tools.md:64-66`: "Warm views reuse evidence
  and immutable computation traces only when typed intent, requirement cardinality, exact source dependencies, and
  negative-space coverage still match."
* **Starved aggregates** (`starvation`, `QueuedIsBuilt`). Nodes from before the feature was enabled have no
  events, so their days have no rows and the week and month over them cannot be complete. Both are deferred and stay at
  the head of the oldest-first list (`rollup_builder.py:40`), which with two builds per pass is the whole
  pass: a later month that an operator queued is never attempted. `docs/operator-guide.md:393-395`: targets
  beyond the bound "remain as durable `stale` rows, so later automatic maintenance builds them".

Observations made while modelling, which no run checks:

* `evidence_compiler.py:974` claims its build without a corpus snapshot taken before its retrieval; its views are
  never looked up.
* `invalidate_source` and `remove_version` of the assertion store, `reassign_externalized_payloads` and
  `purge_rollups_for_sources` have no caller. A rebuild of assertions whose oldest `limit` sources always fail does
  not get past them.
* The docstring at `escalation.py:127-129` says a forced compaction calls `clear()`; nothing does. The spend guard of
  embeddings (`embedding_provider.py:428-432`) checks and records in two steps without a lock.
* A writer whose fsync fails unlinks a file that another writer may already refer to (`unsynced` in `ToolSidecars` marks it).
  A pending journal entry whose row an engine externalised after an interrupted apply is never visited again, so the journal stays
  incomplete and a rollback is refused (docs, around line 1106).
* Generic compression and the flush of a session end ingest outside the claim lock. If session hooks of two other
  threads bind there and back during an attempt, the claim is refused though the session is the same: the model is called
  without need, which is harmless. So a binding counts as crossing a turn.
* Agents: the guard against a late end protects against one, and is not set when a continuation takes over an id that
  the conversation once had (`aux_session.py:303-455`). Two boundaries that race on one id check staleness and hand over
  under separate locks. A late start of an agent whose parent is no longer bound takes the foreground until its first
  ingest (`engine.py:2405-2437`).
* A part of a rollup window: `_recent_ready_rollups` counts the ready days and then reads the rows in another
  statement (`tools.py:2042`); a drain in between makes the answer incomplete, never wrong (`ServedWasCurrent`).
* The comment at `engine.py:4634` says of a purge that failed that "the summary_nodes join still keeps orphaned vectors out of
  ranking". A matrix of sign bits that was cached before is keyed by `data_version`, which the deletion of nodes does not move, and the
  vectors of its rows are loaded without the join (`vector_store.py:1449`): until the next vector is written the orphan is ranked, and
  takes a place among the hits, and is only dropped when they are hydrated. `SemanticSearch` has these steps.
* A plugin that is registered again while an unload of it still runs finds the pool closed by that unload afterwards (`__init__.py:431`);
  the model registers only after the unload.
* After a restart with a raw transcript that reaches behind the frontier, the chunk comes from the whole window but its
  source map only from rows after the marker (`compaction.py:1618`).

## 6. Not modelled, and what would come next

* Core: maintenance debt and its clearing (`lifecycle_state.py:724-790`, where `clear_debt` does not look at what another connection
  recorded meanwhile), and with it the liveness of the hidden prefix; deletion of nodes outside `/new`, integrity reports.
* Session carry: pruning of empty sessions, the sibling-chain fallback, placeholder metadata, a finalization skipped on a busy database.
* Ingest: ignore patterns, quarantine placeholders, persisted-output markers, the placeholder ledger, stale snapshots of sessions longer
  than the tail window.
* Scheduler and shutdown: a job that kills the worker thread; the join of integrity scans at the end of an unload.
* Rollups: several sessions that share a drain, work limits, schema repair.
* Embeddings: discovery of the chunk corpus (which runs the same protocol), the 256-row limit of the recovery; of search, filters, limits below the
  size of the corpus, partly quantised corpora and the chunk arm.
* Query views: those of the evidence compiler, budgets of an episode, maintenance calls without a caller.
* Auxiliary sessions: thread markers, the host's database of sessions, the native compressor of a bypassed session, side channels known by filters, a change of
  profile.
* Large payloads: payloads inside other messages, quarantined assistant text, persisted-output markers.
* Schema: versioned migration and full-text repair. Trajectory store, registration with the host, configuration, token and text
  utilities, scripts other than the backfill of tool outputs, and benchmarks: data processing, or separate databases without a protocol with the rest.

Next: maintenance debt beside `SessionCarry`.
