------------------------- MODULE SummaryPublication -------------------------
(***************************************************************************)
(* How raw messages become summary nodes in hermes-lcm: the message store, *)
(* the summary DAG and the lifecycle row of one conversation, shared       *)
(* through one SQLite file by several engines (src/compaction.py,          *)
(* src/dag.py, src/lifecycle_state.py, src/engine.py).                     *)
(*                                                                         *)
(* A compaction takes a snapshot of its inputs, calls a model without      *)
(* holding any lock, and publishes the node and the frontier in one write  *)
(* transaction that first checks the snapshot again.  Between its steps    *)
(* other engines compact, sessions end, are resumed or bound elsewhere,    *)
(* stored rows are rewritten and engines crash.                            *)
(*                                                                         *)
(* Message text is abstract: a message is its store id.  The system prompt *)
(* anchor, ignore patterns, tool groups and token counts only decide which *)
(* chunk is taken and when, so the chunk is any oldest part of what is     *)
(* eligible.                                                               *)
(***************************************************************************)
EXTENDS LifecycleState, Sequences, FiniteSets

CONSTANTS
    Engines,     \* engine objects, in one or several processes
    FreshTail,   \* newest messages that are never compacted
    Fanin,       \* nodes one condensation takes
    MaxDepth,    \* bound on the depth of a node
    MaxMessages, \* bound on the rows of the store
    MaxNodes,    \* with so many nodes no leaf is begun
    MaxBinds,    \* bound on the binds that change the row
    RestartDuringCompress \* may the host start a session while a compress of
                          \* that session or engine has not returned

ASSUME PublicationAssumption ==
    /\ FreshTail \in Nat \ {0} /\ Fanin \in Nat \ {0}
    /\ MaxDepth \in Nat /\ MaxMessages \in Nat
    /\ MaxNodes \in Nat /\ MaxBinds \in Nat
    /\ RestartDuringCompress \in BOOLEAN

VARIABLES
    messages,   \* the store: messages[i] is the row with store id i
    nodes,      \* the DAG: nodes[n] is the node with node id n
    row,        \* the lifecycle row of the conversation
    engine,     \* what each engine remembers about its session
    job,        \* the compaction each engine is running
    transcript  \* the host's raw message list of each session, as store ids

store == <<messages, nodes, row>>
vars  == <<messages, nodes, row, engine, job, transcript>>

(* version changes when transcript GC rewrites the stored content.  text is *)
(* what the summary text was computed from; the database has no such column.*)
Message == [session : Sessions, version : {0, 1}]
Node    == [session : Sessions, depth : Nat, sources : SUBSET Nat,
            text : SUBSET Nat]

(* marker is _last_compacted_store_id.  host is what the host uses the      *)
(* engine for: it runs the session, ended it, or gave it to another engine. *)
Engine == [session : Sessions \cup {NoSession}, marker : Nat,
           host : {"live", "ended", "replaced"}]

NoEngine == [session |-> NoSession, marker |-> 0, host |-> "ended"]

Live(e) == engine[e].host = "live"

Phases == {"idle", "ready", "model", "condense", "chosen", "assemble"}
Kinds  == {"active", "store", "nodes"}

(* What a publication is checked against: the source rows or nodes, the     *)
(* nodes that cover them, the lifecycle row and the session of the engine.  *)
Frozen == [ rows    : SUBSET (Nat \X (Message \cup Node)),
            parents : SUBSET (Nat \X Nat),
            binding : (Sessions \cup {NoSession}) \X Nat \X Nat,
            runtime : Sessions \cup {NoSession} ]

NothingFrozen == [ rows |-> {}, parents |-> {}, binding |-> <<NoSession, 0, 0>>,
                   runtime |-> NoSession ]

(* working  the messages compress still has to place, taken those that a    *)
(*          published leaf has consumed                                     *)
(* hidden   the durable rows before the window (hidden_gap_bounds)          *)
(* chunk    what was chosen to be summarised next, snap what was frozen of  *)
(*          it before the model was called                                  *)
Job == [phase : Phases, kind : Kinds, session : Sessions \cup {NoSession},
        working : SUBSET Nat, taken : SUBSET Nat, hidden : SUBSET Nat,
        chunk : SUBSET Nat, compacted : BOOLEAN, snap : Frozen]

NoJob == [phase |-> "idle", kind |-> "active", session |-> NoSession,
          working |-> {}, taken |-> {}, hidden |-> {}, chunk |-> {},
          compacted |-> FALSE, snap |-> NothingFrozen]

-----------------------------------------------------------------------------
(***************************************************************************)
(* Reading the store                                                       *)
(***************************************************************************)
StoreIds == 1..Len(messages)
NodeIds  == 1..Len(nodes)

RowsOf(s) == {i \in StoreIds : messages[i].session = s}

Leaf(n) == nodes[n].depth = 0

Covered(s) ==
    {i \in StoreIds : \E n \in NodeIds :
        Leaf(n) /\ nodes[n].session = s /\ i \in nodes[n].sources}

Upto(S, k) == {i \in S : i <= k}
OutsideTail(S) == {i \in S : Cardinality({j \in S : j > i}) >= FreshTail}
Last(S, m) == m \in S /\ \A i \in S : i <= m
Newest(S) == IF \E m \in S : Last(S, m) THEN CHOOSE m \in S : Last(S, m) ELSE 0

(* A deliberate bug: parents one level up are overlooked.                   *)
UncondensedOffByOne(s, d) ==
    {n \in NodeIds :
        /\ nodes[n].session = s /\ nodes[n].depth = d
        /\ ~\E p \in NodeIds : /\ nodes[p].session = s
                               /\ nodes[p].depth > d + 1
                               /\ n \in nodes[p].sources}

(* get_uncondensed_at_depth                                                 *)
Uncondensed(s, d) ==
    {n \in NodeIds :
        /\ nodes[n].session = s /\ nodes[n].depth = d
        /\ ~\E p \in NodeIds : /\ nodes[p].session = s
                               /\ nodes[p].depth > d
                               /\ n \in nodes[p].sources}

(* A deliberate bug: the first row after the frontier is overlooked.         *)
HiddenPrefixOffByOne(e, W) ==
    LET s       == engine[e].session
        from    == Larger(row.frontier, engine[e].marker)
        visible == {i \in W \cap RowsOf(s) : i > from}
    IN  IF row.current # s \/ visible = {} THEN {}
        ELSE {i \in OutsideTail(RowsOf(s)) : i > from + 1 /\ \A v \in visible : i < v}

(* _hidden_store_prefix_upper_bound: durable rows of the session that are   *)
(* older than the whole active window W and not yet behind the frontier.    *)
HiddenPrefix(e, W) ==
    LET s       == engine[e].session
        from    == Larger(row.frontier, engine[e].marker)
        visible == {i \in W \cap RowsOf(s) : i > from}
    IN  IF row.current # s \/ visible = {} THEN {}
        ELSE {i \in OutsideTail(RowsOf(s)) : i > from /\ \A v \in visible : i < v}

(* A deliberate bug: what leaves already hold is loaded again.              *)
DebtWithCovered(s, hidden) == hidden

(* _load_hidden_store_leaf_chunk leaves out the rows some leaf holds.       *)
Debt(s, hidden) == hidden \ Covered(s)

(* _get_store_id_map_for_messages: only rows after the marker are matched.  *)
Mapped(e, S) == {i \in S \cap RowsOf(engine[e].session) : i > engine[e].marker}

(* publication_snapshot, with the runtime identity the engine captures next *)
(* to it.  Parents are looked up in the sessions that own the source rows.  *)
Snapshot(e, kind, ids) ==
    LET source(i) == IF kind = "nodes" THEN nodes[i] ELSE messages[i]
    IN  [ rows    |-> {<<i, source(i)>> : i \in ids},
          parents |-> {p \in ids \X NodeIds :
                          /\ Leaf(p[2]) = (kind # "nodes")
                          /\ p[1] \in nodes[p[2]].sources
                          /\ \E k \in ids : source(k).session = nodes[p[2]].session},
          binding |-> <<row.current, row.frontier, row.bound>>,
          runtime |-> engine[e].session ]

-----------------------------------------------------------------------------
Init ==
    /\ messages = <<>> /\ nodes = <<>> /\ row = EmptyRow
    /\ engine = [e \in Engines |-> NoEngine]
    /\ job = [e \in Engines |-> NoJob]
    /\ transcript = [s \in Sessions |-> {}]

(***************************************************************************)
(* The host's session hooks                                                *)
(***************************************************************************)
Compressing(e) == job[e].phase # "idle"
OwnedByOther(e, s) == \E o \in Engines \ {e} : Live(o) /\ engine[o].session = s

(* on_session_start: bind the row and restart from its frontier.  The host  *)
(* may load only the recent part of its transcript.  A compaction of this   *)
(* engine that is still running is not stopped.                             *)
StartSession(e, s) ==
    /\ ~OwnedByOther(e, s)
    /\ RestartDuringCompress \/ \A o \in Engines : Compressing(o) => o # e /\ job[o].session # s
    /\ row.current # s => row.bound < MaxBinds
    /\ row' = BindRow(row, s)
    /\ engine' = [o \in Engines |->
                    CASE o = e -> [session |-> s, marker |-> row'.frontier, host |-> "live"]
                      [] o # e /\ engine[o].session = s -> [engine[o] EXCEPT !.host = "replaced"]
                      [] OTHER -> engine[o]]
    /\ \E old \in {{}} \cup {Upto(transcript[s], k) : k \in transcript[s]} :
          transcript' = [transcript EXCEPT ![s] = @ \ old]
    /\ UNCHANGED <<messages, nodes, job>>

(* The in-place compression boundary of on_session_start, which keeps the   *)
(* marker and only takes back the row this same session finalized.  It ends *)
(* a compress of this engine, so the session is with no other engine since. *)
ResumeInPlace(e) ==
    LET s == engine[e].session
    IN  /\ s # NoSession /\ engine[e].host # "replaced" /\ ~Compressing(e)
        /\ CanResume(row, s)
        /\ row' = ResumeRow(row, s, engine[e].marker)
        /\ engine' = [engine EXCEPT ![e].host = "live"]
        /\ UNCHANGED <<messages, nodes, job, transcript>>

(* on_session_end: finalize with the marker of this process, or give up     *)
(* after a short wait for a busy database.  It does not wait for a          *)
(* compaction that runs in another thread of the host.                      *)
EndSession(e) ==
    LET s == engine[e].session
        hasData == RowsOf(s) # {} \/ \E n \in NodeIds : nodes[n].session = s
    IN  /\ Live(e)
        /\ row' \in {row, FinalizeRow(row, s, engine[e].marker, hasData)}
        /\ engine' = [engine EXCEPT ![e].host = "ended"]
        /\ UNCHANGED <<messages, nodes, job, transcript>>

(* _ingest_messages: one more message of the host becomes durable, whether  *)
(* or not the conversation still belongs to the session.                    *)
Ingest(e) ==
    LET s == engine[e].session
        new == Len(messages) + 1
    IN  /\ Live(e) /\ new <= MaxMessages
        /\ messages' = Append(messages, [session |-> s, version |-> 0])
        /\ transcript' = [transcript EXCEPT ![s] = @ \cup {new}]
        /\ UNCHANGED <<nodes, row, engine, job>>

(* rotate_active_session: raw rows before the fresh tail are left out of    *)
(* the next bootstrap.  The marker deliberately stays where it is.          *)
Rotate(e) ==
    LET s    == engine[e].session
        tail == RowsOf(s) \ OutsideTail(RowsOf(s))
    IN  /\ Live(e) /\ row.current = s /\ OutsideTail(RowsOf(s)) # {}
        /\ \E first \in tail :
              /\ \A t \in tail : first <= t
              /\ row.frontier < first - 1
              /\ row' = AdvanceRow(row, s, first - 1)
        /\ UNCHANGED <<messages, nodes, engine, job, transcript>>

-----------------------------------------------------------------------------
(***************************************************************************)
(* Compaction                                                              *)
(***************************************************************************)

(* The part of _compress_impl before its first model call: an eligible      *)
(* window is compacted first and remembers the gap in front of it; only     *)
(* otherwise is an uncovered part of the hidden prefix loaded.              *)
BeginCompress(e) ==
    LET s      == engine[e].session
        W      == transcript[s]
        hidden == HiddenPrefix(e, W)
        start  == [NoJob EXCEPT !.phase = "ready", !.session = s,
                                !.working = W, !.hidden = hidden]
        debt   == Debt(s, hidden)
    IN  /\ Live(e) /\ ~Compressing(e) /\ Len(nodes) < MaxNodes
        /\ \/ OutsideTail(W) # {} /\ job' = [job EXCEPT ![e] = start]
           \/ \E k \in debt : job' = [job EXCEPT ![e] =
                    [start EXCEPT !.kind = "store", !.chunk = Upto(debt, k)]]
        /\ UNCHANGED <<store, engine, transcript>>

(* Freeze the lineage of the chosen chunk, then call the model.             *)
FreezeLeaf(e) ==
    LET j == job[e]
    IN  /\ j.phase = "ready" /\ Len(nodes) < MaxNodes
        /\ \E chunk \in IF j.kind = "store" THEN {j.chunk}
                        ELSE {Upto(j.working, k) : k \in OutsideTail(j.working)} :
              LET ids == IF j.kind = "store" THEN chunk ELSE Mapped(e, chunk)
              IN  job' = [job EXCEPT ![e] =
                            [j EXCEPT !.phase = "model", !.chunk = chunk,
                                      !.snap = Snapshot(e, j.kind, ids)]]
        /\ UNCHANGED <<store, engine, transcript>>

FrozenIds(j) == {r[1] : r \in j.snap.rows}

(* Two deliberate bugs: only the content of the sources is checked again,   *)
(* and everything but the lifecycle row is.                                 *)
ValidRowsOnly(e) ==
    LET j == job[e]
    IN  j.snap.rows = Snapshot(e, j.kind, FrozenIds(j)).rows

ValidWithoutBinding(e) ==
    LET j   == job[e]
        now == Snapshot(e, j.kind, FrozenIds(j))
    IN  /\ j.snap = [now EXCEPT !.binding = j.snap.binding]
        /\ row.current = engine[e].session
        /\ \A r \in j.snap.rows : r[2].session = engine[e].session

(* The checks publish_node makes inside its write transaction, before the   *)
(* insert: nothing the snapshot holds may have changed, and the session     *)
(* must own its sources and the conversation.                               *)
PublicationValid(e) ==
    LET j == job[e]
    IN  /\ j.snap = Snapshot(e, j.kind, FrozenIds(j))
        /\ row.current = engine[e].session
        /\ \A r \in j.snap.rows : r[2].session = engine[e].session

(* A rescue may shrink what the summary covers to an older part of the      *)
(* chunk.  The frontier goes no further than that part, and nowhere at all  *)
(* when an older gap is still open.  After the last row of a hidden prefix  *)
(* the window itself may follow; otherwise a store pass ends the loop.      *)
PublishLeaf(e) ==
    LET j     == job[e]
        moves == j.kind = "store" \/ j.hidden = {}
    IN  /\ j.phase = "model" /\ j.kind # "nodes"
        /\ PublicationValid(e)
        /\ \E k \in j.chunk :
              LET text    == Upto(j.chunk, k)
                  sources == text \cap FrozenIds(j)
                  reached == Newest(sources)
                  drained == ~\E i \in j.hidden : i > reached
              IN  /\ nodes' = Append(nodes,
                        [session |-> engine[e].session, depth |-> 0,
                         sources |-> sources, text |-> text])
                  /\ row' = IF moves THEN AdvanceRow(row, engine[e].session, reached)
                            ELSE row
                  /\ engine' = IF moves THEN [engine EXCEPT ![e].marker = reached]
                               ELSE engine
                  /\ job' = [job EXCEPT ![e] =
                        [j EXCEPT !.phase = IF j.kind = "store" /\ ~drained
                                            THEN "condense" ELSE "ready",
                                  !.kind = "active", !.compacted = TRUE,
                                  !.hidden = IF j.kind = "store" THEN {} ELSE @,
                                  !.working = @ \ text, !.taken = @ \cup text,
                                  !.chunk = {}, !.snap = NothingFrozen]]
        /\ UNCHANGED <<messages, transcript>>

(* _maybe_condense and the sweep, after at least one leaf of this call: the *)
(* oldest Fanin nodes of a depth, of which a sweep may take fewer.          *)
ChooseNodes(e) ==
    LET j == job[e]
    IN  /\ j.phase = "condense" \/ (j.phase = "ready" /\ j.compacted)
        /\ \E d \in 0..(MaxDepth - 1) :
              LET free  == Uncondensed(engine[e].session, d)
                  group == {n \in free : Cardinality(Upto(free, n)) <= Fanin}
              IN  /\ Cardinality(group) \in (2..Fanin) \cup {Fanin}
                  /\ job' = [job EXCEPT ![e] =
                        [j EXCEPT !.phase = "chosen", !.kind = "nodes", !.chunk = group]]
        /\ UNCHANGED <<store, engine, transcript>>

(* _condense_summary_nodes: freeze the nodes that were read and call the    *)
(* model.                                                                   *)
FreezeNodes(e) ==
    LET j == job[e]
    IN  /\ j.phase = "chosen"
        /\ job' = [job EXCEPT ![e] =
              [j EXCEPT !.phase = "model", !.snap = Snapshot(e, "nodes", j.chunk)]]
        /\ UNCHANGED <<store, engine, transcript>>

PublishNodes(e) ==
    LET j == job[e]
    IN  /\ j.phase = "model" /\ j.kind = "nodes"
        /\ PublicationValid(e)
        /\ \E n \in j.chunk :
              nodes' = Append(nodes,
                    [session |-> engine[e].session, depth |-> nodes[n].depth + 1,
                     sources |-> j.chunk, text |-> j.chunk])
        /\ job' = [job EXCEPT ![e] = [j EXCEPT !.phase = "condense", !.kind = "active",
                                              !.chunk = {}, !.snap = NothingFrozen]]
        /\ UNCHANGED <<messages, row, engine, transcript>>

(* The exception reaches the host, which keeps its list.                    *)
Raise(e) == job' = [job EXCEPT ![e] = NoJob]

(* A threshold sweep that has committed a leaf returns what it has.         *)
StopSweep(e) ==
    /\ job[e].compacted
    /\ job' = [job EXCEPT ![e] = [@ EXCEPT !.phase = "assemble", !.kind = "active",
                                          !.chunk = {}, !.snap = NothingFrozen]]

(* The model call fails or runs out of time.                                *)
FailModel(e) ==
    /\ job[e].phase = "model"
    /\ Raise(e) \/ StopSweep(e)
    /\ UNCHANGED <<store, engine, transcript>>

(* publish_node rolls back and raises; only the sweep catches that, for a   *)
(* condensation.                                                            *)
RejectPublication(e) ==
    /\ job[e].phase = "model" /\ ~PublicationValid(e)
    /\ Raise(e) \/ (job[e].kind = "nodes" /\ StopSweep(e))
    /\ UNCHANGED <<store, engine, transcript>>

(* compress returns and the host replaces its list: published messages give *)
(* way to summaries, messages that came meanwhile stay.                     *)
ReturnContext(e) ==
    LET j == job[e]
    IN  /\ j.phase \in {"ready", "condense", "assemble"}
        /\ transcript' = [transcript EXCEPT ![j.session] = @ \ j.taken]
        /\ job' = [job EXCEPT ![e] = NoJob]
        /\ UNCHANGED <<store, engine>>

-----------------------------------------------------------------------------
(* Transcript GC replaces the stored content of a row a leaf has covered.   *)
RewriteRow(i) ==
    /\ messages[i].version = 0 /\ i \in Covered(messages[i].session)
    /\ messages' = [messages EXCEPT ![i].version = 1]
    /\ UNCHANGED <<nodes, row, engine, job, transcript>>

(* The process dies: its memory is gone, the database and what the host     *)
(* saved are not.                                                           *)
Crash(e) ==
    /\ engine[e].session # NoSession
    /\ engine' = [engine EXCEPT ![e] = NoEngine]
    /\ job' = [job EXCEPT ![e] = NoJob]
    /\ UNCHANGED <<store, transcript>>

Compaction(e) ==
    \/ BeginCompress(e) \/ FreezeLeaf(e) \/ PublishLeaf(e)
    \/ ChooseNodes(e) \/ FreezeNodes(e) \/ PublishNodes(e)
    \/ FailModel(e) \/ RejectPublication(e) \/ ReturnContext(e)

Step ==
    \/ \E e \in Engines, s \in Sessions : StartSession(e, s)
    \/ \E e \in Engines : ResumeInPlace(e) \/ EndSession(e) \/ Ingest(e) \/ Crash(e)
    \/ \E e \in Engines : Compaction(e)
    \/ \E i \in StoreIds : RewriteRow(i)

Next == Step \/ \E e \in Engines : Rotate(e)

Spec == Init /\ [][Next]_vars

(* Nobody rotates: every row behind a frontier should be in a summary.      *)
UnrotatedSpec == Init /\ [][Step]_vars

=============================================================================
