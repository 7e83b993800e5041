---------------------- MODULE SummaryPublicationProps -----------------------
(***************************************************************************)
(* What must hold of SummaryPublication.                                   *)
(***************************************************************************)
EXTENDS SummaryPublication

(* Every variable keeps to its values.                                      *)
TypeOK ==
    /\ messages \in Seq(Message)
    /\ nodes \in Seq(Node)
    /\ row \in LifecycleRow
    /\ engine \in [Engines -> Engine]
    /\ job \in [Engines -> Job]
    /\ transcript \in [Sessions -> SUBSET Nat]

(* The lineage that expand and search follow never leaves its session: a    *)
(* leaf cites durable rows of the session that owns it, a deeper node cites *)
(* older nodes of that session, one level below it (dag.py publish_node).   *)
LineageOwned ==
    \A n \in NodeIds : \A i \in nodes[n].sources :
        IF Leaf(n)
        THEN i \in StoreIds /\ messages[i].session = nodes[n].session
        ELSE /\ i \in 1..(n - 1)
             /\ nodes[i].session = nodes[n].session
             /\ nodes[n].depth = nodes[i].depth + 1

(* The in-memory cursor moves only after the commit: no engine whose        *)
(* session owns the conversation believes more rows to be compacted than    *)
(* the database says (docs/maintenance-20261004-summary-publication.md).    *)
CursorNotAhead ==
    \A e \in Engines :
        Live(e) /\ engine[e].session = row.current
            => engine[e].marker <= row.frontier

(* What makes these three inductive.                                        *)

(* An engine without a session has forgotten everything, and a conversation *)
(* nobody holds has no frontier.                                            *)
UnboundIsEmpty ==
    /\ \A e \in Engines :
          engine[e].session = NoSession => engine[e] = NoEngine /\ job[e] = NoJob
    /\ row.current = NoSession => row.frontier = 0

(* The host gave each session to one engine at a time.                      *)
OneInCharge ==
    \A d, e \in Engines :
        d # e /\ engine[d].session = engine[e].session
            => \/ engine[d].session = NoSession
               \/ "replaced" \in {engine[d].host, engine[e].host}

(* CursorNotAhead, also for an engine that ended its session and may still  *)
(* take it back in place.                                                   *)
MarkerBehind ==
    \A e \in Engines :
        engine[e].host # "replaced" /\ engine[e].session = row.current
            => engine[e].marker <= row.frontier

(* What a compaction froze is in the database, and a condensation froze     *)
(* nodes of one depth.                                                      *)
FrozenFrom(j) ==
    /\ j.kind = "nodes" => j.phase \in {"chosen", "model"}
    /\ j.kind = "nodes"
          => /\ j.chunk \subseteq NodeIds
             /\ \A m, n \in j.chunk : nodes[m].depth = nodes[n].depth
    /\ j.kind = "store" => j.chunk \subseteq StoreIds
    /\ j.phase = "model" /\ j.kind # "nodes" => FrozenIds(j) \subseteq StoreIds
    /\ j.phase = "model" /\ j.kind = "nodes" => j.chunk = FrozenIds(j)
    /\ j.phase = "chosen" => j.kind = "nodes"

FrozenExists == \A e \in Engines : FrozenFrom(job[e])

PublicationInv ==
    /\ TypeOK /\ LineageOwned
    /\ UnboundIsEmpty /\ OneInCharge /\ MarkerBehind /\ FrozenExists

(* A node is committed only if everything its text was computed from is as  *)
(* it was when the model call began: the source rows, the nodes covering    *)
(* them, the frontier, and the very bind of the conversation, so that a     *)
(* session that ended and came back does not accept a summary of its past.  *)
PublishedFromFrozenInputs ==
    [][\A e \in Engines :
          job[e].phase = "model" /\ nodes' # nodes /\ job'[e] # job[e]
            => /\ \A r \in job[e].snap.rows :
                     r[2] = IF job[e].kind = "nodes" THEN nodes[r[1]] ELSE messages[r[1]]
               /\ job[e].snap.binding = <<row.current, row.frontier, row.bound>>
               /\ \A r \in job[e].snap.rows : \A n \in NodeIds :
                     ( /\ Leaf(n) = (job[e].kind # "nodes")
                       /\ nodes[n].session = row.current
                       /\ r[1] \in nodes[n].sources )
                     => <<r[1], n>> \in job[e].snap.parents
      ]_vars

(* Within one bind the frontier never goes back, whoever writes it: a       *)
(* regression would offer compacted rows again.                             *)
FrontierMonotone ==
    [][row'.current = row.current /\ row'.bound = row.bound
          => row'.frontier >= row.frontier]_row

(* The publication protocol does what SummaryProgress promises.             *)
Progress == INSTANCE SummaryProgress WITH
    arrived    <- [i \in StoreIds |-> messages[i].session],
    owner      <- row.current,
    progress   <- row.frontier,
    summarised <- {r \in Sessions \X StoreIds : r[2] \in Covered(r[1])},
    leaves     <- Cardinality({n \in NodeIds : Leaf(n)})

ImplementsProgress == Progress!Spec

(* A pass over the hidden prefix never summarises a row that a leaf of the  *)
(* session holds already (_load_hidden_store_leaf_chunk skips them).        *)
StorePassSkipsCovered ==
    [][\A e \in Engines :
          job[e].phase = "model" /\ job[e].kind = "store" /\ nodes' # nodes /\ job'[e] # job[e]
            => job[e].chunk \cap Covered(job[e].session) = {}]_vars

(* A node is condensed at most once: the summaries shown to the model are   *)
(* the nodes without a parent, and a second parent would tell its part of   *)
(* the conversation twice (get_uncondensed_at_depth).                       *)
CondensedOnce ==
    \A m, n \in NodeIds :
        m # n /\ ~Leaf(m) /\ ~Leaf(n) => nodes[m].sources \cap nodes[n].sources = {}

-----------------------------------------------------------------------------
(* Statements of the documentation that the code does not keep.             *)

(* "mark uncovered rows as covered" must not happen by a crash or rollover, *)
(* and a frontier is never borrowed from another session: right after a     *)
(* bind every row behind the frontier is in a leaf of that session.         *)
NeverBorrowsFrontier ==
    [][row'.bound # row.bound =>
          \A i \in RowsOf(row'.current) :
              i <= row'.frontier => i \in Covered(row'.current)]_row

(* "must not duplicate a node": no two leaves of a session share a row.     *)
NoDuplicateLeaf ==
    \A m, n \in NodeIds :
        Leaf(m) /\ Leaf(n) /\ m # n /\ nodes[m].session = nodes[n].session
            => nodes[m].sources \cap nodes[n].sources = {}

=============================================================================
