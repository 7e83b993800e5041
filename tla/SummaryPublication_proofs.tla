---------------------- MODULE SummaryPublication_proofs ----------------------
(***************************************************************************)
(* PublicationInv is an inductive invariant of SummaryPublication, and     *)
(* what follows from it for any number of sessions, engines, rows and      *)
(* nodes: LineageOwned, CursorNotAhead, FrontierMonotone and               *)
(* PublishedFromFrozenInputs.                                              *)
(*                                                                         *)
(* For a host that starts no session under a running compress, two further *)
(* invariants, ApartInv and GapInv, give CondensedOnce,                    *)
(* StorePassSkipsCovered and the refinement of SummaryProgress.            *)
(***************************************************************************)
EXTENDS SummaryPublicationProps, SequenceTheorems, FiniteSetTheorems, TLAPS

USE NoSessionAssumption, PublicationAssumption

-----------------------------------------------------------------------------
(***************************************************************************)
(* The operations on the lifecycle row                                     *)
(***************************************************************************)

(* A bind gives the row to s and starts its marker at a frontier.           *)
LEMMA BindRowLemma ==
    ASSUME NEW r \in LifecycleRow, NEW s \in Sessions
    PROVE  /\ BindRow(r, s) \in LifecycleRow
           /\ BindRow(r, s).current = s
           /\ BindRow(r, s) = r \/ BindRow(r, s).bound = r.bound + 1
BY DEF LifecycleRow, BindRow, ResumesFinalized

(* An in-place resume either finds the row as it should be or takes a free  *)
(* one back at exactly the given frontier.                                  *)
LEMMA ResumeRowLemma ==
    ASSUME NEW r \in LifecycleRow, NEW s \in Sessions, NEW k \in Nat, CanResume(r, s)
    PROVE  /\ ResumeRow(r, s, k) \in LifecycleRow
           /\ ResumeRow(r, s, k).current = s
           /\ \/ ResumeRow(r, s, k) = r
              \/ r.current = NoSession /\ ResumeRow(r, s, k).frontier = k
BY DEF LifecycleRow, ResumeRow, CanResume, ResumesFinalized

(* After finalize_session the row does not name s, and a row that names     *)
(* another session keeps its frontier.                                      *)
LEMMA FinalizeRowLemma ==
    ASSUME NEW r \in LifecycleRow, NEW s \in Sessions, NEW k \in Nat,
           NEW hasData \in BOOLEAN
    PROVE  /\ FinalizeRow(r, s, k, hasData) \in LifecycleRow
           /\ IF r.current = s
              THEN /\ FinalizeRow(r, s, k, hasData).current = NoSession
                   /\ FinalizeRow(r, s, k, hasData).frontier = 0
              ELSE /\ FinalizeRow(r, s, k, hasData).current = r.current
                   /\ FinalizeRow(r, s, k, hasData).frontier = r.frontier
BY DEF LifecycleRow, FinalizeRow, Larger

(* advance_frontier never lowers the frontier and touches nothing else.     *)
LEMMA AdvanceRowLemma ==
    ASSUME NEW r \in LifecycleRow, NEW s, NEW k \in Nat
    PROVE  /\ AdvanceRow(r, s, k) \in LifecycleRow
           /\ AdvanceRow(r, s, k).current = r.current
           /\ AdvanceRow(r, s, k).bound = r.bound
           /\ AdvanceRow(r, s, k).frontier >= r.frontier
           /\ r.current = s => AdvanceRow(r, s, k).frontier >= k
BY DEF LifecycleRow, AdvanceRow, Larger

(* The newest of a set of store ids is one of them, or 0.                   *)
LEMMA NewestLemma ==
    ASSUME NEW S \in SUBSET Nat
    PROVE  Newest(S) \in Nat
BY DEF Newest, Last

-----------------------------------------------------------------------------
(***************************************************************************)
(* Snapshots                                                               *)
(***************************************************************************)

(* A snapshot of rows or nodes that exist has the type of a snapshot, and   *)
(* the ids it holds are those it was taken of.                              *)
LEMMA SnapshotLemma ==
    ASSUME TypeOK, NEW e \in Engines, NEW kind \in Kinds, NEW ids,
           ids \subseteq IF kind = "nodes" THEN NodeIds ELSE StoreIds
    PROVE  /\ Snapshot(e, kind, ids) \in Frozen
           /\ \A j : j.snap = Snapshot(e, kind, ids) => FrozenIds(j) = ids
  <1> DEFINE source(i) == IF kind = "nodes" THEN nodes[i] ELSE messages[i]
  <1>1. \A i \in ids : i \in Nat /\ source(i) \in Message \cup Node
    BY ElementOfSeq DEF TypeOK, NodeIds, StoreIds
  <1>2. Snapshot(e, kind, ids).rows = {<<i, source(i)>> : i \in ids}
    BY DEF Snapshot
  <1>3. Snapshot(e, kind, ids).rows \in SUBSET (Nat \X (Message \cup Node))
    BY <1>1, <1>2
  <1>4. Snapshot(e, kind, ids).parents \in SUBSET (Nat \X Nat)
    <2>1. Snapshot(e, kind, ids).parents \subseteq ids \X NodeIds
      BY Zenon DEF Snapshot
    <2>2. ids \subseteq Nat /\ NodeIds \subseteq Nat
      BY <1>1 DEF NodeIds
    <2> QED BY <2>1, <2>2
  <1>5. /\ Snapshot(e, kind, ids).binding \in (Sessions \cup {NoSession}) \X Nat \X Nat
        /\ Snapshot(e, kind, ids).runtime \in Sessions \cup {NoSession}
    BY DEF Snapshot, TypeOK, LifecycleRow, Engine
  <1>6. Snapshot(e, kind, ids) \in Frozen
    BY <1>3, <1>4, <1>5 DEF Snapshot, Frozen
  <1>7. ASSUME NEW j, j.snap = Snapshot(e, kind, ids)
        PROVE  FrozenIds(j) = ids
    <2>1. FrozenIds(j) = {r[1] : r \in {<<i, source(i)>> : i \in ids}}
      BY <1>2, <1>7, Zenon DEF FrozenIds
    <2> DEFINE pairs == {<<i, source(i)>> : i \in ids}
    <2>2. ASSUME NEW i \in ids PROVE i \in FrozenIds(j)
      <3>1. <<i, source(i)>> \in pairs /\ <<i, source(i)>>[1] = i
        OBVIOUS
      <3> HIDE DEF pairs
      <3> QED BY <2>1, <3>1
    <2>3. ASSUME NEW i \in FrozenIds(j) PROVE i \in ids
      <3>1. PICK r \in pairs : i = r[1]
        BY <2>1
      <3> QED BY <3>1
    <2> QED BY <2>2, <2>3
  <1> QED BY <1>6, <1>7

-----------------------------------------------------------------------------
(***************************************************************************)
(* The inductive invariant                                                 *)
(***************************************************************************)

(* What a compaction that has frozen its inputs knows when publish_node     *)
(* accepts them: the engine owns the conversation and every source.         *)
LEMMA ValidLemma ==
    ASSUME PublicationInv, NEW e \in Engines, job[e].phase = "model",
           PublicationValid(e)
    PROVE  /\ engine[e].session \in Sessions
           /\ row.current = engine[e].session
           /\ \A i \in FrozenIds(job[e]) :
                 IF job[e].kind = "nodes"
                 THEN i \in NodeIds /\ nodes[i].session = engine[e].session
                 ELSE i \in StoreIds /\ messages[i].session = engine[e].session
  <1> DEFINE j == job[e]
             ids == FrozenIds(j)
             source(i) == IF j.kind = "nodes" THEN nodes[i] ELSE messages[i]
  <1>1. engine[e].session \in Sessions
    BY DEF PublicationInv, UnboundIsEmpty, TypeOK, Engine, NoJob
  <1>2. row.current = engine[e].session
    BY DEF PublicationValid
  <1>3. \A i \in ids : i \in IF j.kind = "nodes" THEN NodeIds ELSE StoreIds
    BY DEF PublicationInv, FrozenExists, FrozenFrom
  <1>4. j.snap.rows = {<<i, source(i)>> : i \in ids}
    <2>1. j.snap = Snapshot(e, j.kind, ids)
      BY DEF PublicationValid
    <2>2. Snapshot(e, j.kind, ids).rows = {<<i, source(i)>> : i \in ids}
      BY DEF Snapshot
    <2> QED BY <2>1, <2>2
  <1>5. \A i \in ids : source(i).session = engine[e].session
    <2>1. \A r \in j.snap.rows : r[2].session = engine[e].session
      BY DEF PublicationValid
    <2>2. ASSUME NEW i \in ids PROVE source(i).session = engine[e].session
      <3>1. <<i, source(i)>> \in j.snap.rows
        BY <1>4
      <3>2. <<i, source(i)>>[2] = source(i)
        OBVIOUS
      <3> HIDE DEF source
      <3> QED BY <2>1, <3>1, <3>2
    <2> QED BY <2>2
  <1> QED BY <1>1, <1>2, <1>3, <1>5

(* The initial states satisfy the invariant.                                *)
LEMMA InitInv == Init => PublicationInv
  <1> SUFFICES ASSUME Init PROVE PublicationInv
    OBVIOUS
  <1> USE DEF Init
  <1>1. TypeOK
    <2>1. messages \in Seq(Message) /\ nodes \in Seq(Node)
      OBVIOUS
    <2>2. row \in LifecycleRow
      BY DEF LifecycleRow, EmptyRow
    <2>3. engine \in [Engines -> Engine]
      BY DEF Engine, NoEngine
    <2>4. job \in [Engines -> Job]
      BY DEF Job, NoJob, Phases, Kinds, Frozen, NothingFrozen
    <2> QED BY <2>1, <2>2, <2>3, <2>4 DEF TypeOK
  <1>2. LineageOwned
    BY DEF LineageOwned, NodeIds
  <1>3. UnboundIsEmpty /\ OneInCharge /\ MarkerBehind
    BY DEF UnboundIsEmpty, OneInCharge, MarkerBehind, EmptyRow, NoEngine
  <1>4. FrozenExists
    BY DEF FrozenExists, FrozenFrom, NoJob
  <1> QED BY <1>1, <1>2, <1>3, <1>4 DEF PublicationInv

(* A step that only replaces the job of one engine.                         *)
LEMMA JobStep ==
    ASSUME PublicationInv, NEW e \in Engines, NEW j \in Job,
           job' = [job EXCEPT ![e] = j], UNCHANGED <<store, engine>>,
           transcript' \in [Sessions -> SUBSET Nat],
           engine[e].session # NoSession \/ j = NoJob,
           FrozenFrom(j)
    PROVE  PublicationInv'
  <1> USE DEF store
  <1>1. TypeOK'
    BY DEF PublicationInv, TypeOK
  <1>2. LineageOwned'
    BY DEF PublicationInv, LineageOwned, NodeIds, StoreIds, Leaf
  <1>3. UnboundIsEmpty'
    BY DEF PublicationInv, UnboundIsEmpty, TypeOK
  <1>4. OneInCharge' /\ MarkerBehind'
    BY DEF PublicationInv, OneInCharge, MarkerBehind
  <1>5. FrozenExists'
    <2>1. ASSUME NEW o \in Engines PROVE FrozenFrom(job'[o])
      BY DEF PublicationInv, FrozenExists, TypeOK
    <2>2. ASSUME NEW o \in Engines PROVE FrozenFrom(job[o])'
      BY <2>1 DEF FrozenFrom, FrozenIds, NodeIds, StoreIds
    <2> QED BY <2>2 DEF FrozenExists
  <1> QED BY <1>1, <1>2, <1>3, <1>4, <1>5 DEF PublicationInv

(* A step that adds rows or nodes, or rewrites the content of a row, leaves *)
(* what a compaction froze where it was.                                    *)
LEMMA FrozenGrows ==
    ASSUME Len(messages) \in Nat, Len(messages)' \in Nat, Len(messages) <= Len(messages)',
           Len(nodes) \in Nat, Len(nodes)' \in Nat, Len(nodes) <= Len(nodes)',
           \A n \in NodeIds : nodes'[n] = nodes[n],
           NEW e \in Engines, FrozenFrom(job[e]), job'[e] = job[e]
    PROVE  FrozenFrom(job[e])'
  <1>1. /\ (job[e].kind = "nodes" => job[e].phase \in {"chosen", "model"})'
        /\ (job[e].phase = "chosen" => job[e].kind = "nodes")'
    BY DEF FrozenFrom
  <1>2. StoreIds \subseteq StoreIds' /\ NodeIds \subseteq NodeIds'
    BY DEF StoreIds, NodeIds
  <1>3. FrozenIds(job[e])' = FrozenIds(job[e])
    BY DEF FrozenIds
  <1>4. (job[e].kind = "store" => job[e].chunk \subseteq StoreIds)'
    BY <1>2 DEF FrozenFrom
  <1>5. (job[e].phase = "model" /\ job[e].kind # "nodes"
            => FrozenIds(job[e]) \subseteq StoreIds)'
    BY <1>2, <1>3 DEF FrozenFrom
  <1>6. /\ (job[e].kind = "nodes"
               => /\ job[e].chunk \subseteq NodeIds
                  /\ \A m, n \in job[e].chunk : nodes[m].depth = nodes[n].depth)'
        /\ (job[e].phase = "model" /\ job[e].kind = "nodes"
               => job[e].chunk = FrozenIds(job[e]))'
    BY <1>2, <1>3 DEF FrozenFrom
  <1> QED BY <1>1, <1>4, <1>5, <1>6 DEF FrozenFrom

(* The host's hooks.                                                        *)
LEMMA StartSessionStep ==
    ASSUME PublicationInv, NEW e \in Engines, NEW s \in Sessions, StartSession(e, s)
    PROVE  PublicationInv'
  <1>1. /\ row' = BindRow(row, s) /\ row' \in LifecycleRow /\ row'.current = s
    BY BindRowLemma DEF StartSession, PublicationInv, TypeOK
  <1>2. /\ DOMAIN engine' = Engines /\ engine' = [o \in Engines |-> engine'[o]]
        /\ engine'[e] = [session |-> s, marker |-> row'.frontier, host |-> "live"]
    BY DEF StartSession
  <1>2a. ASSUME NEW o \in Engines \ {e}
         PROVE  engine'[o] = IF engine[o].session = s
                             THEN [engine[o] EXCEPT !.host = "replaced"] ELSE engine[o]
    BY DEF StartSession
  <1>3. \A o \in Engines \ {e} :
          /\ engine'[o].session = engine[o].session /\ engine'[o].marker = engine[o].marker
          /\ engine'[o].host = IF engine[o].session = s THEN "replaced" ELSE engine[o].host
          /\ engine'[o] \in Engine
          /\ engine[o].session = NoSession => engine'[o] = engine[o]
    BY <1>2a, NoSessionAssumption DEF PublicationInv, TypeOK, Engine
  <1>4. engine'[e] \in Engine
    BY <1>1, <1>2 DEF Engine, LifecycleRow
  <1>5. UNCHANGED <<messages, nodes, job>>
    BY DEF StartSession
  <1>6. TypeOK'
    <2>1. engine' \in [Engines -> Engine]
      BY <1>2, <1>3, <1>4
    <2>2. transcript' \in [Sessions -> SUBSET Nat]
      BY DEF StartSession, PublicationInv, TypeOK
    <2> QED BY <1>1, <1>5, <2>1, <2>2 DEF PublicationInv, TypeOK
  <1>7. LineageOwned'
    BY <1>5 DEF PublicationInv, LineageOwned, NodeIds, StoreIds, Leaf
  <1>8. UnboundIsEmpty'
    BY <1>1, <1>2, <1>5, <1>3 DEF PublicationInv, UnboundIsEmpty
  <1>9. OneInCharge'
    BY <1>2, <1>3 DEF PublicationInv, OneInCharge
  <1>10. MarkerBehind'
    BY <1>1, <1>2, <1>3 DEF MarkerBehind, LifecycleRow
  <1>11. FrozenExists'
    BY <1>5 DEF PublicationInv, FrozenExists, FrozenFrom, FrozenIds, NodeIds, StoreIds
  <1> QED BY <1>6, <1>7, <1>8, <1>9, <1>10, <1>11 DEF PublicationInv

(* An in-place resume gives the row no less than the marker it resumes.     *)
LEMMA ResumeInPlaceStep ==
    ASSUME PublicationInv, NEW e \in Engines, ResumeInPlace(e)
    PROVE  PublicationInv'
  <1> DEFINE s == engine[e].session
  <1>1. s \in Sessions /\ CanResume(row, s) /\ engine[e].host # "replaced"
    BY DEF ResumeInPlace, PublicationInv, TypeOK, Engine
  <1>2. row' = ResumeRow(row, s, engine[e].marker)
    BY DEF ResumeInPlace
  <1>3. /\ row' \in LifecycleRow /\ row'.current = s
        /\ \/ row' = row
           \/ row.current = NoSession /\ row'.frontier = engine[e].marker
    BY <1>1, <1>2, ResumeRowLemma DEF PublicationInv, TypeOK, Engine
  <1>4. /\ engine' \in [Engines -> Engine]
        /\ engine'[e].session = s /\ engine'[e].marker = engine[e].marker
        /\ \A o \in Engines \ {e} : engine'[o] = engine[o]
    BY DEF ResumeInPlace, PublicationInv, TypeOK, Engine
  <1>5. UNCHANGED <<messages, nodes, job, transcript>>
    BY DEF ResumeInPlace
  <1>6. TypeOK'
    BY <1>3, <1>4, <1>5 DEF PublicationInv, TypeOK
  <1>7. LineageOwned'
    BY <1>5 DEF PublicationInv, LineageOwned, NodeIds, StoreIds, Leaf
  <1>8. UnboundIsEmpty'
    BY <1>1, <1>3, <1>4, <1>5 DEF PublicationInv, UnboundIsEmpty
  <1>9. OneInCharge'
    BY <1>1, <1>4 DEF PublicationInv, OneInCharge
  <1>10. MarkerBehind'
    BY <1>1, <1>3, <1>4 DEF PublicationInv, MarkerBehind, OneInCharge, TypeOK, Engine
  <1>11. FrozenExists'
    BY <1>5 DEF PublicationInv, FrozenExists, FrozenFrom, FrozenIds, NodeIds, StoreIds
  <1> QED BY <1>6, <1>7, <1>8, <1>9, <1>10, <1>11 DEF PublicationInv

(* The end of a session frees the row or leaves it alone.                   *)
LEMMA EndSessionStep ==
    ASSUME PublicationInv, NEW e \in Engines, EndSession(e)
    PROVE  PublicationInv'
  <1> DEFINE s == engine[e].session
             hasData == RowsOf(s) # {} \/ \E n \in NodeIds : nodes[n].session = s
  <1>1. s \in Sessions /\ engine[e].marker \in Nat
    BY DEF EndSession, Live, PublicationInv, UnboundIsEmpty, NoEngine, TypeOK, Engine
  <1>2. row' = row \/ row' = FinalizeRow(row, s, engine[e].marker, hasData)
    BY DEF EndSession
  <1>3. /\ row' \in LifecycleRow
        /\ \/ row' = row
           \/ IF row.current = s THEN row'.current = NoSession /\ row'.frontier = 0
              ELSE row'.current = row.current /\ row'.frontier = row.frontier
    <2>1. hasData \in BOOLEAN /\ row \in LifecycleRow
      BY DEF PublicationInv, TypeOK
    <2> HIDE DEF hasData
    <2> QED BY <1>1, <1>2, <2>1, FinalizeRowLemma
  <1>4. /\ engine' \in [Engines -> Engine]
        /\ engine'[e].session = s
        /\ \A o \in Engines \ {e} : engine'[o] = engine[o]
        /\ engine[e].host # "replaced"
    BY DEF EndSession, Live, PublicationInv, TypeOK, Engine
  <1>5. UNCHANGED <<messages, nodes, job, transcript>>
    BY DEF EndSession
  <1>6. TypeOK'
    BY <1>3, <1>4, <1>5 DEF PublicationInv, TypeOK
  <1>7. LineageOwned'
    BY <1>5 DEF PublicationInv, LineageOwned, NodeIds, StoreIds, Leaf
  <1>8. UnboundIsEmpty'
    BY <1>1, <1>3, <1>4, <1>5 DEF PublicationInv, UnboundIsEmpty
  <1>9. OneInCharge'
    BY <1>4 DEF PublicationInv, OneInCharge
  <1>10. MarkerBehind'
    <2>0. CASE row' = row
      BY <1>4, <2>0 DEF PublicationInv, MarkerBehind, EndSession, TypeOK
    <2>1. CASE row.current = s /\ row' # row
      <3>1. \A o \in Engines : engine[o].session = NoSession => engine[o].marker = 0
        BY DEF PublicationInv, UnboundIsEmpty, NoEngine
      <3> QED BY <1>1, <1>3, <1>4, <2>1, <3>1 DEF MarkerBehind
    <2>2. CASE row.current # s
      BY <1>3, <1>4, <2>2 DEF PublicationInv, MarkerBehind
    <2> QED BY <2>0, <2>1, <2>2
  <1>11. FrozenExists'
    BY <1>5 DEF PublicationInv, FrozenExists, FrozenFrom, FrozenIds, NodeIds, StoreIds
  <1> QED BY <1>6, <1>7, <1>8, <1>9, <1>10, <1>11 DEF PublicationInv

(* A crash forgets one engine and no row.                                   *)
LEMMA CrashStep ==
    ASSUME PublicationInv, NEW e \in Engines, Crash(e)
    PROVE  PublicationInv'
  <1> USE DEF Crash, store
  <1>1. TypeOK'
    <2>1. NoJob \in Job /\ NoEngine \in Engine
      BY DEF Job, NoJob, Phases, Kinds, Frozen, NothingFrozen, NoEngine, Engine
    <2> QED BY <2>1 DEF PublicationInv, TypeOK
  <1>2. LineageOwned'
    BY DEF PublicationInv, LineageOwned, NodeIds, StoreIds, Leaf
  <1>3. UnboundIsEmpty'
    BY DEF PublicationInv, UnboundIsEmpty, TypeOK
  <1>4. OneInCharge'
    BY DEF PublicationInv, OneInCharge, NoEngine, TypeOK
  <1>5. MarkerBehind'
    BY DEF PublicationInv, MarkerBehind, NoEngine, TypeOK, LifecycleRow
  <1>6. FrozenExists'
    <2>1. ASSUME NEW o \in Engines PROVE FrozenFrom(job[o])'
      <3>1. CASE o = e
        BY <3>1 DEF FrozenFrom, NoJob, PublicationInv, TypeOK
      <3>2. CASE o # e
        BY <3>2 DEF FrozenFrom, FrozenIds, FrozenExists, NodeIds, StoreIds, PublicationInv, TypeOK
      <3> QED BY <3>1, <3>2
    <2> QED BY <2>1 DEF FrozenExists
  <1> QED BY <1>1, <1>2, <1>3, <1>4, <1>5, <1>6 DEF PublicationInv

(* A new row has a store id of its own.                                     *)
LEMMA IngestStep ==
    ASSUME PublicationInv, NEW e \in Engines, Ingest(e)
    PROVE  PublicationInv'
  <1> DEFINE s == engine[e].session
             m == [session |-> s, version |-> 0]
  <1>1. s \in Sessions
    BY DEF Ingest, Live, PublicationInv, UnboundIsEmpty, NoEngine, TypeOK, Engine
  <1>2. messages \in Seq(Message) /\ nodes \in Seq(Node) /\ m \in Message
    BY <1>1 DEF PublicationInv, TypeOK, Message
  <1>3. /\ messages' = Append(messages, m)
        /\ UNCHANGED <<nodes, row, engine, job>>
    BY DEF Ingest
  <1> HIDE DEF m
  <1>4. /\ messages' \in Seq(Message)
        /\ Len(messages) \in Nat /\ Len(messages') = Len(messages) + 1
        /\ \A i \in StoreIds : messages'[i] = messages[i]
    BY <1>2, <1>3, AppendProperties DEF StoreIds
  <1>5. transcript' \in [Sessions -> SUBSET Nat]
    <2>1. transcript' = [transcript EXCEPT ![s] = @ \cup {Len(messages) + 1}]
      BY DEF Ingest
    <2>2. transcript \in [Sessions -> SUBSET Nat] /\ Len(messages) + 1 \in Nat
      BY <1>4 DEF PublicationInv, TypeOK
    <2> QED BY <1>1, <2>1, <2>2
  <1>6. TypeOK'
    BY <1>3, <1>4, <1>5 DEF PublicationInv, TypeOK
  <1>7. LineageOwned'
    BY <1>3, <1>4 DEF PublicationInv, LineageOwned, NodeIds, StoreIds, Leaf
  <1>8. UnboundIsEmpty' /\ OneInCharge' /\ MarkerBehind'
    BY <1>3 DEF PublicationInv, UnboundIsEmpty, OneInCharge, MarkerBehind
  <1>9. FrozenExists'
    BY <1>2, <1>3, <1>4, FrozenGrows DEF PublicationInv, FrozenExists
  <1> QED BY <1>6, <1>7, <1>8, <1>9 DEF PublicationInv

(* A rotation only raises the frontier.                                     *)
LEMMA RotateStep ==
    ASSUME PublicationInv, NEW e \in Engines, Rotate(e)
    PROVE  PublicationInv'
  <1> DEFINE s == engine[e].session
  <1>1. PICK first \in RowsOf(s) : row' = AdvanceRow(row, s, first - 1)
    BY DEF Rotate
  <1>2. first - 1 \in Nat
    BY DEF RowsOf, StoreIds
  <1>3. /\ row' \in LifecycleRow
        /\ row'.current = row.current /\ row'.frontier >= row.frontier
    BY <1>1, <1>2, AdvanceRowLemma DEF PublicationInv, TypeOK
  <1>4. UNCHANGED <<messages, nodes, engine, job, transcript>>
    BY DEF Rotate
  <1>5. row.current # NoSession
    BY DEF Rotate, Live, PublicationInv, UnboundIsEmpty, NoEngine
  <1>6. TypeOK'
    BY <1>3, <1>4 DEF PublicationInv, TypeOK
  <1>7. LineageOwned'
    BY <1>4 DEF PublicationInv, LineageOwned, NodeIds, StoreIds, Leaf
  <1>8. UnboundIsEmpty' /\ OneInCharge'
    BY <1>3, <1>4, <1>5 DEF PublicationInv, UnboundIsEmpty, OneInCharge
  <1>9. MarkerBehind'
    BY <1>3, <1>4 DEF PublicationInv, MarkerBehind, TypeOK, LifecycleRow, Engine
  <1>10. FrozenExists'
    BY <1>4 DEF PublicationInv, FrozenExists, FrozenFrom, FrozenIds, NodeIds, StoreIds
  <1> QED BY <1>6, <1>7, <1>8, <1>9, <1>10 DEF PublicationInv

(* A rewritten row keeps its session.                                       *)
LEMMA RewriteRowStep ==
    ASSUME PublicationInv, NEW i \in StoreIds, RewriteRow(i)
    PROVE  PublicationInv'
  <1> DEFINE m == [messages[i] EXCEPT !.version = 1]
  <1>1. messages \in Seq(Message) /\ nodes \in Seq(Node)
    BY DEF PublicationInv, TypeOK
  <1>2. messages[i] \in Message
    BY <1>1, ElementOfSeq DEF StoreIds
  <1>3. m \in Message /\ m.session = messages[i].session
    BY <1>2 DEF Message
  <1>4. messages' = [messages EXCEPT ![i] = m] /\ UNCHANGED <<nodes, row, engine, job, transcript>>
    BY DEF RewriteRow
  <1> HIDE DEF m
  <1>5. /\ messages' \in Seq(Message) /\ Len(messages') = Len(messages)
        /\ \A k \in StoreIds : messages'[k].session = messages[k].session
    BY <1>1, <1>3, <1>4, ExceptSeq DEF StoreIds
  <1>6. TypeOK'
    BY <1>4, <1>5 DEF PublicationInv, TypeOK
  <1>7. LineageOwned'
    BY <1>4, <1>5 DEF PublicationInv, LineageOwned, NodeIds, StoreIds, Leaf
  <1>8. UnboundIsEmpty' /\ OneInCharge' /\ MarkerBehind'
    BY <1>4 DEF PublicationInv, UnboundIsEmpty, OneInCharge, MarkerBehind
  <1>9. FrozenExists'
    BY <1>1, <1>4, <1>5, FrozenGrows DEF PublicationInv, FrozenExists
  <1> QED BY <1>6, <1>7, <1>8, <1>9 DEF PublicationInv

-----------------------------------------------------------------------------
(* The steps of a compaction that do not publish.                           *)
LEMMA BeginCompressStep ==
    ASSUME PublicationInv, NEW e \in Engines, BeginCompress(e)
    PROVE  PublicationInv'
  <1> DEFINE s      == engine[e].session
             W      == transcript[s]
             hidden == HiddenPrefix(e, W)
             debt   == Debt(s, hidden)
             start  == [NoJob EXCEPT !.phase = "ready", !.session = s,
                                     !.working = W, !.hidden = hidden]
  <1>1. s \in Sessions
    <2>1. Live(e)
      BY DEF BeginCompress
    <2> QED BY <2>1 DEF Live, PublicationInv, UnboundIsEmpty, NoEngine, TypeOK, Engine
  <1>2. W \in SUBSET Nat
    BY <1>1 DEF PublicationInv, TypeOK
  <1>3. hidden \subseteq StoreIds /\ StoreIds \subseteq Nat
    BY DEF HiddenPrefix, OutsideTail, RowsOf, StoreIds
  <1> HIDE DEF hidden, W
  <1>4. start \in Job /\ start.kind = "active" /\ start.phase = "ready"
    BY <1>1, <1>2, <1>3 DEF NoJob, Job, Phases, Kinds, Frozen, NothingFrozen
  <1>5. PICK j \in Job : job' = [job EXCEPT ![e] = j] /\ FrozenFrom(j)
    <2>1. CASE job' = [job EXCEPT ![e] = start]
      BY <1>4, <2>1 DEF FrozenFrom
    <2>2. ASSUME NEW k \in debt,
                 job' = [job EXCEPT ![e] = [start EXCEPT !.kind = "store",
                                                         !.chunk = Upto(debt, k)]]
          PROVE  \E j \in Job : job' = [job EXCEPT ![e] = j] /\ FrozenFrom(j)
      <3> DEFINE j == [start EXCEPT !.kind = "store", !.chunk = Upto(debt, k)]
      <3>1. Upto(debt, k) \subseteq StoreIds /\ Upto(debt, k) \subseteq Nat
        BY <1>3 DEF Upto, Debt
      <3>2. j \in Job /\ j.phase = "ready" /\ j.chunk = Upto(debt, k)
        BY <1>4, <3>1 DEF Job, Kinds
      <3>3. FrozenFrom(j)
        BY <3>1, <3>2 DEF FrozenFrom
      <3> QED BY <2>2, <3>2, <3>3
    <2> QED BY <2>1, <2>2 DEF BeginCompress, hidden, W
  <1>6. UNCHANGED <<store, engine, transcript>> /\ transcript \in [Sessions -> SUBSET Nat]
    BY DEF BeginCompress, PublicationInv, TypeOK
  <1> QED BY <1>1, <1>5, <1>6, JobStep

(* A frozen leaf cites rows of the store.                                   *)
LEMMA FreezeLeafStep ==
    ASSUME PublicationInv, NEW e \in Engines, FreezeLeaf(e)
    PROVE  PublicationInv'
  <1> DEFINE j == job[e]
  <1>1. /\ j \in Job /\ engine[e].session # NoSession
        /\ StoreIds \subseteq Nat
    BY DEF FreezeLeaf, PublicationInv, UnboundIsEmpty, NoJob, TypeOK, StoreIds
  <1>2. PICK chunk, ids :
          /\ chunk \in SUBSET Nat /\ ids \subseteq StoreIds
          /\ job' = [job EXCEPT ![e] = [j EXCEPT !.phase = "model", !.chunk = chunk,
                                                 !.snap = Snapshot(e, j.kind, ids)]]
          /\ j.kind = "store" => chunk = ids
    <2>1. CASE j.kind = "store"
      <3>1. j.chunk \subseteq StoreIds
        BY <2>1 DEF PublicationInv, FrozenExists, FrozenFrom
      <3>2. job' = [job EXCEPT ![e] = [j EXCEPT !.phase = "model", !.chunk = j.chunk,
                                                !.snap = Snapshot(e, j.kind, j.chunk)]]
        BY <2>1 DEF FreezeLeaf
      <3> QED BY <1>1, <3>1, <3>2
    <2>2. CASE j.kind # "store"
      <3>1. PICK k : job' = [job EXCEPT ![e] =
                [j EXCEPT !.phase = "model", !.chunk = Upto(j.working, k),
                          !.snap = Snapshot(e, j.kind, Mapped(e, Upto(j.working, k)))]]
        BY <2>2 DEF FreezeLeaf
      <3>2. /\ Upto(j.working, k) \in SUBSET Nat
            /\ Mapped(e, Upto(j.working, k)) \subseteq StoreIds
        BY <1>1 DEF Upto, Mapped, RowsOf, Job
      <3> QED BY <2>2, <3>1, <3>2
    <2> QED BY <2>1, <2>2
  <1> DEFINE snap == Snapshot(e, j.kind, ids)
             k    == [j EXCEPT !.phase = "model", !.chunk = chunk, !.snap = snap]
  <1>3. j.kind # "nodes" /\ j.kind \in Kinds
    BY <1>1 DEF FreezeLeaf, PublicationInv, FrozenExists, FrozenFrom, Job
  <1>4. /\ snap \in Frozen
        /\ \A i : i.snap = snap => FrozenIds(i) = ids
    BY <1>2, <1>3, SnapshotLemma DEF PublicationInv
  <1> HIDE DEF snap
  <1>5. k \in Job /\ k.snap = snap /\ k.kind = j.kind /\ k.chunk = chunk
        /\ k.phase = "model"
    BY <1>1, <1>2, <1>4 DEF Job, Phases
  <1>6. FrozenFrom(k)
    <2> HIDE DEF k
    <2> QED BY <1>2, <1>3, <1>4, <1>5 DEF FrozenFrom
  <1>7. job' = [job EXCEPT ![e] = k]
    BY <1>2 DEF snap
  <1>8. UNCHANGED <<store, engine, transcript>> /\ transcript \in [Sessions -> SUBSET Nat]
    BY DEF FreezeLeaf, PublicationInv, TypeOK
  <1> QED BY <1>1, <1>5, <1>6, <1>7, <1>8, JobStep

(* A chosen group is of one depth.                                          *)
LEMMA ChooseNodesStep ==
    ASSUME PublicationInv, NEW e \in Engines, ChooseNodes(e)
    PROVE  PublicationInv'
  <1> DEFINE j == job[e]
             free(d) == Uncondensed(engine[e].session, d)
             group(d) == {n \in free(d) : Cardinality(Upto(free(d), n)) <= Fanin}
             k(d) == [j EXCEPT !.phase = "chosen", !.kind = "nodes", !.chunk = group(d)]
  <1>1. j \in Job /\ engine[e].session # NoSession
    BY DEF ChooseNodes, PublicationInv, UnboundIsEmpty, NoJob, TypeOK
  <1>2. PICK d \in Nat : job' = [job EXCEPT ![e] = k(d)]
    <2>1. PICK d \in 0..(MaxDepth - 1) : job' = [job EXCEPT ![e] = k(d)]
      BY Zenon DEF ChooseNodes
    <2>2. d \in Nat
      OBVIOUS
    <2> HIDE DEF k
    <2> QED BY <2>1, <2>2
  <1>3. /\ group(d) \subseteq NodeIds /\ NodeIds \subseteq Nat
        /\ \A n \in group(d) : nodes[n].depth = d
    BY DEF Uncondensed, NodeIds
  <1> HIDE DEF group
  <1>4. k(d) \in Job /\ k(d).kind = "nodes" /\ k(d).phase = "chosen" /\ k(d).chunk = group(d)
    BY <1>1, <1>3 DEF Job, Phases, Kinds
  <1>5. FrozenFrom(k(d))
    <2> HIDE DEF k
    <2> QED BY <1>3, <1>4 DEF FrozenFrom
  <1>6. UNCHANGED <<store, engine, transcript>> /\ transcript \in [Sessions -> SUBSET Nat]
    BY DEF ChooseNodes, PublicationInv, TypeOK
  <1> HIDE DEF k
  <1> QED BY <1>1, <1>2, <1>4, <1>5, <1>6, JobStep

(* Freezing a group keeps it as it was chosen.                              *)
LEMMA FreezeNodesStep ==
    ASSUME PublicationInv, NEW e \in Engines, FreezeNodes(e)
    PROVE  PublicationInv'
  <1> DEFINE j == job[e]
             snap == Snapshot(e, "nodes", j.chunk)
             k == [j EXCEPT !.phase = "model", !.snap = snap]
  <1>1. /\ j \in Job /\ engine[e].session # NoSession
        /\ job' = [job EXCEPT ![e] = k]
    BY DEF FreezeNodes, PublicationInv, UnboundIsEmpty, NoJob, TypeOK
  <1>2. /\ j.kind = "nodes" /\ j.chunk \subseteq NodeIds
        /\ \A m, n \in j.chunk : nodes[m].depth = nodes[n].depth
    BY DEF FreezeNodes, PublicationInv, FrozenExists, FrozenFrom
  <1>3. /\ snap \in Frozen
        /\ \A i : i.snap = snap => FrozenIds(i) = j.chunk
    BY <1>2, SnapshotLemma DEF PublicationInv, Kinds
  <1> HIDE DEF snap
  <1>4. k \in Job /\ k.snap = snap /\ k.kind = "nodes" /\ k.phase = "model"
        /\ k.chunk = j.chunk
    BY <1>1, <1>2, <1>3 DEF Job, Phases, Kinds
  <1>5. FrozenFrom(k)
    BY <1>2, <1>3, <1>4 DEF FrozenFrom
  <1>6. UNCHANGED <<store, engine, transcript>> /\ transcript \in [Sessions -> SUBSET Nat]
    BY DEF FreezeNodes, PublicationInv, TypeOK
  <1> HIDE DEF k
  <1> QED BY <1>1, <1>4, <1>5, <1>6, JobStep

(* A model call that fails, a rejected publication and the end of compress  *)
(* leave no snapshot behind.                                                *)
LEMMA DropJobStep ==
    ASSUME PublicationInv, NEW e \in Engines,
           FailModel(e) \/ RejectPublication(e) \/ ReturnContext(e)
    PROVE  PublicationInv'
  <1> DEFINE k == [job[e] EXCEPT !.phase = "assemble", !.kind = "active",
                                 !.chunk = {}, !.snap = NothingFrozen]
  <1>1. NoJob \in Job /\ FrozenFrom(NoJob)
    BY DEF Job, NoJob, Phases, Kinds, Frozen, NothingFrozen, FrozenFrom
  <1>2. k \in Job /\ FrozenFrom(k)
    <2>1. job[e] \in Job
      BY DEF PublicationInv, TypeOK
    <2>2. k \in Job /\ k.kind = "active" /\ k.phase = "assemble"
      BY <2>1 DEF Job, Phases, Kinds, Frozen, NothingFrozen
    <2> QED BY <2>2 DEF FrozenFrom
  <1>3. UNCHANGED <<store, engine>>
    BY DEF FailModel, RejectPublication, ReturnContext
  <1>4. transcript' \in [Sessions -> SUBSET Nat]
    BY DEF FailModel, RejectPublication, ReturnContext, PublicationInv, TypeOK
  <1>5. \/ job' = [job EXCEPT ![e] = NoJob]
        \/ /\ job' = [job EXCEPT ![e] = k]
           /\ engine[e].session # NoSession
    <2>1. job[e].phase = "model" => engine[e].session # NoSession
      BY DEF PublicationInv, UnboundIsEmpty, NoJob
    <2> QED BY <2>1 DEF FailModel, RejectPublication, ReturnContext, Raise, StopSweep
  <1> HIDE DEF k
  <1> QED BY <1>1, <1>2, <1>3, <1>4, <1>5, JobStep

-----------------------------------------------------------------------------
(* The two publications append one node that the session of the engine      *)
(* owns.                                                                    *)
LEMMA AppendNode ==
    ASSUME PublicationInv, NEW N \in Node, nodes' = Append(nodes, N),
           messages' = messages,
           \A i \in N.sources :
               IF N.depth = 0
               THEN i \in StoreIds /\ messages[i].session = N.session
               ELSE i \in NodeIds /\ nodes[i].session = N.session
                       /\ N.depth = nodes[i].depth + 1
    PROVE  /\ nodes' \in Seq(Node) /\ LineageOwned'
           /\ \A o \in Engines : job'[o] = job[o] => FrozenFrom(job[o])'
  <1>1. messages \in Seq(Message) /\ nodes \in Seq(Node)
    BY DEF PublicationInv, TypeOK
  <1>2. /\ nodes' \in Seq(Node) /\ Len(nodes) \in Nat /\ Len(nodes') = Len(nodes) + 1
        /\ \A n \in NodeIds : nodes'[n] = nodes[n]
        /\ nodes'[Len(nodes) + 1] = N
    BY <1>1, AppendProperties DEF NodeIds
  <1>3. LineageOwned'
    <2> SUFFICES ASSUME NEW n \in NodeIds', NEW i \in nodes'[n].sources
                 PROVE  IF nodes'[n].depth = 0
                        THEN i \in StoreIds /\ messages[i].session = nodes'[n].session
                        ELSE /\ i \in 1..(n - 1)
                             /\ nodes'[i].session = nodes'[n].session
                             /\ nodes'[n].depth = nodes'[i].depth + 1
      BY DEF LineageOwned, Leaf, StoreIds
    <2>1. CASE n \in NodeIds
      <3>1. nodes'[n] = nodes[n]
        BY <1>2, <2>1
      <3>2. IF nodes[n].depth = 0
            THEN i \in StoreIds /\ messages[i].session = nodes[n].session
            ELSE /\ i \in 1..(n - 1)
                 /\ nodes[i].session = nodes[n].session
                 /\ nodes[n].depth = nodes[i].depth + 1
        BY <2>1, <3>1 DEF PublicationInv, LineageOwned, Leaf
      <3>3. i \in 1..(n - 1) => nodes'[i] = nodes[i]
        BY <1>2, <2>1 DEF NodeIds
      <3> QED BY <3>1, <3>2, <3>3
    <2>2. CASE n = Len(nodes) + 1
      BY <1>2, <2>2 DEF NodeIds
    <2>3. n \in NodeIds \/ n = Len(nodes) + 1
      BY <1>2 DEF NodeIds
    <2> QED BY <2>1, <2>2, <2>3
  <1>4. ASSUME NEW o \in Engines, job'[o] = job[o] PROVE FrozenFrom(job[o])'
    <2>1. /\ Len(messages) \in Nat /\ Len(messages)' \in Nat
          /\ Len(messages) <= Len(messages)'
          /\ Len(nodes)' \in Nat /\ Len(nodes) <= Len(nodes)'
      BY <1>1, <1>2
    <2>2. FrozenFrom(job[o])
      BY DEF PublicationInv, FrozenExists
    <2> QED BY <1>2, <1>4, <2>1, <2>2, FrozenGrows
  <1> QED BY <1>2, <1>3, <1>4

(* A condensation is one level above its sources.                           *)
LEMMA PublishNodesStep ==
    ASSUME PublicationInv, NEW e \in Engines, PublishNodes(e)
    PROVE  PublicationInv'
  <1> DEFINE j == job[e]
             s == engine[e].session
  <1>1. /\ j.phase = "model" /\ j.kind = "nodes" /\ PublicationValid(e)
        /\ j \in Job /\ FrozenFrom(j)
    BY DEF PublishNodes, PublicationInv, FrozenExists, TypeOK
  <1>2. /\ s \in Sessions /\ j.chunk = FrozenIds(j)
        /\ \A i \in j.chunk : i \in NodeIds /\ nodes[i].session = s
    BY <1>1, ValidLemma DEF FrozenFrom
  <1>3. PICK n \in j.chunk : nodes' = Append(nodes,
            [session |-> s, depth |-> nodes[n].depth + 1,
             sources |-> j.chunk, text |-> j.chunk])
    BY DEF PublishNodes
  <1> DEFINE N == [session |-> s, depth |-> nodes[n].depth + 1,
                   sources |-> j.chunk, text |-> j.chunk]
             k == [j EXCEPT !.phase = "condense", !.kind = "active",
                            !.chunk = {}, !.snap = NothingFrozen]
  <1>4. /\ job' = [job EXCEPT ![e] = k]
        /\ UNCHANGED <<messages, row, engine, transcript>>
    BY DEF PublishNodes
  <1>5. nodes[n].depth \in Nat
    <2>1. nodes \in Seq(Node) /\ n \in 1..Len(nodes)
      BY <1>2, <1>3 DEF PublicationInv, TypeOK, NodeIds
    <2>2. nodes[n] \in Node
      BY <2>1, ElementOfSeq
    <2> QED BY <2>2 DEF Node
  <1>6. N \in Node
    BY <1>1, <1>2, <1>5 DEF Node, Job
  <1>7. \A i \in N.sources : /\ i \in NodeIds /\ nodes[i].session = N.session
                             /\ N.depth = nodes[i].depth + 1 /\ N.depth # 0
    BY <1>1, <1>2, <1>5 DEF FrozenFrom
  <1>8. k \in Job /\ k.kind = "active" /\ k.phase = "condense"
    BY <1>1 DEF Job, Phases, Kinds, Frozen, NothingFrozen
  <1> HIDE DEF N, k
  <1>9. /\ nodes' \in Seq(Node) /\ LineageOwned'
        /\ \A o \in Engines : job'[o] = job[o] => FrozenFrom(job[o])'
    BY <1>3, <1>4, <1>6, <1>7, AppendNode DEF N
  <1>10. TypeOK'
    BY <1>4, <1>8, <1>9 DEF PublicationInv, TypeOK
  <1>11. UnboundIsEmpty' /\ OneInCharge' /\ MarkerBehind'
    BY <1>2, <1>4 DEF PublicationInv, UnboundIsEmpty, OneInCharge, MarkerBehind, TypeOK
  <1>12. FrozenExists'
    <2>1. FrozenFrom(job[e])'
      BY <1>4, <1>8 DEF FrozenFrom, PublicationInv, TypeOK
    <2>2. \A o \in Engines \ {e} : job'[o] = job[o]
      BY <1>4 DEF PublicationInv, TypeOK
    <2> QED BY <1>9, <2>1, <2>2 DEF FrozenExists
  <1> QED BY <1>9, <1>10, <1>11, <1>12 DEF PublicationInv

(* A leaf moves the marker no further than the frontier.                    *)
LEMMA PublishLeafStep ==
    ASSUME PublicationInv, NEW e \in Engines, PublishLeaf(e)
    PROVE  PublicationInv'
  <1> DEFINE j == job[e]
             s == engine[e].session
             moves == j.kind = "store" \/ j.hidden = {}
  <1>1. /\ j.phase = "model" /\ j.kind # "nodes" /\ PublicationValid(e) /\ j \in Job
        /\ UNCHANGED <<messages, transcript>>
    BY DEF PublishLeaf, PublicationInv, TypeOK
  <1>2. /\ s \in Sessions /\ row.current = s
        /\ \A i \in FrozenIds(j) : i \in StoreIds /\ messages[i].session = s
    BY <1>1, ValidLemma
  <1>3. PICK i \in j.chunk :
          LET text    == Upto(j.chunk, i)
              sources == text \cap FrozenIds(j)
              reached == Newest(sources)
              drained == ~\E m \in j.hidden : m > reached
          IN  /\ nodes' = Append(nodes, [session |-> s, depth |-> 0,
                                         sources |-> sources, text |-> text])
              /\ row' = IF moves THEN AdvanceRow(row, s, reached) ELSE row
              /\ engine' = IF moves THEN [engine EXCEPT ![e].marker = reached] ELSE engine
              /\ job' = [job EXCEPT ![e] =
                    [j EXCEPT !.phase = IF j.kind = "store" /\ ~drained
                                        THEN "condense" ELSE "ready",
                              !.kind = "active", !.compacted = TRUE,
                              !.hidden = IF j.kind = "store" THEN {} ELSE @,
                              !.working = @ \ text, !.taken = @ \cup text,
                              !.chunk = {}, !.snap = NothingFrozen]]
    BY Zenon DEF PublishLeaf
  <1> DEFINE text    == Upto(j.chunk, i)
             sources == text \cap FrozenIds(j)
             reached == Newest(sources)
             N       == [session |-> s, depth |-> 0, sources |-> sources, text |-> text]
             phase   == IF j.kind = "store" /\ (\E m \in j.hidden : m > reached)
                        THEN "condense" ELSE "ready"
             k       == [j EXCEPT !.phase = phase,
                                  !.kind = "active", !.compacted = TRUE,
                                  !.hidden = IF j.kind = "store" THEN {} ELSE @,
                                  !.working = @ \ text, !.taken = @ \cup text,
                                  !.chunk = {}, !.snap = NothingFrozen]
  <1>4. /\ nodes' = Append(nodes, N) /\ job' = [job EXCEPT ![e] = k]
        /\ row' = IF moves THEN AdvanceRow(row, s, reached) ELSE row
        /\ engine' = IF moves THEN [engine EXCEPT ![e].marker = reached] ELSE engine
    BY <1>3
  <1>5. text \in SUBSET Nat /\ sources \in SUBSET Nat
    BY <1>1 DEF Upto, Job
  <1>6. reached \in Nat
    BY <1>5, NewestLemma
  <1>7. N \in Node /\ N.depth = 0 /\ N.session = s /\ N.sources \subseteq FrozenIds(j)
    BY <1>2, <1>5 DEF Node
  <1>8. k \in Job /\ k.kind = "active" /\ k.phase \in {"ready", "condense"}
    <2>1. phase \in {"ready", "condense"}
      OBVIOUS
    <2> HIDE DEF phase, text
    <2> QED BY ZenonT(30), <1>1, <1>5, <2>1 DEF Job, Phases, Kinds, Frozen, NothingFrozen
  <1> HIDE DEF text, sources, reached, N, phase, k
  <1>9. /\ nodes' \in Seq(Node) /\ LineageOwned'
        /\ \A o \in Engines : job'[o] = job[o] => FrozenFrom(job[o])'
    BY <1>1, <1>2, <1>4, <1>7, AppendNode
  <1>10. /\ row' \in LifecycleRow
         /\ row'.current = row.current /\ row'.frontier >= row.frontier
         /\ moves => row'.frontier >= reached
    <2>1. row \in LifecycleRow
      BY DEF PublicationInv, TypeOK
    <2>2. CASE moves
      BY <1>2, <1>4, <1>6, <2>1, <2>2, AdvanceRowLemma
    <2>3. CASE ~moves
      BY <1>4, <2>1, <2>3 DEF LifecycleRow
    <2> QED BY <2>2, <2>3
  <1>11. /\ engine' \in [Engines -> Engine]
         /\ engine'[e].session = s /\ engine'[e].host = engine[e].host
         /\ engine'[e].marker = IF moves THEN reached ELSE engine[e].marker
         /\ \A o \in Engines \ {e} : engine'[o] = engine[o]
    <2>1. engine \in [Engines -> Engine]
      BY DEF PublicationInv, TypeOK
    <2> HIDE DEF moves
    <2> QED BY <1>4, <1>6, <2>1 DEF Engine
  <1>12. TypeOK'
    BY <1>1, <1>4, <1>8, <1>9, <1>10, <1>11 DEF PublicationInv, TypeOK
  <1>13. UnboundIsEmpty'
    BY <1>2, <1>4, <1>10, <1>11 DEF PublicationInv, UnboundIsEmpty, TypeOK
  <1>14. OneInCharge'
    BY <1>11 DEF PublicationInv, OneInCharge
  <1>15. MarkerBehind'
    <2>1. \A o \in Engines : engine[o].marker \in Nat /\ row.frontier \in Nat
                             /\ row'.frontier \in Nat
      BY <1>10 DEF PublicationInv, TypeOK, Engine, LifecycleRow
    <2> HIDE DEF moves
    <2> QED BY <1>6, <1>10, <1>11, <2>1 DEF PublicationInv, MarkerBehind
  <1>16. FrozenExists'
    <2>1. FrozenFrom(job[e])'
      BY <1>4, <1>8 DEF FrozenFrom, PublicationInv, TypeOK
    <2>2. \A o \in Engines \ {e} : job'[o] = job[o]
      BY <1>4 DEF PublicationInv, TypeOK
    <2> QED BY <1>9, <2>1, <2>2 DEF FrozenExists
  <1> QED BY <1>9, <1>12, <1>13, <1>14, <1>15, <1>16 DEF PublicationInv

-----------------------------------------------------------------------------
(* Every step keeps the invariant.                                          *)
LEMMA StepInv == PublicationInv /\ [Next]_vars => PublicationInv'
  <1> SUFFICES ASSUME PublicationInv, [Next]_vars PROVE PublicationInv'
    OBVIOUS
  <1>1. ASSUME NEW e \in Engines, NEW s \in Sessions, StartSession(e, s)
        PROVE  PublicationInv'
    BY <1>1, StartSessionStep
  <1>2. ASSUME NEW e \in Engines,
               ResumeInPlace(e) \/ EndSession(e) \/ Ingest(e) \/ Rotate(e) \/ Crash(e)
        PROVE  PublicationInv'
    BY <1>2, ResumeInPlaceStep, EndSessionStep, IngestStep, RotateStep, CrashStep
  <1>3. ASSUME NEW e \in Engines, Compaction(e) PROVE PublicationInv'
    BY <1>3, BeginCompressStep, FreezeLeafStep, PublishLeafStep, ChooseNodesStep, FreezeNodesStep,
       PublishNodesStep, DropJobStep DEF Compaction
  <1>4. ASSUME NEW i \in StoreIds, RewriteRow(i) PROVE PublicationInv'
    BY <1>4, RewriteRowStep
  <1>5. CASE UNCHANGED vars
    BY <1>5 DEF vars, PublicationInv, TypeOK, LineageOwned, UnboundIsEmpty, OneInCharge,
                MarkerBehind, FrozenExists, FrozenFrom, FrozenIds, NodeIds, StoreIds, Leaf
  <1> QED BY <1>1, <1>2, <1>3, <1>4, <1>5 DEF Next, Step

(* The inductive invariant holds in every reachable state.                  *)
THEOREM Invariance == Spec => []PublicationInv
BY InitInv, StepInv, PTL DEF Spec

(* No summary ever cites a row or a node of another session, whatever       *)
(* engines rebind, crash or race between the snapshot and the commit.       *)
THEOREM LineageTheorem == Spec => []LineageOwned
  <1>1. PublicationInv => LineageOwned
    BY DEF PublicationInv
  <1> QED BY <1>1, Invariance, PTL

(* No engine that runs the session owning the conversation believes more    *)
(* rows to be compacted than the database records.                          *)
THEOREM CursorTheorem == Spec => []CursorNotAhead
  <1>1. PublicationInv => CursorNotAhead
    BY DEF PublicationInv, MarkerBehind, CursorNotAhead, Live
  <1> QED BY <1>1, Invariance, PTL

-----------------------------------------------------------------------------
(* What a step may never do.                                                *)
LEMMA FrontierStep ==
    ASSUME PublicationInv, Next
    PROVE  row'.current = row.current /\ row'.bound = row.bound
               => row'.frontier >= row.frontier
  <1> DEFINE Goal == row'.current = row.current /\ row'.bound = row.bound
                        => row'.frontier >= row.frontier
  <1>1. row \in LifecycleRow /\ row.frontier \in Nat /\ row.bound \in Nat
    BY DEF PublicationInv, TypeOK, LifecycleRow
  <1>2. ASSUME NEW e \in Engines, NEW s \in Sessions, StartSession(e, s) PROVE Goal
    <2>1. row' = BindRow(row, s)
      BY <1>2 DEF StartSession
    <2> QED BY <1>1, <2>1, BindRowLemma
  <1>3. ASSUME NEW e \in Engines, ResumeInPlace(e) PROVE Goal
    <2>1. /\ engine[e].session \in Sessions /\ CanResume(row, engine[e].session)
          /\ engine[e].marker \in Nat
          /\ row' = ResumeRow(row, engine[e].session, engine[e].marker)
      BY <1>3 DEF ResumeInPlace, PublicationInv, TypeOK, Engine
    <2>2. row' = row \/ row'.current # row.current
      BY <1>1, <2>1, ResumeRowLemma, NoSessionAssumption
    <2> QED BY <1>1, <2>2
  <1>4. ASSUME NEW e \in Engines, EndSession(e) PROVE Goal
    <2> DEFINE s == engine[e].session
               hasData == RowsOf(s) # {} \/ \E n \in NodeIds : nodes[n].session = s
    <2>1. s \in Sessions /\ engine[e].marker \in Nat
      BY <1>4 DEF EndSession, Live, PublicationInv, UnboundIsEmpty, NoEngine, TypeOK, Engine
    <2>2. /\ row' = row \/ row' = FinalizeRow(row, s, engine[e].marker, hasData)
          /\ hasData \in BOOLEAN
      BY <1>4 DEF EndSession
    <2> HIDE DEF hasData
    <2> QED BY <1>1, <2>1, <2>2, FinalizeRowLemma, NoSessionAssumption
  <1>5. ASSUME NEW e \in Engines, Rotate(e) PROVE Goal
    <2>1. PICK first \in RowsOf(engine[e].session) :
              row' = AdvanceRow(row, engine[e].session, first - 1)
      BY <1>5 DEF Rotate
    <2>2. first - 1 \in Nat
      BY DEF RowsOf, StoreIds
    <2> QED BY <1>1, <2>1, <2>2, AdvanceRowLemma
  <1>6. ASSUME NEW e \in Engines, PublishLeaf(e) PROVE Goal
    <2>1. PICK S \in SUBSET Nat :
              row' = row \/ row' = AdvanceRow(row, engine[e].session, Newest(S))
      <3>1. PICK k \in job[e].chunk :
              row' = row \/ row' = AdvanceRow(row, engine[e].session,
                                  Newest(Upto(job[e].chunk, k) \cap FrozenIds(job[e])))
        BY <1>6 DEF PublishLeaf
      <3>2. Upto(job[e].chunk, k) \cap FrozenIds(job[e]) \in SUBSET Nat
        BY DEF Upto, PublicationInv, TypeOK, Job
      <3> QED BY <3>1, <3>2
    <2> QED BY <1>1, <2>1, NewestLemma, AdvanceRowLemma
  <1>7. ASSUME UNCHANGED row PROVE Goal
    BY <1>1, <1>7
  <1>8. ASSUME NEW e \in Engines, Ingest(e) \/ Crash(e) PROVE UNCHANGED row
    BY <1>8 DEF Ingest, Crash, store
  <1>9. ASSUME NEW e \in Engines, Compaction(e), ~PublishLeaf(e) PROVE UNCHANGED row
    BY <1>9 DEF Compaction, BeginCompress, FreezeLeaf, ChooseNodes, FreezeNodes, PublishNodes, FailModel,
                RejectPublication, ReturnContext, store
  <1>10. ASSUME NEW i \in StoreIds, RewriteRow(i) PROVE UNCHANGED row
    BY <1>10 DEF RewriteRow
  <1> HIDE DEF Goal
  <1>11. ASSUME NEW e \in Engines, Compaction(e) PROVE Goal
    BY <1>6, <1>7, <1>9, <1>11
  <1>12. Goal
    BY <1>2, <1>3, <1>4, <1>5, <1>7, <1>8, <1>10, <1>11 DEF Next, Step
  <1> QED BY <1>12 DEF Goal

(* As long as one bind lasts, no engine and no operator moves the frontier  *)
(* back.                                                                    *)
THEOREM FrontierTheorem == Spec => FrontierMonotone
  <1>1. PublicationInv /\ [Next]_vars
          => [row'.current = row.current /\ row'.bound = row.bound
                 => row'.frontier >= row.frontier]_row
    BY FrontierStep DEF vars
  <1> QED BY <1>1, Invariance, PTL DEF Spec, FrontierMonotone

(* What publish_node has checked when it commits: every frozen input is     *)
(* still what it was.                                                       *)
LEMMA FrozenInputs ==
    ASSUME PublicationInv, NEW e \in Engines, job[e].phase = "model", PublicationValid(e)
    PROVE  /\ \A r \in job[e].snap.rows :
                 r[2] = IF job[e].kind = "nodes" THEN nodes[r[1]] ELSE messages[r[1]]
           /\ job[e].snap.binding = <<row.current, row.frontier, row.bound>>
           /\ \A r \in job[e].snap.rows : \A n \in NodeIds :
                 ( /\ Leaf(n) = (job[e].kind # "nodes")
                   /\ nodes[n].session = row.current
                   /\ r[1] \in nodes[n].sources )
                 => <<r[1], n>> \in job[e].snap.parents
  <1> DEFINE j == job[e]
             ids == FrozenIds(j)
             source(i) == IF j.kind = "nodes" THEN nodes[i] ELSE messages[i]
  <1>1. /\ j.snap = Snapshot(e, j.kind, ids)
        /\ row.current = engine[e].session
        /\ \A r \in j.snap.rows : r[2].session = engine[e].session
    BY DEF PublicationValid
  <1>2. j.snap.rows = {<<i, source(i)>> : i \in ids}
    BY <1>1 DEF Snapshot
  <1>3. \A r \in j.snap.rows : r[1] \in ids /\ r[2] = source(r[1])
    <2> HIDE DEF source
    <2> QED BY <1>2
  <1>4. j.snap.binding = <<row.current, row.frontier, row.bound>>
    BY <1>1 DEF Snapshot
  <1>5. ASSUME NEW r \in j.snap.rows, NEW n \in NodeIds,
               Leaf(n) = (j.kind # "nodes"), nodes[n].session = row.current,
               r[1] \in nodes[n].sources
        PROVE  <<r[1], n>> \in j.snap.parents
    <2>1. source(r[1]).session = nodes[n].session
      <3>1. r[2].session = engine[e].session /\ r[2] = source(r[1])
        BY <1>1, <1>3
      <3> HIDE DEF source
      <3> QED BY <1>1, <1>5, <3>1
    <2>2. <<r[1], n>> \in {p \in ids \X NodeIds :
                              /\ Leaf(p[2]) = (j.kind # "nodes")
                              /\ p[1] \in nodes[p[2]].sources
                              /\ \E k \in ids : source(k).session = nodes[p[2]].session}
      <3> HIDE DEF source
      <3> QED BY <1>3, <1>5, <2>1
    <2>3. j.snap.parents = {p \in ids \X NodeIds :
                              /\ Leaf(p[2]) = (j.kind # "nodes")
                              /\ p[1] \in nodes[p[2]].sources
                              /\ \E k \in ids : source(k).session = nodes[p[2]].session}
      <3>1. Snapshot(e, j.kind, ids).parents =
                 {p \in ids \X NodeIds :
                    /\ Leaf(p[2]) = (j.kind # "nodes")
                    /\ p[1] \in nodes[p[2]].sources
                    /\ \E k \in ids : source(k).session = nodes[p[2]].session}
        BY SMT DEF Snapshot
      <3> QED BY <1>1, <3>1
    <2> QED BY <2>2, <2>3
  <1> QED BY <1>3, <1>4, <1>5

(* Only the engine itself replaces its running job together with a new      *)
(* node.                                                                    *)
LEMMA WhoPublishes ==
    ASSUME PublicationInv, Next, NEW e \in Engines, nodes' # nodes, job'[e] # job[e]
    PROVE  PublishLeaf(e) \/ PublishNodes(e)
  <1>1. PICK o \in Engines : PublishLeaf(o) \/ PublishNodes(o)
    BY DEF Next, Step, StartSession, ResumeInPlace, EndSession, Ingest, Rotate, Crash,
           Compaction, BeginCompress, FreezeLeaf, ChooseNodes, FreezeNodes, FailModel,
           RejectPublication, ReturnContext, RewriteRow, store
  <1>2. \A d \in Engines \ {o} : job'[d] = job[d]
    BY <1>1 DEF PublishLeaf, PublishNodes, PublicationInv, TypeOK
  <1> QED BY <1>1, <1>2

(* A summary is never committed over inputs that changed during the model   *)
(* call.                                                                    *)
THEOREM FrozenInputsTheorem == Spec => PublishedFromFrozenInputs
  <1> DEFINE Kept(e) ==
        /\ \A r \in job[e].snap.rows :
              r[2] = IF job[e].kind = "nodes" THEN nodes[r[1]] ELSE messages[r[1]]
        /\ job[e].snap.binding = <<row.current, row.frontier, row.bound>>
        /\ \A r \in job[e].snap.rows : \A n \in NodeIds :
              ( /\ Leaf(n) = (job[e].kind # "nodes")
                /\ nodes[n].session = row.current
                /\ r[1] \in nodes[n].sources )
              => <<r[1], n>> \in job[e].snap.parents
  <1>1. ASSUME PublicationInv, Next, NEW e \in Engines, job[e].phase = "model",
               nodes' # nodes, job'[e] # job[e]
        PROVE  Kept(e)
    <2>1. PublicationValid(e)
      BY <1>1, WhoPublishes DEF PublishLeaf, PublishNodes
    <2> QED BY <1>1, <2>1, FrozenInputs
  <1>2. PublicationInv /\ [Next]_vars
          => [\A e \in Engines :
                 job[e].phase = "model" /\ nodes' # nodes /\ job'[e] # job[e]
                    => Kept(e)]_vars
    <2> HIDE DEF Kept
    <2> QED BY <1>1
  <1> QED BY <1>2, Invariance, PTL DEF Spec, PublishedFromFrozenInputs
-----------------------------------------------------------------------------
(***************************************************************************)
(* What a session keeps to itself while it is compressed                   *)
(***************************************************************************)
(* When the host starts no session under a compress, the engine keeps the  *)
(* session it began with, so no other engine compresses that session.      *)
OwnSession(e) ==
    Compressing(e) => /\ job[e].session = engine[e].session
                      /\ engine[e].host # "replaced"

Condensing(e) == job[e].phase = "chosen" \/ (job[e].phase = "model" /\ job[e].kind = "nodes")

(* A chosen group is of the session, and nobody has condensed it.          *)
GroupFree(e) ==
    Condensing(e) =>
        \A n \in job[e].chunk :
            /\ nodes[n].session = engine[e].session
            /\ \A p \in NodeIds : ~Leaf(p) => n \notin nodes[p].sources

(* What a store pass has loaded is in no leaf of the session.              *)
DebtFree(e) ==
    Compressing(e) /\ job[e].kind = "store" =>
        \A n \in NodeIds : Leaf(n) /\ nodes[n].session = engine[e].session
            => nodes[n].sources \cap job[e].chunk = {}

ApartInv ==
    /\ CondensedOnce
    /\ \A e \in Engines : OwnSession(e) /\ GroupFree(e) /\ DebtFree(e)

LEMMA Alone ==
    ASSUME PublicationInv, ApartInv, NEW d \in Engines, NEW e \in Engines, d # e,
           Compressing(d), Compressing(e)
    PROVE  engine[d].session # engine[e].session
<1>1. engine[d].session # NoSession
  BY DEF PublicationInv, UnboundIsEmpty, Compressing, NoJob
<1>2. engine[d].host # "replaced" /\ engine[e].host # "replaced"
  BY DEF ApartInv, OwnSession
<1> QED  BY <1>1, <1>2 DEF PublicationInv, OneInCharge

(* A step that adds no node: each compaction is as it was, or has lost what *)
(* it had chosen, or has chosen well.                                       *)
LEMMA ApartKept ==
    ASSUME ApartInv, nodes' = nodes,
           \A e \in Engines :
              \/ OwnSession(e)' /\ GroupFree(e)' /\ DebtFree(e)'
              \/ /\ job'[e] = job[e] /\ engine'[e].session = engine[e].session
                 /\ Compressing(e) => engine'[e].host # "replaced"
    PROVE  ApartInv'
<1>1. CondensedOnce'  BY DEF ApartInv, CondensedOnce, NodeIds, Leaf
<1>2. ASSUME NEW e \in Engines, job'[e] = job[e], engine'[e].session = engine[e].session,
             Compressing(e) => engine'[e].host # "replaced"
      PROVE  OwnSession(e)' /\ GroupFree(e)' /\ DebtFree(e)'
  BY <1>2 DEF ApartInv, OwnSession, GroupFree, DebtFree, Compressing, Condensing, NodeIds, Leaf
<1> QED  BY <1>1, <1>2 DEF ApartInv

(* A step of one compaction that adds no node.                             *)
LEMMA ApartJob ==
    ASSUME PublicationInv, ApartInv, NEW e \in Engines, UNCHANGED <<nodes, engine>>,
           \A o \in Engines \ {e} : job'[o] = job[o],
           OwnSession(e)' /\ GroupFree(e)' /\ DebtFree(e)'
    PROVE  ApartInv'
<1>1. \A o \in Engines \ {e} : Compressing(o) => engine'[o].host # "replaced"
  BY DEF ApartInv, OwnSession
<1> QED  BY <1>1, ApartKept

LEMMA IdleApart ==
    ASSUME NEW e \in Engines, job'[e] = NoJob
    PROVE  OwnSession(e)' /\ GroupFree(e)' /\ DebtFree(e)'
BY DEF NoJob, OwnSession, GroupFree, DebtFree, Compressing, Condensing

(* A compaction that goes on in its session with nothing chosen.           *)
LEMMA GoesOnApart ==
    ASSUME ApartInv, NEW e \in Engines, Compressing(e),
           job'[e].session = job[e].session, engine'[e].session = engine[e].session,
           engine'[e].host = engine[e].host,
           job'[e].kind = "active", job'[e].phase # "chosen"
    PROVE  OwnSession(e)' /\ GroupFree(e)' /\ DebtFree(e)'
BY DEF ApartInv, OwnSession, GroupFree, DebtFree, Compressing, Condensing

LEMMA StartApart ==
    ASSUME PublicationInv, ApartInv, ~RestartDuringCompress,
           NEW e \in Engines, NEW s \in Sessions, StartSession(e, s)
    PROVE  ApartInv'
<1>1. UNCHANGED <<nodes, job>> /\ \A o \in Engines : Compressing(o) => o # e /\ job[o].session # s
  BY DEF StartSession
<1>2. ASSUME NEW o \in Engines \ {e}
      PROVE  engine'[o] = IF engine[o].session = s
                          THEN [engine[o] EXCEPT !.host = "replaced"] ELSE engine[o]
  BY DEF StartSession
<1>3. ASSUME NEW o \in Engines, Compressing(o)
      PROVE  engine'[o] = engine[o] /\ engine[o].host # "replaced"
  BY <1>1, <1>2, <1>3 DEF ApartInv, OwnSession
<1>4. ASSUME NEW o \in Engines, ~Compressing(o)
      PROVE  OwnSession(o)' /\ GroupFree(o)' /\ DebtFree(o)'
  BY <1>1, <1>4 DEF OwnSession, GroupFree, DebtFree, Compressing, Condensing
<1> QED  BY <1>1, <1>3, <1>4, ApartKept

LEMMA HostApart ==
    ASSUME PublicationInv, ApartInv, NEW e \in Engines,
           ResumeInPlace(e) \/ EndSession(e) \/ Ingest(e) \/ Rotate(e)
    PROVE  ApartInv'
<1>1. UNCHANGED <<nodes, job>>
  BY DEF ResumeInPlace, EndSession, Ingest, Rotate
<1>2. \A o \in Engines : engine'[o].session = engine[o].session
                         /\ engine'[o].host \in {engine[o].host, "live", "ended"}
  BY DEF ResumeInPlace, EndSession, Ingest, Rotate, PublicationInv, TypeOK, Engine
<1> QED  BY <1>1, <1>2, ApartKept DEF ApartInv, OwnSession

LEMMA CrashApart ==
    ASSUME PublicationInv, ApartInv, NEW e \in Engines, Crash(e)
    PROVE  ApartInv'
<1>1. /\ nodes' = nodes /\ job'[e] = NoJob
      /\ \A o \in Engines \ {e} : job'[o] = job[o] /\ engine'[o] = engine[o]
  BY DEF Crash, store, PublicationInv, TypeOK
<1>2. \A o \in Engines : Compressing(o) => engine[o].host # "replaced"
  BY DEF ApartInv, OwnSession
<1> QED  BY <1>1, <1>2, IdleApart, ApartKept

LEMMA BeginApart ==
    ASSUME PublicationInv, ApartInv, NEW e \in Engines, BeginCompress(e)
    PROVE  ApartInv'
<1> DEFINE s      == engine[e].session
           hidden == HiddenPrefix(e, transcript[s])
           start  == [NoJob EXCEPT !.phase = "ready", !.session = s,
                                   !.working = transcript[s], !.hidden = hidden]
           debt   == Debt(s, hidden)
<1>1. UNCHANGED <<nodes, engine>> /\ engine[e].host = "live"
  BY DEF BeginCompress, store, Live
<1>2. \/ job' = [job EXCEPT ![e] = start]
      \/ \E k \in debt : job' = [job EXCEPT ![e] =
             [start EXCEPT !.kind = "store", !.chunk = Upto(debt, k)]]
  BY Zenon DEF BeginCompress
<1> HIDE DEF hidden
<1>3. start.phase = "ready" /\ start.session = s /\ start.kind = "active"
  BY DEF NoJob
<1>4. job \in [Engines -> Job]  BY DEF PublicationInv, TypeOK
<1>5. /\ job'[e].phase = "ready" /\ job'[e].session = s
      /\ job'[e].kind \in {"active", "store"}
      /\ job'[e].kind = "store" => job'[e].chunk \subseteq debt
      /\ \A o \in Engines \ {e} : job'[o] = job[o]
  <2> HIDE DEF start, debt
  <2>1. CASE job' = [job EXCEPT ![e] = start]  BY <1>3, <1>4, <2>1
  <2>2. ASSUME NEW k \in debt,
               job' = [job EXCEPT ![e] = [start EXCEPT !.kind = "store", !.chunk = Upto(debt, k)]]
        PROVE  /\ job'[e].phase = "ready" /\ job'[e].session = s
               /\ job'[e].kind = "store" /\ job'[e].chunk \subseteq debt
               /\ \A o \in Engines \ {e} : job'[o] = job[o]
    <3>1. Upto(debt, k) \subseteq debt  BY DEF Upto
    <3>2. job'[e] = [start EXCEPT !.kind = "store", !.chunk = Upto(debt, k)]
      BY <1>4, <2>2
    <3>3. /\ job'[e].phase = "ready" /\ job'[e].session = s
          /\ job'[e].kind = "store" /\ job'[e].chunk = Upto(debt, k)
      BY <1>3, <3>2 DEF start, NoJob
    <3> QED  BY <1>4, <2>2, <3>1, <3>3
  <2> QED  BY <1>2, <2>1, <2>2
<1>6. OwnSession(e)' /\ GroupFree(e)'
  BY <1>1, <1>5 DEF OwnSession, GroupFree, Condensing
<1>7. DebtFree(e)'
  <2> SUFFICES ASSUME job'[e].kind = "store", NEW n \in NodeIds, Leaf(n), nodes[n].session = s
               PROVE  nodes[n].sources \cap job'[e].chunk = {}
    BY <1>1, <1>5 DEF DebtFree, NodeIds, Leaf
  <2>1. nodes[n].sources \subseteq Covered(s)
    BY DEF PublicationInv, LineageOwned, Covered
  <2> QED  BY <1>5, <2>1 DEF Debt
<1> QED  BY <1>1, <1>5, <1>6, <1>7, ApartJob

LEMMA FreezeLeafApart ==
    ASSUME PublicationInv, ApartInv, NEW e \in Engines, FreezeLeaf(e)
    PROVE  ApartInv'
<1>1. /\ UNCHANGED <<nodes, engine>> /\ job[e].phase = "ready" /\ job[e] \in Job
      /\ job[e].kind # "nodes"
  BY DEF FreezeLeaf, store, PublicationInv, TypeOK, FrozenExists, FrozenFrom
<1>2. PICK chunk, snap :
         /\ job' = [job EXCEPT ![e] = [job[e] EXCEPT !.phase = "model", !.chunk = chunk,
                                                     !.snap = snap]]
         /\ job[e].kind = "store" => chunk = job[e].chunk
  <2>1. CASE job[e].kind = "store"  BY <2>1 DEF FreezeLeaf
  <2>2. CASE job[e].kind # "store"  BY <2>2 DEF FreezeLeaf
  <2> QED  BY <2>1, <2>2
<1>3. /\ job'[e].phase = "model" /\ job'[e].session = job[e].session
      /\ job'[e].kind = job[e].kind /\ job'[e].chunk = chunk
      /\ \A o \in Engines \ {e} : job'[o] = job[o]
  BY <1>1, <1>2 DEF PublicationInv, TypeOK, Job
<1>4. OwnSession(e)' /\ GroupFree(e)' /\ DebtFree(e)'
  BY <1>1, <1>2, <1>3
     DEF ApartInv, OwnSession, GroupFree, DebtFree, Compressing, Condensing, NodeIds, Leaf
<1> QED  BY <1>1, <1>3, <1>4, ApartJob

LEMMA ChooseApart ==
    ASSUME PublicationInv, ApartInv, NEW e \in Engines, ChooseNodes(e)
    PROVE  ApartInv'
<1>1. /\ UNCHANGED <<nodes, engine>> /\ Compressing(e) /\ job[e] \in Job
  BY DEF ChooseNodes, store, Compressing, PublicationInv, TypeOK
<1>2. PICK d, chunk : /\ chunk \subseteq Uncondensed(engine[e].session, d)
                      /\ job' = [job EXCEPT ![e] = [job[e] EXCEPT !.phase = "chosen",
                                                    !.kind = "nodes", !.chunk = chunk]]
                      /\ d \in Nat
  <2>1. PICK d \in 0..(MaxDepth - 1) :
            job' = [job EXCEPT ![e] = [job[e] EXCEPT !.phase = "chosen", !.kind = "nodes",
                      !.chunk = {n \in Uncondensed(engine[e].session, d) :
                         Cardinality(Upto(Uncondensed(engine[e].session, d), n)) <= Fanin}]]
    BY Zenon DEF ChooseNodes
  <2> DEFINE group == {n \in Uncondensed(engine[e].session, d) :
                         Cardinality(Upto(Uncondensed(engine[e].session, d), n)) <= Fanin}
  <2>2. d \in Nat /\ group \subseteq Uncondensed(engine[e].session, d)  OBVIOUS
  <2>3. job' = [job EXCEPT ![e] = [job[e] EXCEPT !.phase = "chosen", !.kind = "nodes",
                                                 !.chunk = group]]
    BY <2>1
  <2> HIDE DEF group
  <2> QED  BY <2>2, <2>3
<1>3. /\ job'[e].phase = "chosen" /\ job'[e].session = job[e].session
      /\ job'[e].kind = "nodes" /\ job'[e].chunk = chunk
      /\ \A o \in Engines \ {e} : job'[o] = job[o]
  BY <1>1, <1>2 DEF PublicationInv, TypeOK, Job
<1>4. GroupFree(e)'
  <2> SUFFICES ASSUME NEW n \in chunk
               PROVE  /\ nodes[n].session = engine[e].session
                      /\ \A p \in NodeIds : ~Leaf(p) => n \notin nodes[p].sources
    BY <1>1, <1>3 DEF GroupFree, NodeIds, Leaf
  <2>1. n \in NodeIds /\ nodes[n].session = engine[e].session /\ nodes[n].depth = d
    BY <1>2 DEF Uncondensed
  <2>2. ASSUME NEW p \in NodeIds, ~Leaf(p), n \in nodes[p].sources
        PROVE  FALSE
    <3>1. nodes[p].session = nodes[n].session /\ nodes[p].depth = nodes[n].depth + 1
      BY <2>2 DEF PublicationInv, LineageOwned
    <3>2. nodes[p].depth > d  BY <1>2, <2>1, <3>1
    <3> QED  BY <1>2, <2>1, <2>2, <3>1, <3>2 DEF Uncondensed
  <2> QED  BY <2>1, <2>2
<1>5. OwnSession(e)' /\ DebtFree(e)'
  BY <1>1, <1>3 DEF ApartInv, OwnSession, DebtFree, Compressing
<1> QED  BY <1>1, <1>3, <1>4, <1>5, ApartJob

LEMMA FreezeNodesApart ==
    ASSUME PublicationInv, ApartInv, NEW e \in Engines, FreezeNodes(e)
    PROVE  ApartInv'
<1>1. /\ UNCHANGED <<nodes, engine>> /\ job[e].phase = "chosen" /\ job[e] \in Job
      /\ job[e].kind = "nodes"
  BY DEF FreezeNodes, store, PublicationInv, TypeOK, FrozenExists, FrozenFrom
<1>2. /\ job'[e].phase = "model" /\ job'[e].session = job[e].session
      /\ job'[e].kind = "nodes" /\ job'[e].chunk = job[e].chunk
      /\ \A o \in Engines \ {e} : job'[o] = job[o]
  BY <1>1 DEF FreezeNodes, PublicationInv, TypeOK, Job
<1>3. OwnSession(e)' /\ GroupFree(e)' /\ DebtFree(e)'
  BY <1>1, <1>2
     DEF ApartInv, OwnSession, GroupFree, DebtFree, Compressing, Condensing, NodeIds, Leaf
<1> QED  BY <1>1, <1>2, <1>3, ApartJob

LEMMA DropApart ==
    ASSUME PublicationInv, ApartInv, NEW e \in Engines,
           FailModel(e) \/ RejectPublication(e) \/ ReturnContext(e)
    PROVE  ApartInv'
<1>1. /\ UNCHANGED <<nodes, engine>> /\ Compressing(e) /\ job[e] \in Job
      /\ \A o \in Engines \ {e} : job'[o] = job[o]
  BY DEF FailModel, RejectPublication, ReturnContext, Raise, StopSweep, store, Compressing,
         PublicationInv, TypeOK
<1> DEFINE k == [job[e] EXCEPT !.phase = "assemble", !.kind = "active",
                               !.chunk = {}, !.snap = NothingFrozen]
<1>2. job' = [job EXCEPT ![e] = NoJob] \/ job' = [job EXCEPT ![e] = k]
  BY DEF FailModel, RejectPublication, ReturnContext, Raise, StopSweep
<1>3. k.session = job[e].session /\ k.kind = "active" /\ k.phase = "assemble"
  BY <1>1 DEF Job
<1> HIDE DEF k
<1>4. \/ job'[e] = NoJob
      \/ /\ job'[e].session = job[e].session /\ job'[e].kind = "active"
         /\ job'[e].phase = "assemble"
  BY <1>2, <1>3 DEF PublicationInv, TypeOK
<1> QED  BY <1>1, <1>4, IdleApart, GoesOnApart, ApartJob

(* A publication takes what only its own session may take.                 *)
LEMMA AppendApart ==
    ASSUME PublicationInv, ApartInv, NEW e \in Engines, Compressing(e), NEW N,
           nodes' = Append(nodes, N), N.session = engine[e].session,
           \A n \in NodeIds : N.depth # 0 /\ ~Leaf(n) => nodes[n].sources \cap N.sources = {},
           N.depth # 0 => N.sources \subseteq NodeIds
                          /\ \A i \in N.sources : nodes[i].session = engine[e].session,
           \A o \in Engines : engine'[o].session = engine[o].session
                              /\ engine'[o].host = engine[o].host,
           \A o \in Engines \ {e} : job'[o] = job[o],
           job'[e].session = job[e].session,
           job'[e].kind = "active", job'[e].phase # "chosen"
    PROVE  ApartInv'
<1>1. /\ Len(nodes) \in Nat /\ NodeIds' = NodeIds \cup {Len(nodes) + 1}
      /\ Len(nodes) + 1 \notin NodeIds
      /\ \A n \in NodeIds : nodes'[n] = nodes[n]
      /\ nodes'[Len(nodes) + 1] = N
  <2>1. nodes \in Seq(Node) /\ Len(nodes) \in Nat
    BY LenProperties DEF PublicationInv, TypeOK
  <2> QED  BY <2>1 DEF NodeIds
<1>2. CondensedOnce'
  <2>1. \A m, n \in NodeIds : m # n /\ ~Leaf(m) /\ ~Leaf(n)
            => nodes[m].sources \cap nodes[n].sources = {}
    BY DEF ApartInv, CondensedOnce
  <2> SUFFICES ASSUME NEW m \in NodeIds', NEW n \in NodeIds', m # n,
                      nodes'[m].depth # 0, nodes'[n].depth # 0
               PROVE  nodes'[m].sources \cap nodes'[n].sources = {}
    BY DEF CondensedOnce, Leaf
  <2>2. CASE m \in NodeIds /\ n \in NodeIds  BY <1>1, <2>1, <2>2 DEF Leaf
  <2>3. CASE m \in NodeIds /\ n \notin NodeIds
    <3>1. nodes'[n] = N /\ nodes'[m] = nodes[m]  BY <1>1, <2>3
    <3>2. ~Leaf(m)  BY <3>1 DEF Leaf
    <3> QED  BY <2>3, <3>1, <3>2
  <2>4. CASE m \notin NodeIds /\ n \in NodeIds
    <3>1. nodes'[m] = N /\ nodes'[n] = nodes[n]  BY <1>1, <2>4
    <3>2. ~Leaf(n)  BY <3>1 DEF Leaf
    <3> QED  BY <2>4, <3>1, <3>2
  <2> QED  BY <1>1, <2>2, <2>3, <2>4
<1>3. OwnSession(e)' /\ GroupFree(e)' /\ DebtFree(e)'
  BY GoesOnApart
<1>4. ASSUME NEW o \in Engines \ {e}
      PROVE  OwnSession(o)' /\ GroupFree(o)' /\ DebtFree(o)'
  <2>1. OwnSession(o)'
    BY DEF ApartInv, OwnSession, Compressing
  <2>2. Compressing(o) => engine[o].session # engine[e].session
    BY Alone
  <2>3. GroupFree(o)'
    <3> SUFFICES ASSUME Condensing(o), NEW n \in job[o].chunk
                 PROVE  /\ nodes'[n].session = engine[o].session
                        /\ \A p \in NodeIds' : nodes'[p].depth # 0 => n \notin nodes'[p].sources
      BY DEF GroupFree, Condensing, Leaf
    <3>1. n \in NodeIds  BY DEF Condensing, PublicationInv, FrozenExists, FrozenFrom
    <3>2. /\ nodes[n].session = engine[o].session
          /\ \A p \in NodeIds : ~Leaf(p) => n \notin nodes[p].sources
      BY DEF ApartInv, GroupFree
    <3>3. engine[o].session # engine[e].session
      BY <2>2 DEF Compressing, Condensing
    <3> QED  BY <1>1, <3>1, <3>2, <3>3 DEF Leaf
  <2>4. DebtFree(o)'
    <3> SUFFICES ASSUME Compressing(o), job[o].kind = "store", NEW n \in NodeIds',
                        nodes'[n].depth = 0, nodes'[n].session = engine[o].session
                 PROVE  nodes'[n].sources \cap job[o].chunk = {}
      BY DEF DebtFree, Compressing, Leaf
    <3>1. n \in NodeIds /\ nodes'[n] = nodes[n]  BY <1>1, <2>2
    <3> QED  BY <3>1 DEF ApartInv, DebtFree, Leaf
  <2> QED  BY <2>1, <2>3, <2>4
<1> QED  BY <1>2, <1>3, <1>4 DEF ApartInv

LEMMA PublishApart ==
    ASSUME PublicationInv, ApartInv, NEW e \in Engines, PublishLeaf(e) \/ PublishNodes(e)
    PROVE  ApartInv'
<1>0. job \in [Engines -> Job] /\ engine \in [Engines -> Engine]
  BY DEF PublicationInv, TypeOK
<1>1. CASE PublishLeaf(e)
  <2>1. /\ Compressing(e) /\ \A o \in Engines \ {e} : job'[o] = job[o]
        /\ job'[e].session = job[e].session /\ job'[e].kind = "active"
        /\ job'[e].phase \in {"condense", "ready"}
    <3>1. PICK text : job' = [job EXCEPT ![e] =
             [job[e] EXCEPT !.phase = IF job[e].kind = "store"
                                         /\ (\E m \in job[e].hidden :
                                              m > Newest(text \cap FrozenIds(job[e])))
                                      THEN "condense" ELSE "ready",
                            !.kind = "active", !.compacted = TRUE,
                            !.hidden = IF job[e].kind = "store" THEN {} ELSE @,
                            !.working = @ \ text, !.taken = @ \cup text,
                            !.chunk = {}, !.snap = NothingFrozen]]
      BY <1>1 DEF PublishLeaf
    <3>2. job[e] \in Job /\ job[e].phase = "model"  BY <1>0, <1>1 DEF PublishLeaf
    <3> QED  BY <1>0, <3>1, <3>2 DEF Compressing, Job
  <2>2. \A o \in Engines : engine'[o].session = engine[o].session
                           /\ engine'[o].host = engine[o].host
    <3>1. PICK k : engine' = engine \/ engine' = [engine EXCEPT ![e].marker = k]
      BY <1>1 DEF PublishLeaf
    <3> QED  BY <1>0, <3>1 DEF Engine
  <2>3. PICK N : nodes' = Append(nodes, N) /\ N.session = engine[e].session /\ N.depth = 0
    <3>1. PICK text : nodes' = Append(nodes, [session |-> engine[e].session, depth |-> 0,
                         sources |-> text \cap FrozenIds(job[e]), text |-> text])
      BY <1>1 DEF PublishLeaf
    <3> DEFINE N == [session |-> engine[e].session, depth |-> 0,
                     sources |-> text \cap FrozenIds(job[e]), text |-> text]
    <3>2. nodes' = Append(nodes, N) /\ N.session = engine[e].session /\ N.depth = 0
      BY <3>1
    <3> QED  BY <3>2
  <2> QED  BY <2>1, <2>2, <2>3, AppendApart
<1>2. CASE PublishNodes(e)
  <2>1. /\ Compressing(e) /\ \A o \in Engines \ {e} : job'[o] = job[o]
        /\ job'[e].session = job[e].session /\ job'[e].kind = "active"
        /\ job'[e].phase = "condense" /\ engine' = engine /\ Condensing(e)
    BY <1>0, <1>2 DEF PublishNodes, Compressing, Condensing, Job
  <2>2. PICK N : nodes' = Append(nodes, N) /\ N.session = engine[e].session
                    /\ N.sources = job[e].chunk
    BY <1>2 DEF PublishNodes
  <2>3. \A i \in N.sources : /\ nodes[i].session = engine[e].session
                             /\ \A p \in NodeIds : ~Leaf(p) => i \notin nodes[p].sources
    BY <2>1, <2>2 DEF ApartInv, GroupFree
  <2>4. N.sources \subseteq NodeIds
    BY <2>1, <2>2 DEF Condensing, PublicationInv, FrozenExists, FrozenFrom
  <2> QED  BY <2>1, <2>2, <2>3, <2>4, AppendApart
<1> QED  BY <1>1, <1>2

LEMMA StepApart ==
    ASSUME PublicationInv, ApartInv, ~RestartDuringCompress, [Next]_vars
    PROVE  ApartInv'
<1>1. ASSUME NEW e \in Engines, Compaction(e)  PROVE ApartInv'
  BY <1>1, BeginApart, FreezeLeafApart, PublishApart, ChooseApart, FreezeNodesApart, DropApart
     DEF Compaction
<1>2. ASSUME UNCHANGED <<nodes, engine, job>>  PROVE ApartInv'
  BY <1>2, ApartKept DEF ApartInv, OwnSession
<1>3. ASSUME NEW i \in StoreIds, RewriteRow(i)  PROVE ApartInv'
  BY <1>2, <1>3 DEF RewriteRow
<1>4. CASE UNCHANGED vars  BY <1>2, <1>4 DEF vars
<1> QED  BY <1>1, <1>3, <1>4, StartApart, HostApart, CrashApart DEF Next, Step

THEOREM ApartTheorem ==
    ASSUME ~RestartDuringCompress
    PROVE  Spec => []ApartInv
<1>1. Init => ApartInv
  BY IdleApart DEF Init, ApartInv, CondensedOnce, NodeIds, NoJob, OwnSession, GroupFree,
                   DebtFree, Compressing, Condensing
<1>2. PublicationInv /\ ApartInv /\ [Next]_vars => ApartInv'  BY StepApart
<1> QED  BY <1>1, <1>2, Invariance, PTL DEF Spec

(* When the host starts no session under a running compress, no node gets   *)
(* a second parent, whatever else engines do to each other's conversation   *)
(* between get_uncondensed_at_depth, the model call and the commit.         *)
THEOREM CondensedTheorem ==
    ASSUME ~RestartDuringCompress
    PROVE  Spec => []CondensedOnce
<1>1. ApartInv => CondensedOnce  BY DEF ApartInv
<1> QED  BY <1>1, ApartTheorem, PTL

(* Under the same condition a pass over the hidden prefix never summarises  *)
(* a row a leaf of the session holds already.                               *)
THEOREM StorePassTheorem ==
    ASSUME ~RestartDuringCompress
    PROVE  Spec => StorePassSkipsCovered
<1> DEFINE Skips(e) == job[e].chunk \cap Covered(job[e].session) = {}
<1>1. ASSUME ApartInv, NEW e \in Engines, job[e].phase = "model", job[e].kind = "store"
      PROVE  Skips(e)
  <2>1. Compressing(e) /\ job[e].session = engine[e].session
    BY <1>1 DEF ApartInv, OwnSession, Compressing
  <2>2. \A n \in NodeIds : Leaf(n) /\ nodes[n].session = engine[e].session
            => nodes[n].sources \cap job[e].chunk = {}
    BY <1>1, <2>1 DEF ApartInv, DebtFree
  <2> QED  BY <2>1, <2>2 DEF Covered
<1>2. ApartInv /\ [Next]_vars
        => [\A e \in Engines :
               job[e].phase = "model" /\ job[e].kind = "store" /\ nodes' # nodes /\ job'[e] # job[e]
                  => Skips(e)]_vars
  <2> HIDE DEF Skips
  <2> QED  BY <1>1
<1> QED  BY <1>2, ApartTheorem, PTL DEF Spec, StorePassSkipsCovered

-----------------------------------------------------------------------------
(***************************************************************************)
(* Nothing is left behind a frontier: SummaryProgress is implemented       *)
(***************************************************************************)
(* The host's list of a session holds the newest rows of it without a gap. *)
TranscriptOK ==
    \A s \in Sessions :
        /\ transcript[s] \subseteq RowsOf(s)
        /\ \A t \in transcript[s], i \in RowsOf(s) : i > t => i \in transcript[s]

(* Rows are taken oldest first from the window, and what is loaded from    *)
(* the hidden prefix is older than the window.                             *)
WindowOK(j) ==
    LET list == transcript[j.session]
    IN  /\ j.working \subseteq RowsOf(j.session)
        /\ j.taken \subseteq StoreIds /\ j.hidden \subseteq StoreIds
        /\ \A i \in j.taken, t \in list : t < i => t \in j.taken
        /\ \A w \in j.working, t \in list : t <= w => t \in j.working \cup j.taken
        /\ \A i \in j.hidden, t \in list : i < t
        /\ j.kind = "store" => \A i \in j.chunk, t \in list : i < t

(* A row between the frontier and the end of what may be taken is in the   *)
(* window, in the hidden prefix, or in a leaf.                             *)
GapOK(j) ==
    (j.phase = "ready" \/ (j.phase = "model" /\ j.kind # "nodes")) /\ row.current = j.session
       => \A c \in OutsideTail(j.working), i \in RowsOf(j.session) :
             row.frontier < i /\ i <= c
                => i \in j.working \cup j.hidden \cup Covered(j.session)

(* A store pass has loaded every such row that no leaf holds.              *)
DebtOK(j) ==
    j.kind = "store" /\ row.current = j.session
       => \A c \in j.chunk, i \in RowsOf(j.session) :
             row.frontier < i /\ i <= c => i \in j.chunk \cup Covered(j.session)

(* A frozen chunk is an oldest part of the window, and the rows of it that *)
(* the marker hides from the snapshot are behind the frontier.             *)
ChunkOK(j) ==
    /\ j.phase = "model" /\ j.kind = "store" => j.chunk \subseteq FrozenIds(j)
    /\ j.phase = "model" /\ j.kind = "active"
          => /\ \E k \in OutsideTail(j.working) : j.chunk = Upto(j.working, k)
             /\ row.current = j.session
                   => \A i \in j.chunk : i > row.frontier => i \in FrozenIds(j)

CarefulJob(j) == WindowOK(j) /\ GapOK(j) /\ DebtOK(j) /\ ChunkOK(j)

(* The compactions that are under way.                                     *)
Running == {j \in {job[e] : e \in Engines} : j.phase # "idle"}

GapInv == TranscriptOK /\ \A j \in Running : CarefulJob(j)

StoreGrows(s) ==
    /\ StoreIds \subseteq StoreIds' /\ RowsOf(s) \subseteq RowsOf(s)'
    /\ Covered(s) \subseteq Covered(s)'
    /\ \A i \in RowsOf(s)' : i \in RowsOf(s) \/ i > Len(messages)
    /\ \A t \in transcript'[s] : t \in transcript[s] \/ t > Len(messages)
    /\ row'.current = s => row.current = s /\ row'.frontier >= row.frontier

(* The eligible rows of a part are eligible in the whole, with what is      *)
(* older than them.                                                         *)
LEMMA TailOlder ==
    ASSUME NEW T \in SUBSET StoreIds, Len(messages) \in Nat, NEW S \in SUBSET T,
           NEW c \in OutsideTail(S), NEW i \in T, i <= c
    PROVE  i \in OutsideTail(T)
<1> DEFINE A == {j \in S : j > c}
           B == {j \in T : j > i}
<1>1. StoreIds \subseteq Nat  BY DEF StoreIds
<1>2. A \subseteq B /\ IsFiniteSet(B)
  <2>1. IsFiniteSet(StoreIds)  BY FS_Interval DEF StoreIds
  <2>2. B \subseteq StoreIds  OBVIOUS
  <2>3. c \in Nat /\ i \in Nat  BY <1>1 DEF OutsideTail
  <2>4. A \subseteq B
    <3> SUFFICES ASSUME NEW j \in S, j > c  PROVE j > i
      OBVIOUS
    <3> QED  BY <1>1, <2>3
  <2> QED  BY <2>1, <2>2, <2>4, FS_Subset
<1>3. /\ Cardinality(A) <= Cardinality(B) /\ Cardinality(A) \in Nat /\ Cardinality(B) \in Nat
  <2> HIDE DEF A, B
  <2> QED  BY <1>2, FS_Subset, FS_CardinalityType
<1>4. Cardinality(A) >= FreshTail  BY DEF OutsideTail
<1>5. Cardinality(B) >= FreshTail
  <2> HIDE DEF A, B
  <2> QED  BY <1>3, <1>4
<1> QED  BY <1>5 DEF OutsideTail

LEMMA TailIn ==
    ASSUME NEW S
    PROVE  OutsideTail(S) \subseteq S
BY DEF OutsideTail

(* What a compaction relies on is not disturbed by a store that grows.      *)
LEMMA CarefulKept ==
    ASSUME TypeOK, TypeOK', NEW j \in Job, CarefulJob(j), StoreGrows(j.session),
           j.kind = "store" => j.chunk \subseteq StoreIds
    PROVE  CarefulJob(j)'
<1> DEFINE s == j.session
<1>1. Len(messages) \in Nat /\ StoreIds \subseteq Nat /\ \A i \in StoreIds : i <= Len(messages)
  BY LenProperties DEF TypeOK, StoreIds
<1>2. /\ row.frontier \in Nat /\ row'.frontier \in Nat
      /\ row'.current = s => row.current = s /\ row'.frontier >= row.frontier
  BY DEF TypeOK, LifecycleRow, StoreGrows
<1>3. RowsOf(s) \subseteq StoreIds  BY DEF RowsOf
<1>4. \A t \in transcript'[s] : t \in transcript[s] \/ t > Len(messages)
  BY DEF StoreGrows
<1>5. WindowOK(j)
  BY DEF CarefulJob
<1>6. WindowOK(j)'
  <2>1. /\ j.working \subseteq RowsOf(s)' /\ j.taken \subseteq StoreIds' /\ j.hidden \subseteq StoreIds'
        /\ j.working \subseteq StoreIds /\ j.taken \subseteq StoreIds /\ j.hidden \subseteq StoreIds
    BY <1>3, <1>5 DEF WindowOK, StoreGrows
  <2>2. ASSUME NEW i \in StoreIds, NEW t \in transcript'[s], t \notin transcript[s]
        PROVE  i < t /\ ~(t < i) /\ ~(t <= i)
    <3>1. t \in Nat /\ t > Len(messages)  BY <1>4, <2>2 DEF TypeOK, Job
    <3> QED  BY <1>1, <3>1
  <2>3. \A i \in j.taken, t \in transcript'[s] : t < i => t \in j.taken
    BY <1>5, <2>1, <2>2 DEF WindowOK
  <2>4. \A w \in j.working, t \in transcript'[s] : t <= w => t \in j.working \cup j.taken
    BY <1>5, <2>1, <2>2 DEF WindowOK
  <2>5. \A i \in j.hidden, t \in transcript'[s] : i < t
    BY <1>5, <2>1, <2>2 DEF WindowOK
  <2>6. j.kind = "store" => \A i \in j.chunk, t \in transcript'[s] : i < t
    BY <1>5, <2>1, <2>2 DEF WindowOK
  <2> QED  BY <2>1, <2>3, <2>4, <2>5, <2>6 DEF WindowOK
<1>7. ASSUME NEW c \in StoreIds, NEW i \in RowsOf(s)', row'.current = s,
             row'.frontier < i, i <= c
      PROVE  i \in RowsOf(s) /\ row.frontier < i
  <2>1. i \in RowsOf(s) \/ i > Len(messages)  BY DEF StoreGrows
  <2>2. i \in Nat  BY DEF RowsOf, StoreIds
  <2> QED  BY <1>1, <1>2, <1>7, <2>1, <2>2
<1>8. GapOK(j)'
  <2> SUFFICES ASSUME j.phase = "ready" \/ (j.phase = "model" /\ j.kind # "nodes"),
                      row'.current = s, NEW c \in OutsideTail(j.working), NEW i \in RowsOf(s)',
                      row'.frontier < i, i <= c
               PROVE  i \in j.working \cup j.hidden \cup Covered(s)'
    BY DEF GapOK, OutsideTail
  <2>1. c \in StoreIds  BY <1>3, <1>5, TailIn DEF WindowOK
  <2>2. i \in RowsOf(s) /\ row.frontier < i /\ row.current = s  BY <1>2, <1>7, <2>1
  <2>3. i \in j.working \cup j.hidden \cup Covered(s)
    BY <2>2 DEF CarefulJob, GapOK
  <2> QED  BY <2>3 DEF StoreGrows
<1>9. DebtOK(j)'
  <2> SUFFICES ASSUME j.kind = "store", row'.current = s, NEW c \in j.chunk,
                      NEW i \in RowsOf(s)', row'.frontier < i, i <= c
               PROVE  i \in j.chunk \cup Covered(s)'
    BY DEF DebtOK
  <2>1. i \in RowsOf(s) /\ row.frontier < i /\ row.current = s  BY <1>2, <1>7
  <2>2. i \in j.chunk \cup Covered(s)
    BY <2>1 DEF CarefulJob, DebtOK
  <2> QED  BY <2>2 DEF StoreGrows
<1>10. ChunkOK(j)'
  <2>1. ChunkOK(j)  BY DEF CarefulJob
  <2> SUFFICES ASSUME j.phase = "model", j.kind = "active", row'.current = s,
                      NEW i \in j.chunk, i > row'.frontier
               PROVE  i \in FrozenIds(j)
    BY <2>1 DEF ChunkOK, OutsideTail, Upto, FrozenIds
  <2>2. i \in Nat  BY DEF Job
  <2>3. i > row.frontier  BY <1>2, <2>2
  <2> QED  BY <1>2, <2>1, <2>3 DEF ChunkOK
<1> QED  BY <1>6, <1>8, <1>9, <1>10 DEF CarefulJob

-----------------------------------------------------------------------------
(* What each kind of step does to the rows and to what leaves cover.        *)
LEMMA SameStore ==
    ASSUME UNCHANGED <<messages, nodes>>, NEW s
    PROVE  StoreIds' = StoreIds /\ RowsOf(s)' = RowsOf(s) /\ Covered(s)' = Covered(s)
BY DEF StoreIds, RowsOf, Covered, NodeIds, Leaf

LEMMA NewNode ==
    ASSUME TypeOK, messages' = messages, NEW N, nodes' = Append(nodes, N), NEW s
    PROVE  /\ StoreIds' = StoreIds /\ RowsOf(s)' = RowsOf(s)
           /\ Covered(s)' = IF N.depth = 0 /\ N.session = s
                            THEN Covered(s) \cup (N.sources \cap StoreIds) ELSE Covered(s)
           /\ {n \in NodeIds : Leaf(n)}' = IF N.depth = 0
                            THEN {n \in NodeIds : Leaf(n)} \cup {Len(nodes) + 1}
                            ELSE {n \in NodeIds : Leaf(n)}
<1>1. /\ NodeIds' = NodeIds \cup {Len(nodes) + 1} /\ Len(nodes) + 1 \notin NodeIds
      /\ \A n \in NodeIds : nodes'[n] = nodes[n]
      /\ nodes'[Len(nodes) + 1] = N
  <2>1. nodes \in Seq(Node) /\ Len(nodes) \in Nat  BY LenProperties DEF TypeOK
  <2> QED  BY <2>1 DEF NodeIds
<1>2. StoreIds' = StoreIds /\ RowsOf(s)' = RowsOf(s)  BY DEF StoreIds, RowsOf
<1>3. Covered(s)' = {i \in StoreIds : \E n \in NodeIds' :
                        nodes'[n].depth = 0 /\ nodes'[n].session = s /\ i \in nodes'[n].sources}
  BY <1>2 DEF Covered, Leaf
<1>4. Covered(s)' = IF N.depth = 0 /\ N.session = s
                    THEN Covered(s) \cup (N.sources \cap StoreIds) ELSE Covered(s)
  <2> DEFINE M == Len(nodes) + 1
  <2> HIDE DEF M
  <2>1. /\ NodeIds' = NodeIds \cup {M} /\ nodes'[M] = N
        /\ \A n \in NodeIds : nodes'[n] = nodes[n]
    BY <1>1 DEF M
  <2> QED  BY <1>3, <2>1 DEF Covered, Leaf
<1>5. {n \in NodeIds : Leaf(n)}' = {n \in NodeIds' : nodes'[n].depth = 0}
  BY DEF Leaf
<1>6. {n \in NodeIds : Leaf(n)}' = IF N.depth = 0
                            THEN {n \in NodeIds : Leaf(n)} \cup {Len(nodes) + 1}
                            ELSE {n \in NodeIds : Leaf(n)}
  <2> DEFINE M == Len(nodes) + 1
  <2> HIDE DEF M
  <2>1. /\ NodeIds' = NodeIds \cup {M} /\ nodes'[M] = N
        /\ \A n \in NodeIds : nodes'[n] = nodes[n]
    BY <1>1 DEF M
  <2>2. {n \in NodeIds : Leaf(n)}' = IF N.depth = 0
                            THEN {n \in NodeIds : Leaf(n)} \cup {M}
                            ELSE {n \in NodeIds : Leaf(n)}
    BY <1>5, <2>1 DEF Leaf
  <2> QED  BY <2>2 DEF M
<1> QED  BY <1>2, <1>4, <1>6

LEMMA NewRow ==
    ASSUME PublicationInv, nodes' = nodes, NEW m, messages' = Append(messages, m), NEW s
    PROVE  /\ Len(messages) \in Nat /\ StoreIds' = StoreIds \cup {Len(messages) + 1}
           /\ Len(messages) + 1 \notin StoreIds
           /\ \A i \in StoreIds : messages'[i] = messages[i]
           /\ messages'[Len(messages) + 1] = m
           /\ RowsOf(s)' = IF m.session = s THEN RowsOf(s) \cup {Len(messages) + 1}
                           ELSE RowsOf(s)
           /\ Covered(s)' = Covered(s)
<1>1. /\ Len(messages) \in Nat /\ StoreIds' = StoreIds \cup {Len(messages) + 1}
      /\ Len(messages) + 1 \notin StoreIds
      /\ \A i \in StoreIds : messages'[i] = messages[i]
      /\ messages'[Len(messages) + 1] = m
  <2>1. messages \in Seq(Message) /\ Len(messages) \in Nat
    BY LenProperties DEF PublicationInv, TypeOK
  <2> QED  BY <2>1 DEF StoreIds
<1> DEFINE M == Len(messages) + 1
<1> HIDE DEF M
<1>2. /\ StoreIds' = StoreIds \cup {M} /\ messages'[M] = m
      /\ \A i \in StoreIds : messages'[i] = messages[i]
  BY <1>1 DEF M
<1>3. RowsOf(s)' = IF m.session = s THEN RowsOf(s) \cup {M} ELSE RowsOf(s)
  <2>1. RowsOf(s)' = {i \in StoreIds' : messages'[i].session = s}  BY DEF RowsOf
  <2> QED  BY <1>2, <2>1 DEF RowsOf
<1>4. Covered(s)' = Covered(s)
  <2>1. \A n \in NodeIds : Leaf(n) => nodes[n].sources \subseteq StoreIds
    BY DEF PublicationInv, LineageOwned
  <2>2. Covered(s)' = {i \in StoreIds' : \E n \in NodeIds :
                          Leaf(n) /\ nodes[n].session = s /\ i \in nodes[n].sources}
    BY DEF Covered, NodeIds, Leaf
  <2> QED  BY <1>2, <2>1, <2>2 DEF Covered
<1> QED  BY <1>1, <1>3, <1>4 DEF M

LEMMA RewrittenRow ==
    ASSUME TypeOK, nodes' = nodes, NEW k \in StoreIds,
           messages' = [messages EXCEPT ![k].version = 1], NEW s
    PROVE  /\ StoreIds' = StoreIds /\ RowsOf(s)' = RowsOf(s) /\ Covered(s)' = Covered(s)
           /\ \A i \in StoreIds : messages'[i].session = messages[i].session
<1> DEFINE m == [messages[k] EXCEPT !.version = 1]
<1>0. /\ messages \in Seq(Message) /\ messages[k] \in Message
      /\ m \in Message /\ m.session = messages[k].session
  <2>1. messages \in Seq(Message) /\ messages[k] \in Message
    BY ElementOfSeq DEF TypeOK, StoreIds
  <2> QED  BY <2>1 DEF Message
<1>1. StoreIds' = StoreIds /\ \A i \in StoreIds : messages'[i].session = messages[i].session
  <2>1. messages' = [messages EXCEPT ![k] = m]  OBVIOUS
  <2> HIDE DEF m
  <2>2. Len(messages') = Len(messages)  BY <1>0, <2>1, ExceptSeq DEF StoreIds
  <2>3. \A i \in StoreIds : messages'[i].session = messages[i].session
    BY <1>0, <2>1, ExceptSeq DEF StoreIds
  <2> QED  BY <2>2, <2>3 DEF StoreIds
<1>2. RowsOf(s)' = RowsOf(s)
  <2>1. RowsOf(s)' = {i \in StoreIds' : messages'[i].session = s}  BY DEF RowsOf
  <2> QED  BY <1>1, <2>1 DEF RowsOf
<1> QED  BY <1>1, <1>2 DEF Covered, NodeIds, Leaf

-----------------------------------------------------------------------------
(* A compressed session stays where it is: only its own engine may write    *)
(* the row for it, and nobody takes the conversation over in its name.      *)
LEMMA OfSession ==
    ASSUME PublicationInv, ApartInv, NEW o \in Engines, Compressing(o)
    PROVE  /\ job[o].session = engine[o].session /\ job[o].session \in Sessions
           /\ engine[o].host # "replaced"
           /\ job[o] \in Job /\ (job[o].kind = "store" => job[o].chunk \subseteq StoreIds)
BY DEF PublicationInv, ApartInv, OwnSession, UnboundIsEmpty, Compressing, NoJob, TypeOK, Engine,
       FrozenExists, FrozenFrom

LEMMA RowMoves ==
    ASSUME PublicationInv, ApartInv, ~RestartDuringCompress, [Next]_vars,
           NEW o \in Engines, Compressing(o), row'.current = job[o].session
    PROVE  row.current = job[o].session /\ row'.frontier >= row.frontier
<1>1. /\ row \in LifecycleRow /\ row.frontier \in Nat
      /\ \A e \in Engines : engine[e].marker \in Nat
      /\ engine \in [Engines -> Engine]
  BY DEF PublicationInv, TypeOK, LifecycleRow, Engine
<1> DEFINE s == job[o].session
<1>2. s \in Sessions /\ s # NoSession /\ s = engine[o].session /\ engine[o].host # "replaced"
  BY OfSession
<1>3. ASSUME row' = row  PROVE row.current = s /\ row'.frontier >= row.frontier
  BY <1>1, <1>3
<1>4. ASSUME NEW e \in Engines, NEW t \in Sessions, StartSession(e, t)
      PROVE  row.current = s /\ row'.frontier >= row.frontier
  <2>1. t # s  BY <1>4 DEF StartSession
  <2>2. row' = BindRow(row, t) /\ row'.current = t
    BY <1>1, <1>4, BindRowLemma DEF StartSession
  <2> QED  BY <2>1, <2>2
<1>5. ASSUME NEW e \in Engines, ResumeInPlace(e)
      PROVE  row.current = s /\ row'.frontier >= row.frontier
  <2>1. /\ engine[e].session # NoSession /\ engine[e].session \in Sessions
        /\ engine[e].host # "replaced" /\ ~Compressing(e)
        /\ CanResume(row, engine[e].session)
        /\ row' = ResumeRow(row, engine[e].session, engine[e].marker)
    BY <1>1, <1>5 DEF ResumeInPlace, Engine
  <2>2. row'.current = engine[e].session
    BY <1>1, <2>1, ResumeRowLemma
  <2> QED  BY <1>2, <2>1, <2>2 DEF PublicationInv, OneInCharge
<1>6. ASSUME NEW e \in Engines, EndSession(e)
      PROVE  row.current = s /\ row'.frontier >= row.frontier
  <2>1. engine[e].session \in Sessions
    BY <1>1, <1>6 DEF EndSession, Live, PublicationInv, UnboundIsEmpty, NoEngine, Engine
  <2>2. PICK hasData \in BOOLEAN :
            row' \in {row, FinalizeRow(row, engine[e].session, engine[e].marker, hasData)}
    BY <1>6 DEF EndSession
  <2> QED  BY <1>1, <1>2, <1>3, <2>1, <2>2, FinalizeRowLemma
<1>7. ASSUME NEW e \in Engines, PublishLeaf(e)
      PROVE  row.current = s /\ row'.frontier >= row.frontier
  <2>1. PICK i \in job[e].chunk :
            \/ row' = row
            \/ row' = AdvanceRow(row, engine[e].session,
                                 Newest(Upto(job[e].chunk, i) \cap FrozenIds(job[e])))
    BY <1>7 DEF PublishLeaf
  <2>2. Upto(job[e].chunk, i) \cap FrozenIds(job[e]) \in SUBSET Nat
    BY DEF PublicationInv, TypeOK, Job, Upto
  <2> QED  BY <1>1, <1>3, <2>1, <2>2, NewestLemma, AdvanceRowLemma
<1>8. ASSUME NEW e \in Engines, Rotate(e)
      PROVE  row.current = s /\ row'.frontier >= row.frontier
  <2>1. PICK first \in RowsOf(engine[e].session) :
            row.frontier < first - 1 /\ row' = AdvanceRow(row, engine[e].session, first - 1)
    BY <1>8 DEF Rotate
  <2>2. first - 1 \in Nat  BY DEF RowsOf, StoreIds
  <2> QED  BY <1>1, <2>1, <2>2, AdvanceRowLemma
<1>9. CASE UNCHANGED vars  BY <1>3, <1>9 DEF vars
<1>10. ASSUME NEW e \in Engines, Compaction(e)
       PROVE  row.current = s /\ row'.frontier >= row.frontier
  BY <1>3, <1>7, <1>10
     DEF Compaction, BeginCompress, FreezeLeaf, ChooseNodes, FreezeNodes, PublishNodes,
         FailModel, RejectPublication, ReturnContext, store
<1> QED  BY <1>3, <1>4, <1>5, <1>6, <1>8, <1>9, <1>10
         DEF Next, Step, Ingest, Crash, RewriteRow, store

(* Whatever the others do, what a compaction relies on stands.              *)
LEMMA Undisturbed ==
    ASSUME PublicationInv, ApartInv, ~RestartDuringCompress, [Next]_vars,
           NEW o \in Engines, Compressing(o), NEW s, s = job[o].session
    PROVE  StoreGrows(s)
<1>1. s \in Sessions  BY OfSession
<1>2. row'.current = s => row.current = s /\ row'.frontier >= row.frontier
  BY RowMoves
<1>3. ASSUME UNCHANGED <<messages, nodes>>, transcript'[s] \subseteq transcript[s]
      PROVE  StoreGrows(s)
  BY <1>2, <1>3, SameStore DEF StoreGrows
<1>4. transcript \in [Sessions -> SUBSET Nat]  BY DEF PublicationInv, TypeOK
<1>5. ASSUME NEW e \in Engines, NEW t \in Sessions, StartSession(e, t)  PROVE StoreGrows(s)
  <2>1. UNCHANGED <<messages, nodes>> /\ \E old : transcript' = [transcript EXCEPT ![t] = @ \ old]
    BY <1>5 DEF StartSession
  <2> QED  BY <1>1, <1>3, <1>4, <2>1
<1>6. ASSUME NEW e \in Engines, Ingest(e)  PROVE StoreGrows(s)
  <2> DEFINE m == [session |-> engine[e].session, version |-> 0]
             M == Len(messages) + 1
  <2>1. /\ nodes' = nodes /\ messages' = Append(messages, m)
        /\ transcript' = [transcript EXCEPT ![engine[e].session] = @ \cup {M}]
    BY <1>6 DEF Ingest
  <2> HIDE DEF m
  <2>2. /\ Len(messages) \in Nat /\ StoreIds' = StoreIds \cup {M}
        /\ RowsOf(s)' = RowsOf(s) \/ RowsOf(s)' = RowsOf(s) \cup {M}
        /\ Covered(s)' = Covered(s)
    BY <2>1, NewRow
  <2>3. \A t \in transcript'[s] : t \in transcript[s] \/ t = M
    BY <1>1, <1>4, <2>1
  <2> QED  BY <1>2, <2>2, <2>3 DEF StoreGrows
<1>7. ASSUME NEW e \in Engines, PublishLeaf(e) \/ PublishNodes(e)  PROVE StoreGrows(s)
  <2>1. messages' = messages /\ transcript' = transcript /\ \E N : nodes' = Append(nodes, N)
    BY <1>7 DEF PublishLeaf, PublishNodes
  <2>2. StoreIds' = StoreIds /\ RowsOf(s)' = RowsOf(s) /\ Covered(s) \subseteq Covered(s)'
    BY <2>1, NewNode DEF PublicationInv
  <2> QED  BY <1>2, <2>1, <2>2 DEF StoreGrows
<1>8. ASSUME NEW i \in StoreIds, RewriteRow(i)  PROVE StoreGrows(s)
  <2>1. StoreIds' = StoreIds /\ RowsOf(s)' = RowsOf(s) /\ Covered(s)' = Covered(s)
    BY <1>8, RewrittenRow DEF RewriteRow, PublicationInv
  <2> QED  BY <1>2, <1>8, <2>1 DEF StoreGrows, RewriteRow
<1>9. ASSUME NEW e \in Engines, ReturnContext(e)  PROVE StoreGrows(s)
  <2>1. /\ UNCHANGED <<messages, nodes>>
        /\ transcript' = [transcript EXCEPT ![job[e].session] = @ \ job[e].taken]
    BY <1>9 DEF ReturnContext, store
  <2> QED  BY <1>1, <1>3, <1>4, <2>1
<1>10. ASSUME UNCHANGED <<messages, nodes, transcript>>  PROVE StoreGrows(s)
  BY <1>3, <1>10
<1>11. CASE UNCHANGED vars  BY <1>10, <1>11 DEF vars
<1>12. ASSUME NEW e \in Engines, Compaction(e)  PROVE StoreGrows(s)
  BY <1>7, <1>9, <1>10, <1>12
     DEF Compaction, BeginCompress, FreezeLeaf, ChooseNodes, FreezeNodes,
         FailModel, RejectPublication, store
<1> QED  BY <1>5, <1>6, <1>8, <1>10, <1>11, <1>12
         DEF Next, Step, ResumeInPlace, EndSession, Crash, Rotate, store

-----------------------------------------------------------------------------
LEMMA TranscriptStep ==
    ASSUME PublicationInv, ApartInv, GapInv, [Next]_vars
    PROVE  TranscriptOK'
<1>1. /\ transcript \in [Sessions -> SUBSET Nat] /\ TranscriptOK
  BY DEF PublicationInv, TypeOK, GapInv
<1>2. ASSUME \A s \in Sessions : RowsOf(s)' = RowsOf(s) /\ transcript'[s] = transcript[s]
      PROVE  TranscriptOK'
  BY <1>1, <1>2 DEF TranscriptOK
<1>3. ASSUME UNCHANGED <<messages, nodes, transcript>>  PROVE TranscriptOK'
  BY <1>2, <1>3, SameStore
<1>4. ASSUME NEW e \in Engines, NEW s \in Sessions, StartSession(e, s)  PROVE TranscriptOK'
  <2>1. PICK old \in {{}} \cup {Upto(transcript[s], k) : k \in transcript[s]} :
            transcript' = [transcript EXCEPT ![s] = @ \ old]
    BY <1>4 DEF StartSession
  <2>2. \A t \in Sessions : RowsOf(t)' = RowsOf(t)
    BY <1>4, SameStore DEF StartSession
  <2>3. /\ transcript'[s] = transcript[s] \ old
        /\ \A t \in Sessions \ {s} : transcript'[t] = transcript[t]
    BY <1>1, <2>1
  <2>4. ASSUME NEW t \in transcript[s] \ old, NEW i \in transcript[s], i > t
        PROVE  i \notin old
    <3>1. CASE old = {}  BY <3>1
    <3>2. ASSUME NEW k \in transcript[s], old = Upto(transcript[s], k)  PROVE i \notin old
      <4>1. k \in Nat /\ t \in Nat /\ i \in Nat  BY <1>1
      <4>2. ~(t <= k)  BY <3>2 DEF Upto
      <4> QED  BY <2>4, <3>2, <4>1, <4>2 DEF Upto
    <3> QED  BY <2>1, <3>1, <3>2
  <2>5. /\ transcript'[s] \subseteq RowsOf(s)
        /\ \A t \in transcript'[s], i \in RowsOf(s) : i > t => i \in transcript'[s]
    BY <1>1, <2>3, <2>4 DEF TranscriptOK
  <2> QED  BY <1>1, <2>2, <2>3, <2>5 DEF TranscriptOK
<1>5. ASSUME NEW e \in Engines, Ingest(e)  PROVE TranscriptOK'
  <2> DEFINE M == Len(messages) + 1
  <2>0. PICK s : s = engine[e].session  OBVIOUS
  <2>1. PICK m : m.session = s /\ nodes' = nodes /\ messages' = Append(messages, m)
    <3>1. nodes' = nodes /\ messages' = Append(messages, [session |-> s, version |-> 0])
      BY <1>5, <2>0 DEF Ingest
    <3> QED  BY <3>1
  <2>2. transcript' = [transcript EXCEPT ![s] = @ \cup {M}]
    BY <1>5, <2>0 DEF Ingest
  <2>3. /\ Len(messages) \in Nat
        /\ \A t : RowsOf(t)' = IF t = s THEN RowsOf(t) \cup {M} ELSE RowsOf(t)
    BY <2>1, NewRow
  <2>4. \A t \in Sessions : transcript'[t] = IF t = s THEN transcript[t] \cup {M}
                                             ELSE transcript[t]
    BY <1>1, <2>2
  <2>5. \A t \in Sessions : \A i \in RowsOf(t) : i \in Nat /\ i < M
    BY <2>3 DEF RowsOf, StoreIds
  <2>6. M \in Nat /\ ~(M > M)  BY <2>3
  <2> HIDE DEF M
  <2> SUFFICES ASSUME NEW t \in Sessions
               PROVE  /\ transcript'[t] \subseteq RowsOf(t)'
                      /\ \A k \in transcript'[t], i \in RowsOf(t)' : i > k => i \in transcript'[t]
    BY DEF TranscriptOK
  <2>7. /\ transcript[t] \subseteq RowsOf(t)
        /\ \A k \in transcript[t], i \in RowsOf(t) : i > k => i \in transcript[t]
    BY <1>1 DEF TranscriptOK
  <2>8. \A i \in RowsOf(t) : ~(i > M)
    BY <2>5, <2>6
  <2>9. CASE t = s
    <3>1. RowsOf(t)' = RowsOf(t) \cup {M} /\ transcript'[t] = transcript[t] \cup {M}
      BY <2>3, <2>4, <2>9
    <3> QED  BY <2>6, <2>7, <2>8, <3>1
  <2>10. CASE t # s  BY <2>3, <2>4, <2>7, <2>10
  <2> QED  BY <2>9, <2>10
<1>6. ASSUME NEW i \in StoreIds, RewriteRow(i)  PROVE TranscriptOK'
  BY <1>2, <1>6, RewrittenRow DEF RewriteRow, PublicationInv
<1>7. ASSUME NEW e \in Engines, PublishLeaf(e) \/ PublishNodes(e)  PROVE TranscriptOK'
  <2>1. messages' = messages /\ transcript' = transcript /\ \E N : nodes' = Append(nodes, N)
    BY <1>7 DEF PublishLeaf, PublishNodes
  <2>2. \A s : RowsOf(s)' = RowsOf(s)
    BY <2>1, NewNode DEF PublicationInv
  <2> QED  BY <1>2, <2>1, <2>2
<1>8. ASSUME NEW e \in Engines, ReturnContext(e)  PROVE TranscriptOK'
  <2>0. PICK j : j = job[e]  OBVIOUS
  <2>1. /\ \A s : RowsOf(s)' = RowsOf(s)
        /\ transcript' = [transcript EXCEPT ![j.session] = @ \ j.taken]
    BY <1>8, <2>0, SameStore DEF ReturnContext, store
  <2>2. Compressing(e) /\ j \in Running
    BY <1>8, <2>0 DEF ReturnContext, Compressing, Running
  <2>3. j.session \in Sessions /\ WindowOK(j)
    BY <2>0, <2>2, OfSession DEF GapInv, CarefulJob
  <2>4. /\ transcript'[j.session] = transcript[j.session] \ j.taken
        /\ \A t \in Sessions \ {j.session} : transcript'[t] = transcript[t]
    BY <1>1, <2>1, <2>3
  <2>5. ASSUME NEW t \in transcript[j.session] \ j.taken, NEW i \in j.taken
        PROVE  ~(i > t)
    <3>1. t \in Nat /\ i \in Nat
      BY <1>1, <2>3 DEF WindowOK, StoreIds
    <3>2. ~(t < i)  BY <2>3 DEF WindowOK
    <3> QED  BY <3>1, <3>2
  <2>6. /\ transcript'[j.session] \subseteq RowsOf(j.session)
        /\ \A t \in transcript'[j.session], i \in RowsOf(j.session) :
              i > t => i \in transcript'[j.session]
    BY <1>1, <2>3, <2>4, <2>5 DEF TranscriptOK
  <2> QED  BY <1>1, <2>1, <2>3, <2>4, <2>6 DEF TranscriptOK
<1>9. CASE UNCHANGED vars  BY <1>3, <1>9 DEF vars
<1>10. ASSUME NEW e \in Engines, Compaction(e)  PROVE TranscriptOK'
  BY <1>3, <1>7, <1>8, <1>10
     DEF Compaction, BeginCompress, FreezeLeaf, ChooseNodes, FreezeNodes,
         FailModel, RejectPublication, store
<1> QED  BY <1>3, <1>4, <1>5, <1>6, <1>9, <1>10
         DEF Next, Step, ResumeInPlace, EndSession, Crash, Rotate, store

-----------------------------------------------------------------------------
(* The compactions after a step of engine e: the others stand, and its own  *)
(* is over or has to be shown.                                              *)
LEMMA OneMoves ==
    ASSUME PublicationInv, PublicationInv', ApartInv, GapInv, ~RestartDuringCompress, [Next]_vars,
           NEW e, \A o \in Engines \ {e} : job'[o] = job[o],
           e \in Engines => \A j : j = job'[e] /\ j.phase # "idle" => CarefulJob(j)'
    PROVE  GapInv'
<1>1. ASSUME NEW o \in Engines \ {e}, NEW j, j = job'[o], j.phase # "idle"
      PROVE  CarefulJob(j)'
  <2>1. j = job[o] /\ Compressing(o) /\ j \in Running
    BY <1>1 DEF Compressing, Running
  <2>2. PICK s : s = job[o].session  OBVIOUS
  <2>3. StoreGrows(j.session)
    BY <2>1, <2>2, Undisturbed
  <2>4. j \in Job /\ CarefulJob(j) /\ (j.kind = "store" => j.chunk \subseteq StoreIds)
    BY <2>1, OfSession DEF GapInv
  <2> QED  BY <2>3, <2>4, CarefulKept DEF PublicationInv
<1>2. ASSUME NEW j \in Running'  PROVE CarefulJob(j)'
  <2>1. PICK o \in Engines : j = job'[o]  BY DEF Running
  <2>2. j.phase # "idle"  BY DEF Running
  <2> QED  BY <1>1, <2>1, <2>2
<1> QED  BY <1>2, TranscriptStep DEF GapInv

(* A compaction that goes on with nothing left to take from the window.     *)
LEMMA PastTheWindow ==
    ASSUME PublicationInv, PublicationInv', ApartInv, GapInv, ~RestartDuringCompress, [Next]_vars,
           NEW e \in Engines, Compressing(e), NEW j, j = job[e],
           NEW k, k.session = j.session, k.working = j.working, k.taken = j.taken,
           k.hidden = j.hidden, k.kind # "store", k.phase # "ready",
           k.phase = "model" => k.kind = "nodes"
    PROVE  CarefulJob(k)'
<1>1. /\ j \in Job /\ j \in Running /\ CarefulJob(j)
      /\ j.kind = "store" => j.chunk \subseteq StoreIds
  BY OfSession DEF GapInv, Running, Compressing
<1>2. PICK s : s = job[e].session  OBVIOUS
<1>3. StoreGrows(j.session)  BY <1>2, Undisturbed
<1>4. WindowOK(j)'  BY <1>1, <1>3, CarefulKept DEF CarefulJob, PublicationInv
<1>5. WindowOK(k)'  BY <1>4 DEF WindowOK
<1> QED  BY <1>5 DEF CarefulJob, GapOK, DebtOK, ChunkOK

LEMMA CarefulSame ==
    ASSUME UNCHANGED <<messages, nodes, row, transcript>>, NEW j
    PROVE  CarefulJob(j)' <=> CarefulJob(j)
<1>1. StoreIds' = StoreIds /\ \A s : RowsOf(s)' = RowsOf(s) /\ Covered(s)' = Covered(s)
  BY SameStore
<1> QED  BY <1>1 DEF CarefulJob, WindowOK, GapOK, DebtOK, ChunkOK, OutsideTail, Upto, FrozenIds

LEMMA BeginCareful ==
    ASSUME PublicationInv, PublicationInv', ApartInv, GapInv, ~RestartDuringCompress,
           NEW e \in Engines, BeginCompress(e)
    PROVE  GapInv'
<1>0. PICK s : s = engine[e].session  OBVIOUS
<1> DEFINE W      == transcript[s]
           hidden == HiddenPrefix(e, W)
           start  == [NoJob EXCEPT !.phase = "ready", !.session = s,
                                   !.working = W, !.hidden = hidden]
           debt   == Debt(s, hidden)
<1>1. UNCHANGED <<messages, nodes, row, engine, transcript>> /\ Live(e)
  BY DEF BeginCompress, store
<1>2. \/ job' = [job EXCEPT ![e] = start]
      \/ \E k \in debt : job' = [job EXCEPT ![e] =
             [start EXCEPT !.kind = "store", !.chunk = Upto(debt, k)]]
  BY <1>0, Zenon DEF BeginCompress
<1>3. /\ s \in Sessions /\ engine[e].marker \in Nat /\ row.frontier \in Nat
      /\ row.current = s => engine[e].marker <= row.frontier
      /\ Len(messages) \in Nat /\ StoreIds \subseteq Nat /\ RowsOf(s) \subseteq StoreIds
  BY <1>0, <1>1, LenProperties
     DEF PublicationInv, TypeOK, Engine, LifecycleRow, UnboundIsEmpty, NoEngine, Live,
         MarkerBehind, StoreIds, RowsOf
<1>4. /\ W \subseteq RowsOf(s)
      /\ \A t \in W, i \in RowsOf(s) : i > t => i \in W
  BY <1>3 DEF GapInv, TranscriptOK
<1> DEFINE visible == {i \in W : i > row.frontier}
<1>5. /\ hidden \subseteq OutsideTail(RowsOf(s))
      /\ \A i \in hidden : i > row.frontier /\ \A v \in visible : i < v
      /\ hidden # {} => row.current = s /\ visible # {}
      /\ row.current = s /\ visible # {} =>
            \A i \in OutsideTail(RowsOf(s)) :
               i > row.frontier /\ (\A v \in visible : i < v) => i \in hidden
  <2>1. CASE row.current = s
    <3>1. Larger(row.frontier, engine[e].marker) = row.frontier
      BY <1>3, <2>1 DEF Larger
    <3>2. W \cap RowsOf(s) = W  BY <1>4
    <3>3. hidden = IF row.current # s \/ visible = {} THEN {}
                   ELSE {i \in OutsideTail(RowsOf(s)) :
                            i > row.frontier /\ \A v \in visible : i < v}
      BY <1>0, <3>1, <3>2 DEF HiddenPrefix
    <3> HIDE DEF hidden, visible, W
    <3> QED  BY <2>1, <3>3
  <2>2. CASE row.current # s
    <3>1. hidden = {}  BY <1>0, <2>2 DEF HiddenPrefix
    <3> HIDE DEF hidden, visible, W
    <3> QED  BY <2>2, <3>1
  <2> QED  BY <2>1, <2>2
<1>6. hidden \subseteq RowsOf(s) /\ hidden \subseteq StoreIds
  BY <1>3, <1>5, TailIn
<1>7. \A i \in hidden, t \in W : i < t
  <2> SUFFICES ASSUME NEW i \in hidden, NEW t \in W, ~(i < t)  PROVE FALSE
    OBVIOUS
  <2>1. i \in Nat /\ t \in Nat /\ i \in RowsOf(s) /\ i > row.frontier
    BY <1>3, <1>4, <1>5, <1>6
  <2>2. i \in W
    <3>1. CASE i = t  BY <3>1
    <3>2. CASE i > t  BY <1>4, <2>1, <3>2
    <3> QED  BY <2>1, <3>1, <3>2
  <2>3. i < i  BY <1>5, <2>1, <2>2
  <2> QED  BY <2>1, <2>3
<1>8. ASSUME row.current = s, NEW c \in OutsideTail(W), NEW i \in RowsOf(s),
             row.frontier < i, i <= c
      PROVE  i \in W \cup hidden
  <2>1. c \in W /\ c \in Nat /\ i \in Nat /\ c \in visible
    <3>1. c \in W  BY TailIn
    <3>2. c \in Nat /\ i \in Nat  BY <1>3, <1>4, <3>1
    <3>3. c > row.frontier  BY <1>3, <1>8, <3>2
    <3> QED  BY <3>1, <3>2, <3>3
  <2>2. i \in OutsideTail(RowsOf(s))
    BY <1>3, <1>4, <1>8, TailOlder
  <2>3. ASSUME NEW v \in visible, ~(i < v)  PROVE i \in W
    <3>1. v \in W /\ v \in Nat  BY <1>3, <1>4
    <3>2. i = v \/ i > v  BY <2>1, <2>3, <3>1
    <3> QED  BY <1>4, <3>1, <3>2
  <2> QED  BY <1>5, <1>8, <2>1, <2>2, <2>3
<1> HIDE DEF hidden
<1>9. /\ start.phase = "ready" /\ start.session = s /\ start.kind = "active"
      /\ start.working = W /\ start.hidden = hidden /\ start.taken = {} /\ start.chunk = {}
  BY DEF NoJob
<1>10. \A o \in Engines \ {e} : job'[o] = job[o]
  BY <1>2 DEF PublicationInv, TypeOK
<1>11. ASSUME NEW j, j.phase = "ready", j.session = s, j.working = W, j.hidden = hidden,
              j.taken = {}, j.kind \in {"active", "store"},
              j.kind = "store" => \E k \in debt : j.chunk = Upto(debt, k)
       PROVE  CarefulJob(j)
  <2>1. j.kind = "store" => j.chunk \subseteq hidden
    BY <1>11 DEF Upto, Debt
  <2>2. WindowOK(j)
    BY <1>4, <1>6, <1>7, <1>11, <2>1 DEF WindowOK
  <2>3. GapOK(j)
    BY <1>8, <1>11 DEF GapOK
  <2>4. DebtOK(j)
    <3> SUFFICES ASSUME j.kind = "store", row.current = s, NEW c \in j.chunk,
                        NEW i \in RowsOf(s), row.frontier < i, i <= c
                 PROVE  i \in j.chunk \cup Covered(s)
      BY <1>11 DEF DebtOK
    <3>1. PICK k \in debt : j.chunk = Upto(debt, k)  BY <1>11
    <3>2. /\ c \in hidden /\ c <= k /\ c \in Nat /\ i \in Nat /\ k \in Nat
          /\ Upto(debt, k) = {x \in debt : x <= k}
      BY <1>3, <1>6, <3>1 DEF Upto, Debt
    <3>3. i \in OutsideTail(RowsOf(s))
      <4>1. c \in OutsideTail(RowsOf(s))  BY <1>5, <3>2
      <4> QED  BY <1>3, <4>1, TailOlder
    <3>4. \A v \in visible : i < v
      <4> SUFFICES ASSUME NEW v \in visible  PROVE i < v
        OBVIOUS
      <4>1. c < v /\ v \in Nat  BY <1>3, <1>4, <1>5, <3>2
      <4> QED  BY <3>2, <4>1
    <3>5. i \in hidden
      BY <1>5, <3>2, <3>3, <3>4
    <3>6. i <= k  BY <3>2
    <3> QED  BY <3>1, <3>2, <3>5, <3>6 DEF Debt
  <2> QED  BY <1>11, <2>2, <2>3, <2>4 DEF CarefulJob, ChunkOK
<1>12. ASSUME NEW j, j = job'[e]  PROVE CarefulJob(j)'
  <2>1. \/ j = start
        \/ \E k \in debt : j = [start EXCEPT !.kind = "store", !.chunk = Upto(debt, k)]
    <3> HIDE DEF start, debt
    <3> QED  BY <1>2, <1>12 DEF PublicationInv, TypeOK
  <2>2. CarefulJob(j)
    <3>1. CASE j = start  BY <1>9, <1>11, <3>1
    <3>2. ASSUME NEW k \in debt, j = [start EXCEPT !.kind = "store", !.chunk = Upto(debt, k)]
          PROVE  CarefulJob(j)
      <4>1. /\ j.phase = "ready" /\ j.session = s /\ j.kind = "store" /\ j.working = W
            /\ j.hidden = hidden /\ j.taken = {} /\ j.chunk = Upto(debt, k)
        BY <3>2 DEF NoJob
      <4> HIDE DEF debt, start
      <4> QED  BY <1>11, <4>1
    <3> QED  BY <2>1, <3>1, <3>2
  <2> QED  BY <1>1, <2>2, CarefulSame
<1> QED  BY <1>10, <1>12, OneMoves DEF Next, Step, Compaction

LEMMA FreezeCareful ==
    ASSUME PublicationInv, PublicationInv', ApartInv, GapInv, ~RestartDuringCompress,
           NEW e \in Engines, FreezeLeaf(e)
    PROVE  GapInv'
<1>0. PICK j : j = job[e]  OBVIOUS
<1> DEFINE s == j.session
<1>1. /\ UNCHANGED <<messages, nodes, row, engine, transcript>>
      /\ j.phase = "ready" /\ Compressing(e) /\ j \in Running
  BY <1>0 DEF FreezeLeaf, store, Compressing, Running
<1>2. /\ j \in Job /\ s = engine[e].session /\ s \in Sessions /\ engine[e].host # "replaced"
      /\ j.kind \in {"active", "store"} /\ CarefulJob(j)
      /\ j.kind = "store" => j.chunk \subseteq StoreIds
  BY <1>0, <1>1, OfSession
     DEF PublicationInv, FrozenExists, FrozenFrom, GapInv, Job, Kinds
<1>3. PICK chunk :
        /\ IF j.kind = "store" THEN chunk = j.chunk
           ELSE \E k \in OutsideTail(j.working) : chunk = Upto(j.working, k)
        /\ job' = [job EXCEPT ![e] =
              [j EXCEPT !.phase = "model", !.chunk = chunk,
                        !.snap = Snapshot(e, j.kind, IF j.kind = "store" THEN chunk
                                                     ELSE Mapped(e, chunk))]]
  <2>1. CASE j.kind = "store"  BY <1>0, <2>1 DEF FreezeLeaf
  <2>2. CASE j.kind # "store"  BY <1>0, <2>2 DEF FreezeLeaf
  <2> QED  BY <2>1, <2>2
<1>31. /\ j.kind = "store" => chunk = j.chunk
       /\ j.kind = "active" => \E m \in OutsideTail(j.working) : chunk = Upto(j.working, m)
  BY <1>2, <1>3
<1>4. PICK ids : ids = IF j.kind = "store" THEN chunk ELSE Mapped(e, chunk)  OBVIOUS
<1>5. ids \subseteq StoreIds  BY <1>2, <1>3, <1>4 DEF Mapped, RowsOf
<1>6. ASSUME NEW k, k = job'[e]  PROVE CarefulJob(k)'
  <2>1. k = [j EXCEPT !.phase = "model", !.chunk = chunk, !.snap = Snapshot(e, j.kind, ids)]
    BY <1>3, <1>4, <1>6 DEF PublicationInv, TypeOK
  <2>2. /\ k.phase = "model" /\ k.chunk = chunk /\ k.snap = Snapshot(e, j.kind, ids)
        /\ k.session = s /\ k.kind = j.kind /\ k.working = j.working /\ k.taken = j.taken
        /\ k.hidden = j.hidden
    BY <1>2, <2>1 DEF Job
  <2>3. FrozenIds(k) = ids
    BY <1>2, <1>5, <2>2, SnapshotLemma DEF PublicationInv, Kinds
  <2>4. WindowOK(k) /\ GapOK(k) /\ DebtOK(k)
    BY <1>1, <1>2, <1>3, <2>2 DEF CarefulJob, WindowOK, GapOK, DebtOK
  <2>6. ChunkOK(k)
    <3>5. CASE j.kind = "store"
      BY <1>31, <1>4, <2>2, <2>3, <3>5 DEF ChunkOK
    <3>6. CASE j.kind = "active"
      <4>1. PICK m \in OutsideTail(j.working) : chunk = Upto(j.working, m)
        BY <1>31, <3>6
      <4>2. ASSUME row.current = s, NEW i \in chunk, i > row.frontier
            PROVE  i \in ids
        <5>1. i \in RowsOf(s) /\ i \in Nat
          BY <1>2, <4>1 DEF CarefulJob, WindowOK, Upto, RowsOf, StoreIds
        <5>2. engine[e].marker \in Nat /\ row.frontier \in Nat /\ engine[e].marker <= row.frontier
          BY <1>2, <4>2 DEF PublicationInv, TypeOK, Engine, LifecycleRow, MarkerBehind
        <5>3. i > engine[e].marker  BY <4>2, <5>1, <5>2
        <5> QED  BY <1>2, <1>4, <3>6, <5>1, <5>3 DEF Mapped
      <4> QED  BY <2>2, <2>3, <3>6, <4>1, <4>2 DEF ChunkOK
    <3> QED  BY <1>2, <3>5, <3>6
  <2>7. CarefulJob(k)
    BY <2>4, <2>6 DEF CarefulJob
  <2> QED  BY <1>1, <2>7, CarefulSame
<1>7. \A o \in Engines \ {e} : job'[o] = job[o]
  BY <1>3 DEF PublicationInv, TypeOK
<1> QED  BY <1>6, <1>7, OneMoves DEF Next, Step, Compaction

LEMMA NewestIn ==
    ASSUME NEW S
    PROVE  Newest(S) \in S \cup {0}
BY DEF Newest, Last

(* What the publication of a leaf by e does to the row, to the DAG and to   *)
(* its own compaction, which was j and is k.                                *)
LeafStep(e, j, k, i, text, sources, reached, N) ==
    /\ i \in j.chunk /\ text = Upto(j.chunk, i) /\ sources = text \cap FrozenIds(j)
    /\ reached \in Nat /\ reached \in sources \cup {0}
    /\ N.depth = 0 /\ N.session = j.session /\ N.sources = sources
    /\ nodes' = Append(nodes, N) /\ messages' = messages
    /\ sources \subseteq RowsOf(j.session)
    /\ row.current = j.session /\ row'.current = j.session
    /\ row.frontier \in Nat /\ row'.frontier \in Nat
    /\ IF j.kind = "store" \/ j.hidden = {}
       THEN row'.frontier = Larger(reached, row.frontier)
       ELSE row'.frontier = row.frontier
    /\ k = job'[e] /\ k.session = j.session /\ k.kind = "active"
    /\ k.phase = IF j.kind = "store" /\ (\E m \in j.hidden : m > reached)
                 THEN "condense" ELSE "ready"
    /\ k.hidden = IF j.kind = "store" THEN {} ELSE j.hidden
    /\ k.working = j.working \ text /\ k.taken = j.taken \cup text
    /\ \A o \in Engines \ {e} : job'[o] = job[o]

LEMMA LeafIs ==
    ASSUME PublicationInv, ApartInv, GapInv, NEW e \in Engines, PublishLeaf(e),
           NEW j, j = job[e]
    PROVE  \E i, text, sources, reached, N, k :
              LeafStep(e, j, k, i, text, sources, reached, N)
<1> DEFINE s == engine[e].session
           moves == j.kind = "store" \/ j.hidden = {}
<1>1. /\ j.phase = "model" /\ j.kind # "nodes" /\ PublicationValid(e) /\ j \in Job
      /\ messages' = messages /\ Compressing(e)
  BY DEF PublishLeaf, PublicationInv, TypeOK, Compressing
<1>2. /\ s \in Sessions /\ row.current = s /\ s = j.session
      /\ FrozenIds(j) \subseteq RowsOf(s)
  BY <1>1, ValidLemma, OfSession DEF RowsOf
<1>3. PICK i \in j.chunk :
        LET text    == Upto(j.chunk, i)
            sources == text \cap FrozenIds(j)
            reached == Newest(sources)
            drained == ~\E m \in j.hidden : m > reached
        IN  /\ nodes' = Append(nodes, [session |-> s, depth |-> 0,
                                       sources |-> sources, text |-> text])
            /\ row' = IF moves THEN AdvanceRow(row, s, reached) ELSE row
            /\ job' = [job EXCEPT ![e] =
                  [j EXCEPT !.phase = IF j.kind = "store" /\ ~drained
                                      THEN "condense" ELSE "ready",
                            !.kind = "active", !.compacted = TRUE,
                            !.hidden = IF j.kind = "store" THEN {} ELSE @,
                            !.working = @ \ text, !.taken = @ \cup text,
                            !.chunk = {}, !.snap = NothingFrozen]]
  BY Zenon DEF PublishLeaf
<1> DEFINE text    == Upto(j.chunk, i)
           sources == text \cap FrozenIds(j)
           reached == Newest(sources)
           N       == [session |-> s, depth |-> 0, sources |-> sources, text |-> text]
           phase   == IF j.kind = "store" /\ (\E m \in j.hidden : m > reached)
                      THEN "condense" ELSE "ready"
           k       == [j EXCEPT !.phase = phase,
                                !.kind = "active", !.compacted = TRUE,
                                !.hidden = IF j.kind = "store" THEN {} ELSE @,
                                !.working = @ \ text, !.taken = @ \cup text,
                                !.chunk = {}, !.snap = NothingFrozen]
<1>4. /\ nodes' = Append(nodes, N) /\ job' = [job EXCEPT ![e] = k]
      /\ row' = IF moves THEN AdvanceRow(row, s, reached) ELSE row
  BY <1>3
<1>5. /\ text \in SUBSET Nat /\ sources \in SUBSET Nat
      /\ reached \in Nat /\ reached \in sources \cup {0}
  <2>1. text \in SUBSET Nat /\ sources \in SUBSET Nat  BY <1>1 DEF Upto, Job
  <2> QED  BY <2>1, NewestLemma, NewestIn
<1>6. N.depth = 0 /\ N.session = j.session /\ N.sources = sources
  BY <1>2
<1>7. sources \subseteq RowsOf(j.session)  BY <1>2
<1>8. /\ k.session = j.session /\ k.kind = "active" /\ k.phase = phase
      /\ k.hidden = IF j.kind = "store" THEN {} ELSE j.hidden
      /\ k.working = j.working \ text /\ k.taken = j.taken \cup text
  <2> HIDE DEF phase, text
  <2> QED  BY <1>1 DEF Job
<1>9. phase = IF j.kind = "store" /\ (\E m \in j.hidden : m > reached)
              THEN "condense" ELSE "ready"
  OBVIOUS
<1>10. /\ row'.current = j.session /\ row.frontier \in Nat /\ row'.frontier \in Nat
       /\ IF moves THEN row'.frontier = Larger(reached, row.frontier)
          ELSE row'.frontier = row.frontier
  <2> HIDE DEF reached, moves
  <2>1. row \in LifecycleRow  BY DEF PublicationInv, TypeOK
  <2> QED  BY <1>2, <1>4, <1>5, <2>1 DEF AdvanceRow, LifecycleRow, Larger
<1>11. k = job'[e] /\ \A o \in Engines \ {e} : job'[o] = job[o]
  <2> HIDE DEF k
  <2> QED  BY <1>4 DEF PublicationInv, TypeOK
<1>12. text = Upto(j.chunk, i) /\ sources = text \cap FrozenIds(j)
  OBVIOUS
<1> HIDE DEF text, sources, reached, N, phase, k
<1>13. i \in j.chunk  OBVIOUS
<1>14. LeafStep(e, j, k, i, text, sources, reached, N)
  <2> HIDE DEF moves
  <2>1. IF j.kind = "store" \/ j.hidden = {}
        THEN row'.frontier = Larger(reached, row.frontier)
        ELSE row'.frontier = row.frontier
    BY <1>10 DEF moves
  <2> QED  BY <1>1, <1>2, <1>4, <1>5, <1>6, <1>7, <1>8, <1>9, <1>10, <1>11, <1>12, <1>13, <2>1
           DEF LeafStep
<1> QED  BY <1>14

(* Every row that a publication leaves behind the frontier is in its leaf   *)
(* or was in one.                                                           *)
LEMMA NothingLeft ==
    ASSUME PublicationInv, NEW e, NEW j \in Job, CarefulJob(j), NEW k, NEW i,
           NEW text, NEW sources, NEW reached, NEW N,
           j.phase = "model", j.kind \in {"active", "store"},
           j.kind = "store" => j.chunk \subseteq StoreIds,
           LeafStep(e, j, k, i, text, sources, reached, N),
           NEW r \in RowsOf(j.session), row.frontier < r, r <= row'.frontier
    PROVE  r \in sources \cup Covered(j.session)
<1>1. r \in Nat /\ row.frontier \in Nat /\ row'.frontier \in Nat
  BY DEF LeafStep, RowsOf, StoreIds
<1>2. row'.frontier = Larger(reached, row.frontier) /\ (j.kind = "store" \/ j.hidden = {})
  BY <1>1 DEF LeafStep
<1>3. reached \in sources /\ r <= reached /\ reached \in Nat
  <2>1. reached \in sources \cup {0}  BY DEF LeafStep
  <2>2. reached \in Nat  BY DEF LeafStep
  <2>3. r <= reached  BY <1>1, <1>2, <2>2 DEF Larger
  <2> QED  BY <1>1, <2>1, <2>2, <2>3
<1>4. reached \in text /\ text = {x \in j.chunk : x <= i} /\ sources = text \cap FrozenIds(j)
  BY <1>3 DEF LeafStep, Upto
<1>5. ASSUME r \in j.chunk  PROVE r \in text
  <2>1. i \in Nat /\ reached <= i  BY <1>4 DEF LeafStep, Job
  <2>2. r <= i  BY <1>1, <1>3, <2>1
  <2> QED  BY <1>4, <1>5, <2>2
<1>6. CASE j.kind = "store"
  <2>1. r \in j.chunk \cup Covered(j.session)
    BY <1>3, <1>4, <1>6 DEF LeafStep, CarefulJob, DebtOK
  <2>2. j.chunk \subseteq FrozenIds(j)  BY <1>6 DEF CarefulJob, ChunkOK
  <2> QED  BY <1>4, <1>5, <2>1, <2>2
<1>7. CASE j.kind = "active"
  <2>1. j.hidden = {} /\ row.current = j.session
    BY <1>2, <1>7 DEF LeafStep
  <2>2. PICK m \in OutsideTail(j.working) : j.chunk = Upto(j.working, m)
    BY <1>7 DEF CarefulJob, ChunkOK
  <2>3. j.working \subseteq StoreIds /\ StoreIds \subseteq Nat /\ Len(messages) \in Nat
    BY LenProperties DEF CarefulJob, WindowOK, RowsOf, StoreIds, PublicationInv, TypeOK
  <2>4. reached \in j.working /\ reached <= m /\ j.chunk = {x \in j.working : x <= m}
    BY <1>4, <2>2 DEF Upto
  <2>5. reached \in OutsideTail(j.working)
    BY <2>3, <2>4, TailOlder
  <2>6. r \in j.working \cup Covered(j.session)
    BY <1>3, <1>7, <2>1, <2>5 DEF CarefulJob, GapOK
  <2>7. ASSUME r \in j.working  PROVE r \in sources
    <3>1. m \in Nat  BY <2>3, TailIn
    <3>2. r <= m  BY <1>1, <1>3, <2>4, <3>1
    <3>3. r \in j.chunk  BY <2>4, <2>7, <3>2
    <3>4. r \in FrozenIds(j)  BY <1>1, <1>7, <2>1, <3>3 DEF CarefulJob, ChunkOK
    <3> QED  BY <1>4, <1>5, <3>3, <3>4
  <2> QED  BY <2>6, <2>7
<1> QED  BY <1>6, <1>7

LEMMA PublishCareful ==
    ASSUME PublicationInv, PublicationInv', ApartInv, GapInv, ~RestartDuringCompress,
           NEW e \in Engines, PublishLeaf(e)
    PROVE  GapInv'
<1>0. PICK j : j = job[e]  OBVIOUS
<1> DEFINE s == j.session
<1>1. /\ j \in Job /\ CarefulJob(j) /\ j.phase = "model" /\ j.kind \in {"active", "store"}
      /\ j.kind = "store" => j.chunk \subseteq StoreIds
      /\ Compressing(e) /\ transcript' = transcript
  <2>1. j.phase = "model" /\ j.kind # "nodes" /\ Compressing(e) /\ j \in Running
    BY <1>0 DEF PublishLeaf, Compressing, Running
  <2> QED  BY <1>0, <2>1, OfSession DEF GapInv, Job, Kinds, PublishLeaf
<1>2. PICK i, text, sources, reached, N, k : LeafStep(e, j, k, i, text, sources, reached, N)
  BY <1>0, LeafIs
<1>3. /\ StoreIds' = StoreIds /\ RowsOf(s)' = RowsOf(s)
      /\ Covered(s)' = Covered(s) \cup sources
  <2>1. Covered(s)' = Covered(s) \cup (sources \cap StoreIds)
        /\ StoreIds' = StoreIds /\ RowsOf(s)' = RowsOf(s)
    BY <1>2, NewNode DEF LeafStep, PublicationInv
  <2> QED  BY <1>2, <2>1 DEF LeafStep, RowsOf
<1>4. /\ StoreIds \subseteq Nat /\ Len(messages) \in Nat /\ transcript[s] \subseteq StoreIds
      /\ i \in Nat /\ text \subseteq j.chunk /\ text = {x \in j.chunk : x <= i}
      /\ WindowOK(j) /\ j.working \subseteq StoreIds
  <2>1. s \in Sessions  BY <1>0, <1>1, OfSession
  <2> QED  BY <1>1, <1>2, <2>1, LenProperties
           DEF CarefulJob, WindowOK, RowsOf, StoreIds, PublicationInv, TypeOK, Job, Upto, LeafStep,
               GapInv, TranscriptOK
<1>5. k.working = j.working \ text /\ k.taken = j.taken \cup text /\ k.session = s
      /\ k.kind = "active" /\ k.phase \in {"ready", "condense"}
  BY <1>2 DEF LeafStep
<1>6. WindowOK(k)'
  <2>1. k.working \subseteq RowsOf(s) /\ text \subseteq StoreIds /\ k.taken \subseteq StoreIds
    <3>1. CASE j.kind = "store"  BY <1>1, <1>4, <1>5, <3>1 DEF WindowOK
    <3>2. CASE j.kind = "active"
      <4>1. j.chunk \subseteq j.working  BY <1>1, <3>2 DEF CarefulJob, ChunkOK, Upto
      <4> QED  BY <1>4, <1>5, <4>1 DEF WindowOK
    <3> QED  BY <1>1, <3>1, <3>2
  <2>2. ASSUME NEW x \in text, NEW t \in transcript[s], t < x  PROVE t \in j.taken \cup text
    <3>1. x \in Nat /\ t \in Nat  BY <1>4, <2>1
    <3>2. CASE j.kind = "store"
      <4>1. x < t  BY <1>4, <3>2 DEF WindowOK
      <4> QED  BY <2>2, <3>1, <4>1
    <3>3. CASE j.kind = "active"
      <4>1. PICK m \in OutsideTail(j.working) : j.chunk = Upto(j.working, m)
        BY <1>1, <3>3 DEF CarefulJob, ChunkOK
      <4>2. x \in j.working /\ x <= m /\ x <= i /\ m \in Nat
        BY <1>4, <4>1, TailIn DEF Upto
      <4>3. t \in j.working \cup j.taken
        <5>1. t <= x  BY <2>2, <3>1
        <5> QED  BY <1>4, <4>2, <5>1 DEF WindowOK
      <4>4. t <= m /\ t <= i  BY <1>4, <2>2, <3>1, <4>2
      <4> QED  BY <1>4, <4>1, <4>3, <4>4 DEF Upto
    <3> QED  BY <1>1, <3>2, <3>3
  <2>3. \A x \in k.taken, t \in transcript[s] : t < x => t \in k.taken
    BY <1>4, <1>5, <2>2 DEF WindowOK
  <2>4. \A w \in k.working, t \in transcript[s] : t <= w => t \in k.working \cup k.taken
    BY <1>4, <1>5 DEF WindowOK
  <2>5. k.hidden \subseteq StoreIds /\ \A x \in k.hidden, t \in transcript[s] : x < t
    BY <1>2, <1>4 DEF LeafStep, WindowOK
  <2> QED  BY <1>1, <1>3, <1>5, <2>1, <2>3, <2>4, <2>5 DEF WindowOK
<1>7. GapOK(k)'
  <2> SUFFICES ASSUME k.phase = "ready", NEW c \in OutsideTail(k.working),
                      NEW r \in RowsOf(s), row'.frontier < r, r <= c
               PROVE  r \in k.working \cup k.hidden \cup Covered(s)'
    BY <1>3, <1>5 DEF GapOK, OutsideTail
  <2>1. /\ row.frontier \in Nat /\ row'.frontier \in Nat /\ row.frontier <= row'.frontier
        /\ row.current = s /\ r \in Nat
    <3>1. r \in Nat  BY DEF RowsOf, StoreIds
    <3> QED  BY <1>2, <3>1 DEF LeafStep, Larger
  <2>2. row.frontier < r  BY <2>1
  <2>3. c \in OutsideTail(j.working)
    <3>1. c \in k.working /\ c \in j.working /\ c \in Nat  BY <1>4, <1>5, TailIn
    <3>2. k.working \subseteq j.working /\ c <= c  BY <1>5, <3>1
    <3> QED  BY <1>4, <3>1, <3>2, TailOlder
  <2>4. r \in j.working \cup j.hidden \cup Covered(s)
    BY <1>1, <2>1, <2>2, <2>3 DEF CarefulJob, GapOK
  <2>5. ASSUME r \in text  PROVE r \in sources
    <3>1. CASE j.kind = "store"
      BY <1>1, <1>2, <1>4, <2>5, <3>1 DEF CarefulJob, ChunkOK, LeafStep
    <3>2. CASE j.kind = "active"
      <4>1. r > row.frontier /\ r \in j.chunk  BY <1>4, <2>1, <2>2, <2>5
      <4>2. r \in FrozenIds(j)
        BY <1>1, <2>1, <3>2, <4>1 DEF CarefulJob, ChunkOK
      <4> QED  BY <1>2, <2>5, <4>2 DEF LeafStep
    <3> QED  BY <1>1, <3>1, <3>2
  <2>6. ASSUME r \in j.hidden  PROVE r \in k.hidden
    <3>1. CASE j.kind = "store"
      <4>1. reached \in Nat /\ ~(r > reached) /\ row'.frontier = Larger(reached, row.frontier)
        BY <1>2, <2>6, <3>1 DEF LeafStep
      <4> QED  BY <2>1, <4>1 DEF Larger
    <3>2. CASE j.kind = "active"  BY <1>2, <2>6, <3>2 DEF LeafStep
    <3> QED  BY <1>1, <3>1, <3>2
  <2> QED  BY <1>3, <1>5, <2>4, <2>5, <2>6
<1>8. CarefulJob(k)'
  BY <1>5, <1>6, <1>7 DEF CarefulJob, DebtOK, ChunkOK
<1>9. k = job'[e] /\ \A o \in Engines \ {e} : job'[o] = job[o]
  BY <1>2 DEF LeafStep
<1> QED  BY <1>8, <1>9, OneMoves DEF Next, Step, Compaction

LEMMA StepGap ==
    ASSUME PublicationInv, PublicationInv', ApartInv, GapInv, ~RestartDuringCompress, [Next]_vars
    PROVE  GapInv'
<1>0. job \in [Engines -> Job]  BY DEF PublicationInv, TypeOK
<1>1. ASSUME job' = job  PROVE GapInv'
  <2>1. \A e \in Engines : job'[e] = job[e]  BY <1>1
  <2>2. PICK e : e \notin Engines  BY NoSetContainsEverything
  <2> QED  BY <2>1, <2>2, OneMoves
<1>2. ASSUME NEW e \in Engines, job' = [job EXCEPT ![e] = NoJob]  PROVE GapInv'
  <2>1. job'[e] = NoJob /\ \A o \in Engines \ {e} : job'[o] = job[o]  BY <1>0, <1>2
  <2> QED  BY <2>1, OneMoves DEF NoJob
<1>3. ASSUME NEW e \in Engines, Compressing(e), NEW k,
             job' = [job EXCEPT ![e] = k], k.session = job[e].session,
             k.working = job[e].working, k.taken = job[e].taken, k.hidden = job[e].hidden,
             k.kind # "store", k.phase # "ready", k.phase = "model" => k.kind = "nodes"
      PROVE  GapInv'
  <2>1. job'[e] = k /\ \A o \in Engines \ {e} : job'[o] = job[o]  BY <1>0, <1>3
  <2>2. PICK j : j = job[e]  OBVIOUS
  <2>3. CarefulJob(k)'  BY <1>3, <2>2, PastTheWindow
  <2> QED  BY <2>1, <2>3, OneMoves
<1>4. ASSUME NEW e \in Engines, FailModel(e) \/ RejectPublication(e)  PROVE GapInv'
  <2>1. job[e] \in Job /\ Compressing(e)
    BY <1>0, <1>4 DEF FailModel, RejectPublication, Compressing
  <2>2. CASE Raise(e)  BY <1>2, <2>2 DEF Raise
  <2>3. CASE StopSweep(e)
    <3> DEFINE k == [job[e] EXCEPT !.phase = "assemble", !.kind = "active",
                                   !.chunk = {}, !.snap = NothingFrozen]
    <3>1. job' = [job EXCEPT ![e] = k]  BY <2>3 DEF StopSweep
    <3>2. /\ k.session = job[e].session /\ k.working = job[e].working /\ k.taken = job[e].taken
          /\ k.hidden = job[e].hidden /\ k.kind = "active" /\ k.phase = "assemble"
      BY <2>1 DEF Job
    <3> HIDE DEF k
    <3> QED  BY <1>3, <2>1, <3>1, <3>2
  <2> QED  BY <1>4, <2>2, <2>3 DEF FailModel, RejectPublication
<1>5. ASSUME NEW e \in Engines, ChooseNodes(e)  PROVE GapInv'
  <2>1. job[e] \in Job /\ Compressing(e)
    BY <1>0, <1>5 DEF ChooseNodes, Compressing
  <2>2. PICK group : job' = [job EXCEPT ![e] =
            [job[e] EXCEPT !.phase = "chosen", !.kind = "nodes", !.chunk = group]]
    BY <1>5, Zenon DEF ChooseNodes
  <2> DEFINE k == [job[e] EXCEPT !.phase = "chosen", !.kind = "nodes", !.chunk = group]
  <2>3. /\ k.session = job[e].session /\ k.working = job[e].working /\ k.taken = job[e].taken
        /\ k.hidden = job[e].hidden /\ k.kind = "nodes" /\ k.phase = "chosen"
    BY <2>1 DEF Job
  <2>4. job' = [job EXCEPT ![e] = k]  BY <2>2
  <2> HIDE DEF k
  <2> QED  BY <1>3, <2>1, <2>3, <2>4
<1>6. ASSUME NEW e \in Engines, FreezeNodes(e)  PROVE GapInv'
  <2> DEFINE k == [job[e] EXCEPT !.phase = "model", !.snap = Snapshot(e, "nodes", job[e].chunk)]
  <2>1. /\ job[e] \in Job /\ Compressing(e) /\ job[e].kind = "nodes"
        /\ job' = [job EXCEPT ![e] = k]
    BY <1>0, <1>6 DEF FreezeNodes, Compressing, PublicationInv, FrozenExists, FrozenFrom
  <2>2. /\ k.session = job[e].session /\ k.working = job[e].working /\ k.taken = job[e].taken
        /\ k.hidden = job[e].hidden /\ k.kind = "nodes" /\ k.phase = "model"
    BY <2>1 DEF Job
  <2> HIDE DEF k
  <2> QED  BY <1>3, <2>1, <2>2
<1>7. ASSUME NEW e \in Engines, PublishNodes(e)  PROVE GapInv'
  <2> DEFINE k == [job[e] EXCEPT !.phase = "condense", !.kind = "active",
                                 !.chunk = {}, !.snap = NothingFrozen]
  <2>1. /\ job[e] \in Job /\ Compressing(e) /\ job' = [job EXCEPT ![e] = k]
    BY <1>0, <1>7 DEF PublishNodes, Compressing
  <2>2. /\ k.session = job[e].session /\ k.working = job[e].working /\ k.taken = job[e].taken
        /\ k.hidden = job[e].hidden /\ k.kind = "active" /\ k.phase = "condense"
    BY <2>1 DEF Job
  <2> HIDE DEF k
  <2> QED  BY <1>3, <2>1, <2>2
<1>8. ASSUME NEW e \in Engines, Compaction(e)  PROVE GapInv'
  BY <1>2, <1>4, <1>5, <1>6, <1>7, <1>8, BeginCareful, FreezeCareful, PublishCareful
     DEF Compaction, ReturnContext
<1>9. CASE UNCHANGED vars  BY <1>1, <1>9 DEF vars
<1> QED  BY <1>1, <1>2, <1>8, <1>9
         DEF Next, Step, StartSession, ResumeInPlace, EndSession, Ingest, Crash, RewriteRow, Rotate

THEOREM GapTheorem ==
    ASSUME ~RestartDuringCompress
    PROVE  Spec => []GapInv
<1>1. Init => GapInv
  BY DEF Init, GapInv, TranscriptOK, Running, NoJob, RowsOf
<1>2. PublicationInv /\ PublicationInv' /\ ApartInv /\ GapInv /\ [Next]_vars => GapInv'
  BY StepGap
<1> QED  BY <1>1, <1>2, Invariance, ApartTheorem, PTL DEF Spec

-----------------------------------------------------------------------------
(* Each step, seen from the conversation.                                   *)
LEMMA ProgressInit == Init => Progress!Init
<1> SUFFICES ASSUME Init  PROVE Progress!Init
  OBVIOUS
<1>1. StoreIds = {} /\ NodeIds = {}  BY DEF Init, StoreIds, NodeIds
<1>2. [i \in StoreIds |-> messages[i].session] = <<>>
  BY <1>1, Len(<<>>) = 0
<1>3. Cardinality({n \in NodeIds : Leaf(n)}) = 0  BY <1>1, FS_EmptySet
<1> QED  BY <1>1, <1>2, <1>3 DEF Init, Progress!Init, EmptyRow

(* A step that adds neither a row nor a leaf.                               *)
SameView ==
    /\ StoreIds' = StoreIds /\ \A i \in StoreIds : messages'[i].session = messages[i].session
    /\ \A s \in Sessions : Covered(s)' = Covered(s)
    /\ {n \in NodeIds : Leaf(n)}' = {n \in NodeIds : Leaf(n)}

Arrived    == [i \in StoreIds |-> messages[i].session]
Summarised == {r \in Sessions \X StoreIds : r[2] \in Covered(r[1])}
Leaves     == Cardinality({n \in NodeIds : Leaf(n)})

LEMMA SeenTheSame ==
    ASSUME SameView
    PROVE  Arrived' = Arrived /\ Summarised' = Summarised /\ Leaves' = Leaves
<1>1. Arrived' = Arrived  BY DEF SameView, Arrived
<1>2. Summarised' = Summarised
  <2>1. Summarised' = {r \in Sessions \X StoreIds' : r[2] \in Covered(r[1])'}
    BY DEF Summarised
  <2> QED  BY <2>1 DEF SameView, Summarised
<1>3. Leaves' = Leaves  BY DEF SameView, Leaves
<1> QED  BY <1>1, <1>2, <1>3

LEMMA QuietStep ==
    ASSUME SameView,
           \/ row'.current = row.current /\ row'.frontier = row.frontier
           \/ row'.current \in Sessions /\ row'.current # row.current /\ row'.frontier \in Nat
           \/ row'.current = NoSession /\ row'.frontier = 0
           \/ /\ row'.current = row.current /\ row.current # NoSession
              /\ row'.frontier > row.frontier
    PROVE  [Progress!Next]_(Progress!vars)
<1>1. Arrived' = Arrived /\ Summarised' = Summarised /\ Leaves' = Leaves
  BY SeenTheSame
<1> QED  BY <1>1 DEF Arrived, Summarised, Leaves, Progress!Next, Progress!Claim,
                     Progress!Release, Progress!Rotate, Progress!vars

LEMMA ArriveStep ==
    ASSUME PublicationInv, NEW e \in Engines, Ingest(e)
    PROVE  Progress!Next
<1>0. PICK s : s = engine[e].session  OBVIOUS
<1>1. PICK m : /\ m.session = s /\ messages' = Append(messages, m)
               /\ UNCHANGED <<nodes, row>>
  <2>1. messages' = Append(messages, [session |-> s, version |-> 0]) /\ UNCHANGED <<nodes, row>>
    BY <1>0 DEF Ingest
  <2> QED  BY <2>1
<1>2. s \in Sessions
  BY <1>0 DEF Ingest, Live, PublicationInv, UnboundIsEmpty, NoEngine, TypeOK, Engine
<1>3. /\ Len(messages) \in Nat /\ StoreIds' = StoreIds \cup {Len(messages) + 1}
      /\ \A i \in StoreIds : messages'[i] = messages[i]
      /\ messages'[Len(messages) + 1] = m /\ Len(messages) + 1 \notin StoreIds
      /\ \A t : Covered(t)' = Covered(t)
  BY <1>1, NewRow
<1>4. Arrived' = Append(Arrived, s)
  <2>1. StoreIds = 1..Len(messages)  BY DEF StoreIds
  <2>2. Arrived \in Seq(Sessions) /\ Len(Arrived) = Len(messages)
    <3>1. Arrived \in [1..Len(messages) -> Sessions]
      <4>1. messages \in Seq(Message)  BY DEF PublicationInv, TypeOK
      <4>2. \A i \in 1..Len(messages) : messages[i] \in Message  BY <4>1, ElementOfSeq
      <4>3. \A i \in 1..Len(messages) : messages[i].session \in Sessions  BY <4>2 DEF Message
      <4> QED  BY <2>1, <4>3 DEF Arrived
    <3> QED  BY <1>3, <3>1, SeqDef, LenProperties
  <2>3. /\ Append(Arrived, s) \in Seq(Sessions)
        /\ Len(Append(Arrived, s)) = Len(messages) + 1
        /\ \A i \in 1..Len(messages) : Append(Arrived, s)[i] = Arrived[i]
        /\ Append(Arrived, s)[Len(messages) + 1] = s
    BY <1>2, <2>2, AppendProperties
  <2>4. Append(Arrived, s) = [i \in 1..(Len(messages) + 1) |-> Append(Arrived, s)[i]]
    BY <2>3, LenProperties
  <2>5. 1..(Len(messages) + 1) = StoreIds'  BY <1>3, <2>1
  <2>6. Arrived' = [i \in StoreIds' |-> messages'[i].session]  BY DEF Arrived
  <2>7. \A i \in StoreIds' : Append(Arrived, s)[i] = messages'[i].session
    <3>1. \A i \in StoreIds : Append(Arrived, s)[i] = messages'[i].session
      BY <1>3, <2>1, <2>3 DEF Arrived
    <3>2. Append(Arrived, s)[Len(messages) + 1] = messages'[Len(messages) + 1].session
      BY <1>1, <1>3, <2>3
    <3> QED  BY <1>3, <3>1, <3>2
  <2> QED  BY <2>4, <2>5, <2>6, <2>7
<1>5. Summarised' = Summarised
  <2>1. Summarised' = {r \in Sessions \X StoreIds' : r[2] \in Covered(r[1])'}
    BY DEF Summarised
  <2>2. \A t : Covered(t) \subseteq StoreIds  BY DEF Covered
  <2>3. Summarised' = {r \in Sessions \X StoreIds' : r[2] \in Covered(r[1])}
    BY <1>3, <2>1
  <2> QED  BY <1>3, <2>2, <2>3 DEF Summarised
<1>6. Leaves' = Leaves  BY <1>1 DEF Leaves, Leaf, NodeIds
<1>7. row' = row  BY <1>1
<1> QED  BY <1>2, <1>4, <1>5, <1>6, <1>7 DEF Arrived, Summarised, Leaves, Progress!Next, Progress!Arrive

LEMMA PublishStep ==
    ASSUME PublicationInv, ApartInv, GapInv, NEW e \in Engines, PublishLeaf(e)
    PROVE  Progress!Next
<1>0. PICK j : j = job[e]  OBVIOUS
<1> DEFINE s == j.session
<1>1. /\ j \in Job /\ CarefulJob(j) /\ j.phase = "model" /\ j.kind \in {"active", "store"}
      /\ j.kind = "store" => j.chunk \subseteq StoreIds
      /\ s \in Sessions
  <2>1. j.phase = "model" /\ j.kind # "nodes" /\ Compressing(e) /\ j \in Running
    BY <1>0 DEF PublishLeaf, Compressing, Running
  <2> QED  BY <1>0, <2>1, OfSession DEF GapInv, Job, Kinds
<1>2. PICK i, text, sources, reached, N, k : LeafStep(e, j, k, i, text, sources, reached, N)
  BY <1>0, LeafIs
<1>3. /\ nodes' = Append(nodes, N) /\ messages' = messages /\ N.depth = 0 /\ N.session = s
      /\ N.sources = sources /\ sources \subseteq RowsOf(s)
      /\ row.current = s /\ row'.current = s
      /\ row.frontier \in Nat /\ row'.frontier \in Nat /\ row'.frontier >= row.frontier
  BY <1>2 DEF LeafStep, Larger
<1>4. /\ StoreIds' = StoreIds
      /\ \A t : Covered(t)' = IF t = s THEN Covered(t) \cup sources ELSE Covered(t)
      /\ {n \in NodeIds : Leaf(n)}' = {n \in NodeIds : Leaf(n)} \cup {Len(nodes) + 1}
  <2>1. sources \cap StoreIds = sources  BY <1>3 DEF RowsOf
  <2>2. PublicationInv => TypeOK  BY DEF PublicationInv
  <2>3. \A t : /\ StoreIds' = StoreIds
               /\ Covered(t)' = IF N.depth = 0 /\ N.session = t
                                THEN Covered(t) \cup (N.sources \cap StoreIds) ELSE Covered(t)
               /\ {n \in NodeIds : Leaf(n)}' = IF N.depth = 0
                                THEN {n \in NodeIds : Leaf(n)} \cup {Len(nodes) + 1}
                                ELSE {n \in NodeIds : Leaf(n)}
    BY <1>3, <2>2, NewNode
  <2> HIDE DEF s
  <2> QED  BY <1>3, <2>1, <2>3
<1>5. Leaves' = Leaves + 1
  <2> DEFINE L == {n \in NodeIds : Leaf(n)}
  <2>1. IsFiniteSet(L) /\ Len(nodes) + 1 \notin L
    <3>1. nodes \in Seq(Node) /\ Len(nodes) \in Nat  BY LenProperties DEF PublicationInv, TypeOK
    <3>2. IsFiniteSet(NodeIds)  BY <3>1, FS_Interval DEF NodeIds
    <3>3. L \subseteq NodeIds /\ Len(nodes) + 1 \notin NodeIds  BY <3>1 DEF NodeIds
    <3> HIDE DEF L
    <3> QED  BY <3>2, <3>3, FS_Subset
  <2>2. Cardinality(L \cup {Len(nodes) + 1}) = Cardinality(L) + 1
    <3> HIDE DEF L
    <3> QED  BY <2>1, FS_AddElement
  <2>3. Leaves' = Cardinality({n \in NodeIds : Leaf(n)}')  BY DEF Leaves
  <2> QED  BY <1>4, <2>2, <2>3 DEF Leaves
<1>6. Arrived' = Arrived  BY <1>3, <1>4 DEF Arrived
<1>7. Summarised' = Summarised \cup ({s} \X sources)
  <2>1. Summarised' = {r \in Sessions \X StoreIds' : r[2] \in Covered(r[1])'}
    BY DEF Summarised
  <2>2. sources \subseteq StoreIds  BY <1>3 DEF RowsOf
  <2>3. Summarised' = {r \in Sessions \X StoreIds :
                          r[2] \in IF r[1] = s THEN Covered(r[1]) \cup sources ELSE Covered(r[1])}
    BY <1>4, <2>1
  <2> HIDE DEF s
  <2> QED  BY <1>1, <2>2, <2>3 DEF Summarised
<1>8. \A i_1 \in sources : i_1 \in DOMAIN Arrived /\ Arrived[i_1] = s
  BY <1>3 DEF Arrived, RowsOf
<1>9. ASSUME NEW r \in DOMAIN Arrived, Arrived[r] = s, row.frontier < r, r <= row'.frontier
      PROVE  <<s, r>> \in Summarised'
  <2>1. r \in RowsOf(s) /\ r \in StoreIds  BY <1>9 DEF Arrived, RowsOf
  <2>2. r \in sources \cup Covered(s)
    BY <1>1, <1>2, <1>9, <2>1, NothingLeft
  <2> QED  BY <1>1, <1>7, <2>1, <2>2 DEF Summarised
<1>10. row.current # NoSession  BY <1>1, <1>3
<1> QED  BY <1>3, <1>5, <1>6, <1>7, <1>8, <1>9, <1>10
         DEF Arrived, Summarised, Leaves, Progress!Next, Progress!Publish

LEMMA ProgressStep ==
    ASSUME PublicationInv, ApartInv, GapInv, [Next]_vars
    PROVE  [Progress!Next]_(Progress!vars)
<1>1. /\ row \in LifecycleRow /\ row.frontier \in Nat
      /\ engine \in [Engines -> Engine]
      /\ \A e \in Engines : engine[e].marker \in Nat
      /\ \A e \in Engines : engine[e].session # NoSession => engine[e].session \in Sessions
  BY DEF PublicationInv, TypeOK, LifecycleRow, Engine
<1>2. ASSUME UNCHANGED <<messages, nodes>>  PROVE SameView
  BY <1>2, SameStore DEF SameView, NodeIds, Leaf
<1>3. ASSUME UNCHANGED <<messages, nodes, row>>  PROVE [Progress!Next]_(Progress!vars)
  BY <1>2, <1>3, QuietStep
<1>4. ASSUME NEW e \in Engines, NEW s \in Sessions, StartSession(e, s)
      PROVE  [Progress!Next]_(Progress!vars)
  <2>1. UNCHANGED <<messages, nodes>> /\ row' = BindRow(row, s)
    BY <1>4 DEF StartSession
  <2>2. /\ row' \in LifecycleRow /\ row'.current = s
        /\ row.current = s => row' = row
    BY <1>1, <2>1, BindRowLemma DEF BindRow
  <2>3. row'.frontier \in Nat  BY <2>2 DEF LifecycleRow
  <2> QED  BY <1>2, <2>1, <2>2, <2>3, QuietStep
<1>5. ASSUME NEW e \in Engines, ResumeInPlace(e)  PROVE [Progress!Next]_(Progress!vars)
  <2>1. /\ UNCHANGED <<messages, nodes>> /\ engine[e].session \in Sessions
        /\ CanResume(row, engine[e].session)
        /\ row' = ResumeRow(row, engine[e].session, engine[e].marker)
    BY <1>1, <1>5 DEF ResumeInPlace
  <2>2. /\ row'.current = engine[e].session
        /\ \/ row' = row
           \/ row.current = NoSession /\ row'.frontier = engine[e].marker
    BY <1>1, <2>1, ResumeRowLemma
  <2> QED  BY <1>1, <1>2, <2>1, <2>2, QuietStep
<1>6. ASSUME NEW e \in Engines, EndSession(e)  PROVE [Progress!Next]_(Progress!vars)
  <2>1. UNCHANGED <<messages, nodes>> /\ engine[e].session \in Sessions
    BY <1>1, <1>6 DEF EndSession, Live, PublicationInv, UnboundIsEmpty, NoEngine
  <2>2. PICK hasData \in BOOLEAN :
            row' \in {row, FinalizeRow(row, engine[e].session, engine[e].marker, hasData)}
    BY <1>6 DEF EndSession
  <2>3. \/ row' = row
        \/ row'.current = NoSession /\ row'.frontier = 0
        \/ row'.current = row.current /\ row'.frontier = row.frontier
    BY <1>1, <2>1, <2>2, FinalizeRowLemma
  <2> QED  BY <1>2, <2>1, <2>3, QuietStep
<1>7. ASSUME NEW e \in Engines, Rotate(e)  PROVE [Progress!Next]_(Progress!vars)
  <2>1. UNCHANGED <<messages, nodes>> /\ row.current = engine[e].session
    BY <1>7 DEF Rotate
  <2>2. engine[e].session \in Sessions
    BY <1>1, <1>7 DEF Rotate, Live, PublicationInv, UnboundIsEmpty, NoEngine
  <2>3. PICK first \in RowsOf(engine[e].session) :
            row.frontier < first - 1 /\ row' = AdvanceRow(row, engine[e].session, first - 1)
    BY <1>7 DEF Rotate
  <2>4. first - 1 \in Nat
    BY <1>1, <2>3 DEF RowsOf, StoreIds
  <2>5. row'.current = row.current /\ row'.frontier >= first - 1
    BY <1>1, <2>1, <2>3, <2>4, AdvanceRowLemma
  <2>6. row'.frontier > row.frontier
    <3>1. AdvanceRow(row, engine[e].session, first - 1) \in LifecycleRow
      BY <1>1, <2>4, AdvanceRowLemma
    <3>2. row'.frontier \in Nat  BY <2>3, <3>1 DEF LifecycleRow
    <3> QED  BY <1>1, <2>3, <2>4, <2>5, <3>2
  <2> QED  BY <1>2, <2>1, <2>2, <2>5, <2>6, NoSessionAssumption, QuietStep
<1>8. ASSUME NEW i \in StoreIds, RewriteRow(i)  PROVE [Progress!Next]_(Progress!vars)
  <2>1. SameView
    <3>1. nodes' = nodes /\ messages' = [messages EXCEPT ![i].version = 1]
      BY <1>8 DEF RewriteRow
    <3>2. \A s : /\ StoreIds' = StoreIds /\ Covered(s)' = Covered(s)
                 /\ \A k \in StoreIds : messages'[k].session = messages[k].session
      BY <3>1, RewrittenRow DEF PublicationInv
    <3> QED  BY <3>1, <3>2 DEF SameView, NodeIds, Leaf
  <2>2. row' = row  BY <1>8 DEF RewriteRow
  <2> QED  BY <2>1, <2>2, QuietStep
<1>9. ASSUME NEW e \in Engines, PublishNodes(e)  PROVE [Progress!Next]_(Progress!vars)
  <2>1. PICK N : nodes' = Append(nodes, N) /\ N.depth # 0
    <3>1. PICK n \in job[e].chunk : nodes' = Append(nodes,
              [session |-> engine[e].session, depth |-> nodes[n].depth + 1,
               sources |-> job[e].chunk, text |-> job[e].chunk])
      BY <1>9 DEF PublishNodes
    <3>2. n \in NodeIds
      BY <1>9 DEF PublishNodes, PublicationInv, FrozenExists, FrozenFrom
    <3>3. nodes[n].depth \in Nat
      <4>1. nodes \in Seq(Node)  BY DEF PublicationInv, TypeOK
      <4>2. nodes[n] \in Node  BY <3>2, <4>1, ElementOfSeq DEF NodeIds
      <4> QED  BY <4>2 DEF Node
    <3> DEFINE N == [session |-> engine[e].session, depth |-> nodes[n].depth + 1,
                     sources |-> job[e].chunk, text |-> job[e].chunk]
    <3>4. nodes' = Append(nodes, N)  BY <3>1
    <3>5. N.depth # 0  BY <3>3
    <3> QED  BY <3>4, <3>5
  <2>2. messages' = messages /\ row' = row  BY <1>9 DEF PublishNodes
  <2>3. \A s : /\ StoreIds' = StoreIds /\ Covered(s)' = Covered(s)
               /\ {n \in NodeIds : Leaf(n)}' = {n \in NodeIds : Leaf(n)}
    BY <2>1, <2>2, NewNode DEF PublicationInv
  <2>4. SameView  BY <2>2, <2>3 DEF SameView
  <2> QED  BY <2>2, <2>4, QuietStep
<1>10. ASSUME NEW e \in Engines, Compaction(e)  PROVE [Progress!Next]_(Progress!vars)
  BY <1>3, <1>9, <1>10, PublishStep
     DEF Compaction, BeginCompress, FreezeLeaf, ChooseNodes, FreezeNodes,
         FailModel, RejectPublication, ReturnContext, store
<1>11. CASE UNCHANGED vars  BY <1>3, <1>11 DEF vars
<1> QED  BY <1>3, <1>4, <1>5, <1>6, <1>7, <1>8, <1>10, <1>11, ArriveStep
         DEF Next, Step, Crash, store

(* When the host starts no session under a running compress, the whole      *)
(* protocol of snapshots, model calls without a lock, hidden prefixes,      *)
(* partial chunks and failures implements the atomic publication of         *)
(* SummaryProgress: a frontier moves only over rows that are in a leaf.     *)
THEOREM ProgressTheorem ==
    ASSUME ~RestartDuringCompress
    PROVE  Spec => ImplementsProgress
<1>1. PublicationInv /\ ApartInv /\ GapInv /\ [Next]_vars => [Progress!Next]_(Progress!vars)
  BY ProgressStep
<1> QED  BY <1>1, ProgressInit, Invariance, ApartTheorem, GapTheorem, PTL
         DEF Spec, ImplementsProgress, Progress!Spec

=============================================================================
