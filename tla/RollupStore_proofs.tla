-------------------------- MODULE RollupStore_proofs ---------------------------
(***************************************************************************)
(* The safety of temporal rollups for any calendar, builders, limits,      *)
(* history and bound on the nodes.                                         *)
(***************************************************************************)
EXTENDS RollupReader, RollupStoreProps, FiniteSetTheorems, SequenceTheorems,
        WellFoundedInduction, TLAPS

USE RollupAssumption

-----------------------------------------------------------------------------
(***************************************************************************)
(* The canonical frontier                                                  *)
(***************************************************************************)
(* The equation of the recursion in Canonical.                             *)
IsAbove(f) ==
    f = [n \in NodeIds |-> LET p == nodes[n].parent
                           IN  IF p \in Stored /\ p > n THEN {p} \cup f[p] ELSE {}]

Above == CHOOSE f : IsAbove(f)

LEMMA CanonicalIs ==
    ASSUME NEW S
    PROVE  Canonical(S) = {n \in S \cap Stored : Above[n] \cap S = {}}
BY DEF Canonical, Above, IsAbove

LEMMA LeastNatural ==
    ASSUME NEW T \in SUBSET Nat, T # {}
    PROVE  \E n \in T : \A m \in T : n <= m
<1>1. PICK n \in T : \A m \in T : ~(<<m, n>> \in OpToRel(<, Nat))
  BY NatLessThanWellFounded, WFMin
<1>2. \A m \in T : ~(m < n)  BY <1>1 DEF OpToRel
<1> QED  BY <1>2

(* The recursion ends: parents are younger.  By the least k for which the  *)
(* equations of the last k nodes have no solution.                         *)
LEMMA AboveExists ==
    ASSUME nodes \in Seq(Node)
    PROVE  \E f : IsAbove(f)
<1> DEFINE L == Len(nodes)
           Last(k) == {n \in 1..L : n > L - k}
           Solves(f, k) == f = [n \in Last(k) |->
                                  IF nodes[n].parent \in Stored /\ nodes[n].parent > n
                                  THEN {nodes[n].parent} \cup f[nodes[n].parent] ELSE {}]
           T == {k \in 0..L : ~\E f : Solves(f, k)}
<1>0. L \in Nat  BY LenProperties
<1>1. ASSUME T # {}  PROVE FALSE
  <2>0. T \in SUBSET Nat /\ T \subseteq 0..L
    <3>1. T \subseteq 0..L  BY Zenon
    <3>2. 0..L \subseteq Nat  BY <1>0
    <3> HIDE DEF T
    <3> QED  BY <3>1, <3>2
  <2>1. PICK k \in T : \A m \in T : k <= m
    BY <1>1, <2>0, LeastNatural, Zenon
  <2>2. CASE k = 0
    <3>1. Last(0) = {}  BY <1>0
    <3>2. Solves([n \in {} |-> {}], 0)  BY <3>1
    <3> QED  BY <2>1, <2>2, <3>2
  <2>3. CASE k # 0
    <3>1. k - 1 \in 0..L /\ k - 1 \notin T
      <4> HIDE DEF T
      <4> QED  BY <1>0, <2>0, <2>1, <2>3
    <3>2. PICK f : Solves(f, k - 1)  BY <3>1, Zenon
    <3> DEFINE g == [n \in Last(k) |->
                       IF nodes[n].parent \in Stored /\ nodes[n].parent > n
                       THEN {nodes[n].parent} \cup f[nodes[n].parent] ELSE {}]
    <3>3. \A n \in Last(k - 1) : n \in Last(k) /\ g[n] = f[n]
      <4>1. \A n \in Last(k - 1) : n \in Last(k)  BY <1>0, <2>1
      <4>2. \A n \in Last(k - 1) :
               f[n] = IF nodes[n].parent \in Stored /\ nodes[n].parent > n
                      THEN {nodes[n].parent} \cup f[nodes[n].parent] ELSE {}
        BY <3>2, Zenon
      <4> QED  BY <4>1, <4>2, Zenon
    <3>4. \A n \in Last(k) : nodes[n].parent \in Stored /\ nodes[n].parent > n
                               => nodes[n].parent \in Last(k - 1)
      BY <1>0, <2>1 DEF Stored, NodeIds
    <3>5. Solves(g, k)
      <4>1. \A n \in Last(k) : nodes[n].parent \in Stored /\ nodes[n].parent > n
                                 => f[nodes[n].parent] = g[nodes[n].parent]
        BY <3>3, <3>4, Zenon
      <4>2. g = [n \in Last(k) |->
                   IF nodes[n].parent \in Stored /\ nodes[n].parent > n
                   THEN {nodes[n].parent} \cup g[nodes[n].parent] ELSE {}]
        BY <4>1, Zenon
      <4> QED  BY <4>2
    <3> QED  BY <2>1, <3>5
  <2> QED  BY <2>2, <2>3
<1>2. PICK f : Solves(f, L)
  <2>1. L \in 0..L  BY <1>0
  <2> QED  BY <1>1, <2>1, Zenon
<1>3. Last(L) = 1..L  BY <1>0
<1>4. f = [n \in 1..L |-> IF nodes[n].parent \in Stored /\ nodes[n].parent > n
                          THEN {nodes[n].parent} \cup f[nodes[n].parent] ELSE {}]
  BY <1>2, <1>3
<1> QED  BY <1>4 DEF IsAbove, NodeIds

-----------------------------------------------------------------------------
(* A node and the one that condensed it stay together unless one of them   *)
(* is deleted, and the parent spans the days of the child.                 *)
NodesOK ==
    /\ nodes \in Seq(Node)
    /\ \A n \in NodeIds :
          LET p == nodes[n].parent
          IN  p # 0 => /\ p \in NodeIds /\ n < p
                       /\ nodes[n].days \subseteq nodes[p].days
                       /\ n \in Stored /\ p \in Stored => nodes[n].at = nodes[p].at

(* The frontier of the session, and what a period is made of, without the  *)
(* recursion: the parent decides.                                          *)
Frontier(ns) ==
    {n \in 1..Len(ns) :
        /\ ns[n].at = "here"
        /\ ~(ns[n].parent \in 1..Len(ns) /\ ns[ns[n].parent].at # "deleted")}

WantedIn(ns, p) == {n \in Frontier(ns) : ns[n].days \cap p # {}}

LEMMA FrontierIs ==
    ASSUME NodesOK
    PROVE  /\ Canonical(Here) = Frontier(nodes)
           /\ \A S \in SUBSET Frontier(nodes) : Canonical(S) = S
<1> USE DEF NodesOK
<1>1. \E f : IsAbove(f)  BY AboveExists
<1>2. IsAbove(Above)  BY <1>1 DEF Above
<1>3. /\ \A n \in NodeIds : nodes[n].parent \in Nat
      /\ 0 \notin NodeIds
  BY DEF NodeIds, Node
<1>4. ASSUME NEW n \in NodeIds, nodes[n].parent \notin Stored
      PROVE  Above[n] = {}
  BY <1>2, <1>4 DEF IsAbove
<1>5. ASSUME NEW n \in NodeIds, nodes[n].parent \in Stored
      PROVE  nodes[n].parent \in Above[n]
  <2>1. nodes[n].parent > n  BY <1>3, <1>5 DEF Stored, NodeIds
  <2> QED  BY <1>2, <1>5, <2>1 DEF IsAbove
<1>6. Frontier(nodes) = {n \in Here : nodes[n].parent \notin Stored}
  BY DEF Frontier, Here, Stored, NodeIds
<1>7. Canonical(Here) = Frontier(nodes)
  <2>1. Here \subseteq Stored /\ Stored \subseteq NodeIds  BY DEF Here, Stored
  <2>2. ASSUME NEW n \in Here, nodes[n].parent \in Stored
        PROVE  nodes[n].parent \in Here
    BY <1>3, <2>1, <2>2 DEF Here, Stored
  <2>3. \A n \in Here : Above[n] \cap Here = {} <=> nodes[n].parent \notin Stored
    BY <1>4, <1>5, <2>1, <2>2
  <2>4. Canonical(Here) = {n \in Here \cap Stored : Above[n] \cap Here = {}}
    BY CanonicalIs
  <2> QED  BY <1>6, <2>1, <2>3, <2>4
<1>8. ASSUME NEW S \in SUBSET Frontier(nodes)
      PROVE  Canonical(S) = S
  <2>1. S \subseteq Stored /\ S \subseteq NodeIds
    BY <1>6 DEF Here, Stored
  <2>2. \A n \in S : Above[n] = {}  BY <1>4, <1>6, <2>1
  <2>3. Canonical(S) = {n \in S \cap Stored : Above[n] \cap S = {}}
    BY CanonicalIs
  <2> QED  BY <2>1, <2>2, <2>3
<1> QED  BY <1>7, <1>8

LEMMA WantedIs == NodesOK => \A p : Wanted(p) = WantedIn(nodes, p)
BY FrontierIs DEF Wanted, Touching, WantedIn

-----------------------------------------------------------------------------
(***************************************************************************)
(* Types                                                                   *)
(***************************************************************************)
LEMMA PeriodsAre ==
    /\ \A d \in Days : {d} \in Periods
    /\ \A p \in Periods : p \subseteq Days
    /\ Aggregates \subseteq Periods
    /\ IsFiniteSet(Aggregates) /\ IsFiniteSet(Periods)
<1>1. Calendar \in [1..Len(Calendar) -> SUBSET Days] /\ Len(Calendar) \in Nat
  BY LenProperties
<1>2. Aggregates \subseteq SUBSET Days
  BY <1>1 DEF Aggregates
<1>3. IsFiniteSet(Aggregates)
  <2>1. IsFiniteSet(1..Len(Calendar))  BY <1>1, FS_Interval
  <2>2. Calendar \in Surjection(1..Len(Calendar), Aggregates)
    BY <1>1 DEF Surjection, Aggregates
  <2> QED  BY <2>1, <2>2, FS_Surjection
<1>4. IsFiniteSet({{d} : d \in Days})
  <2>1. IsFiniteSet(Days)  BY FS_Interval DEF Days
  <2>2. [d \in Days |-> {d}] \in Surjection(Days, {{d} : d \in Days})
    BY DEF Surjection
  <2> QED  BY <2>1, <2>2, FS_Surjection
<1>5. IsFiniteSet(Periods)  BY <1>3, <1>4, FS_Union DEF Periods
<1> QED  BY <1>2, <1>3, <1>5 DEF Periods

LEMMA OrdersAre ==
    ASSUME NEW S \in SUBSET Periods
    PROVE  Orders(S) \subseteq Seq(Periods)
<1>1. IsFiniteSet(S)  BY PeriodsAre, FS_Subset
<1>2. Cardinality(S) \in Nat  BY <1>1, FS_CardinalityType
<1>3. \A s \in Orders(S) : s \in [1..Cardinality(S) -> Periods]
  BY DEF Orders
<1> QED  BY <1>2, <1>3, IsASeq

LEMMA LimitedIs ==
    ASSUME NEW s \in Seq(Periods)
    PROVE  Limited(s) \in Seq(Periods)
<1>1. Len(s) \in Nat  BY LenProperties
<1> DEFINE n == IF Len(s) < BuildsPerPass THEN Len(s) ELSE BuildsPerPass
<1>2. n \in 0..Len(s)  BY <1>1
<1>3. SubSeq(s, 1, n) \in Seq(Periods)
  <2>1. n = 0 \/ n \in 1..Len(s)  BY <1>1, <1>2
  <2> HIDE DEF n
  <2>2. CASE n = 0  BY <1>1, <2>2, SubSeqEmpty, EmptySeq
  <2>3. CASE n \in 1..Len(s)  BY <1>1, <2>3, SubSeqProperties
  <2> QED  BY <2>1, <2>2, <2>3
<1> QED  BY <1>3 DEF Limited

LEMMA TargetsAre ==
    ASSUME NEW d \in Days
    PROVE  Targets(d) \subseteq Seq(Periods)
<1> DEFINE over == {p \in Aggregates : d \in p}
<1>1. {d} \in Periods /\ over \in SUBSET Periods  BY PeriodsAre
<1>2. <<{d}>> \in Seq(Periods) /\ \A p \in over : <<p>> \in Seq(Periods)
  BY <1>1
<1>3. \A o \in Orders(over) : <<{d}>> \o o \in Seq(Periods)
  BY <1>1, <1>2, OrdersAre, ConcatProperties
<1> QED  BY <1>2, <1>3 DEF Targets

LEMMA StaleOfIs ==
    ASSUME NEW P \in SUBSET Periods
    PROVE  StaleOf(P) \subseteq Seq(Periods) /\ DueOf(P) \subseteq Seq(Periods)
<1>1. \A status : With(status, P) \in SUBSET Periods  BY DEF With
<1>2. StaleOf(P) \subseteq Seq(Periods)  BY <1>1, OrdersAre DEF StaleOf
<1>3. \A S \in SUBSET With("failed", P) : Orders(S) \subseteq Seq(Periods)
  BY <1>1, OrdersAre
<1> QED  BY <1>2, <1>3 DEF DueOf

LEMMA ListIs ==
    ASSUME TypeOK, NEW b \in Builders, List(b)
    PROVE  todo' \in [Builders -> Seq(Periods)]
<1>1. PICK x \in StaleOf(Periods \ Aggregates), y \in StaleOf(Aggregates),
           r \in DueOf(Periods \ Aggregates), s \in DueOf(Aggregates) :
         todo' = [todo EXCEPT ![b] = Limited(x \o r \o y \o s)]
  BY DEF List
<1>2. /\ x \in Seq(Periods) /\ y \in Seq(Periods)
      /\ r \in Seq(Periods) /\ s \in Seq(Periods)
  BY StaleOfIs, PeriodsAre
<1>3. x \o r \o y \o s \in Seq(Periods)
  BY <1>2, ConcatProperties
<1>4. Limited(x \o r \o y \o s) \in Seq(Periods)  BY <1>3, LimitedIs
<1> QED  BY <1>1, <1>4 DEF TypeOK

LEMMA FiniteMaximum ==
    ASSUME NEW S \in SUBSET Nat, IsFiniteSet(S), S # {}
    PROVE  \E m \in S : \A n \in S : n <= m
<1> DEFINE Bad(T) == T # {} /\ ~\E m \in T : \A n \in T : n <= m
           K == {Cardinality(T) : T \in {U \in SUBSET S : Bad(U)}}
<1>1. \A T \in SUBSET S : IsFiniteSet(T) /\ Cardinality(T) \in Nat
  BY FS_Subset, FS_CardinalityType
<1>2. ASSUME K # {}  PROVE FALSE
  <2>1. K \in SUBSET Nat  BY <1>1
  <2>2. PICK k \in K : \A j \in K : k <= j  BY <1>2, <2>1, LeastNatural
  <2>3. PICK T \in SUBSET S : Bad(T) /\ k = Cardinality(T)  BY <2>2
  <2>4. PICK x \in T : TRUE  BY <2>3
  <2> DEFINE U == T \ {x}
  <2>5. U \in SUBSET S /\ Cardinality(U) = k - 1 /\ k \in Nat
    BY <1>1, <2>3, <2>4, FS_RemoveElement
  <2>6. ~Bad(U)
    <3>1. Bad(U) => k - 1 \in K  BY <2>5
    <3>2. k - 1 \notin K
      <4> HIDE DEF K
      <4> QED  BY <2>2, <2>5
    <3> QED  BY <3>1, <3>2
  <2>7. CASE U = {}
    <3>1. T = {x} /\ x \in Nat  BY <2>4, <2>7
    <3> QED  BY <2>3, <3>1
  <2>8. CASE U # {}
    <3>1. PICK m \in U : \A n \in U : n <= m  BY <2>6, <2>8
    <3>2. m \in Nat /\ x \in Nat /\ \A n \in T : n \in Nat /\ (n \in U \/ n = x)
      BY <2>4, <2>5, <3>1
    <3>3. CASE x <= m
      <4>1. m \in T /\ \A n \in T : n <= m  BY <3>1, <3>2, <3>3
      <4> QED  BY <2>3, <4>1
    <3>4. CASE m <= x
      <4>1. \A n \in T : n <= x
        <5>1. ASSUME NEW n \in U  PROVE n <= x
          <6>1. n \in Nat /\ n <= m  BY <3>1, <3>2
          <6> QED  BY <3>2, <3>4, <6>1
        <5> QED  BY <3>2, <5>1
      <4> QED  BY <2>3, <2>4, <4>1
    <3> QED  BY <3>2, <3>3, <3>4
  <2> QED  BY <2>7, <2>8
<1>3. ~Bad(S)
  <2>1. Bad(S) => Cardinality(S) \in K  OBVIOUS
  <2> HIDE DEF Bad
  <2> QED  BY <1>2, <2>1
<1> QED  BY <1>3

(* The triggers record one event for every node that is given to them.     *)
LEMMA AnnouncedAre ==
    ASSUME outbox \subseteq Event, IsFiniteSet(outbox),
           NEW S \in SUBSET Nat, IsFiniteSet(S), NEW D \in [S -> SUBSET Days]
    PROVE  /\ Announced(D) \subseteq Event /\ IsFiniteSet(Announced(D))
           /\ \A e \in Announced(D) : e.left = e.days
           /\ \A n \in S : \E e \in Announced(D) : e.days = D[n]
<1> DEFINE latest == {e.id : e \in outbox} \cup {0}
           base == CHOOSE i \in latest : \A k \in latest : k <= i
           new(n) == [id |-> base + Cardinality({m \in S : m <= n}),
                      days |-> D[n], left |-> D[n]]
<1>1. latest \in SUBSET Nat /\ IsFiniteSet(latest)
  <2>1. IsFiniteSet({e.id : e \in outbox})
    <3>1. [e \in outbox |-> e.id] \in Surjection(outbox, {e.id : e \in outbox})
      BY DEF Surjection
    <3> QED  BY <3>1, FS_Surjection
  <2>2. IsFiniteSet(latest)  BY <2>1, FS_AddElement
  <2> QED  BY <2>2 DEF Event
<1>2. base \in Nat
  <2>1. \E i \in latest : \A k \in latest : k <= i
    <3> HIDE DEF latest
    <3>1. latest # {}  BY DEF latest
    <3> QED  BY <1>1, <3>1, FiniteMaximum
  <2> QED  BY <1>1, <2>1
<1>3. \A n \in S : Cardinality({m \in S : m <= n}) \in Nat
  BY FS_Subset, FS_CardinalityType
<1>4. Announced(D) = {new(n) : n \in S}
  BY DEF Announced
<1>5. \A n \in S : new(n) \in Event
  <2> HIDE DEF base
  <2> QED  BY <1>2, <1>3 DEF Event
<1>6. IsFiniteSet({new(n) : n \in S})
  <2> HIDE DEF new
  <2>1. [n \in S |-> new(n)] \in Surjection(S, {new(n) : n \in S})
    BY DEF Surjection
  <2> QED  BY <2>1, FS_Surjection
<1>7. \A n \in S : new(n).days = D[n] /\ new(n).left = D[n]
  OBVIOUS
<1> HIDE DEF new
<1> QED  BY <1>4, <1>5, <1>6, <1>7
-----------------------------------------------------------------------------
(***************************************************************************)
(* The invariant                                                           *)
(***************************************************************************)
(* A day of the period that has still to be marked.  Pending(p) looks at   *)
(* the whole span of an event, so it holds longer.                         *)
Touched(p) == \E e \in outbox : e.left \cap p # {}

(* A period is ready beside an event over it only while none of the days   *)
(* they share has been marked.                                             *)
OutboxOK ==
    /\ IsFiniteSet(outbox)
    /\ \A e \in outbox :
          /\ e.left \subseteq e.days
          /\ \A p \in Periods : rollup[p].status = "ready" => e.days \cap p \subseteq e.left

(* What a row says of a period nobody has to mark.                         *)
RowsOK ==
    \A p \in Periods : ~Touched(p) => (rollup[p].status = "ready" => rollup[p].sources = Wanted(p))

Building(b) == job[b].phase \notin {"idle", "reclaim", "list"}

(* What a build that still has its claim knows of a period nobody has to   *)
(* mark, step by step.                                                     *)
KnowsDays(b) ==
    job[b].phase \in {"content", "lineage"} =>
        /\ \A d \in job[b].ready : rollup[{d}].sources = Wanted({d})
        /\ job[b].phase = "lineage" =>
              \A d \in job[b].period \ job[b].ready : Wanted({d}) = {}

KnowsSources(b) ==
    /\ job[b].phase \in {"texts", "model"} => job[b].sources = Wanted(job[b].period)
    /\ job[b].phase = "resolve" => Wanted(job[b].period) = {}

JobOK(b) ==
    Building(b) =>
        /\ job[b].period \in Periods
        /\ job[b].phase \in {"content", "lineage"} =>
              job[b].period \in Aggregates /\ job[b].ready \subseteq job[b].period
        /\ Owns(b) /\ ~Touched(job[b].period) => KnowsDays(b) /\ KnowsSources(b)

RollupInv ==
    /\ TypeOK /\ NodesOK /\ OutboxOK /\ RowsOK
    /\ \A b \in Builders : JobOK(b)

-----------------------------------------------------------------------------
(***************************************************************************)
(* What a change of the nodes does                                         *)
(***************************************************************************)
(* Whatever the change, a period is made of the same nodes as before, or a *)
(* new event lies over it.                                                 *)
NodesChange ==
    /\ UNCHANGED <<rollup, todo, job>>
    /\ NodesOK'
    /\ outbox \subseteq outbox' /\ outbox' \subseteq Event /\ IsFiniteSet(outbox')
    /\ \A e \in outbox' \ outbox : e.left = e.days
    /\ \A p \in Periods : \/ Wanted(p)' = Wanted(p)
                          \/ \E e \in outbox' : e.left = e.days /\ e.days \cap p # {}

LEMMA WantedIsNext == NodesOK' => \A p : Wanted(p)' = WantedIn(nodes', p)
<1>1. NodesOK => \A p : Wanted(p) = WantedIn(nodes, p)  BY WantedIs
<1>2. (NodesOK => \A p : Wanted(p) = WantedIn(nodes, p))'  BY <1>1, PTL
<1> QED  BY <1>2 DEF WantedIn, Frontier

LEMMA IdsAreFinite ==
    ASSUME NodesOK
    PROVE  Len(nodes) \in Nat /\ NodeIds \in SUBSET Nat /\ IsFiniteSet(NodeIds)
<1>1. Len(nodes) \in Nat  BY LenProperties DEF NodesOK
<1> QED  BY <1>1, FS_Interval DEF NodeIds

LEMMA AnnounceIs ==
    ASSUME RollupInv, NEW S \in SUBSET Nat, IsFiniteSet(S),
           NEW D \in [S -> SUBSET Days], Announce(D)
    PROVE  /\ outbox \subseteq outbox' /\ outbox' \subseteq Event /\ IsFiniteSet(outbox')
           /\ \A e \in outbox' \ outbox : e.left = e.days
           /\ \A n \in S : \E e \in outbox' : e.left = e.days /\ e.days = D[n]
<1>1. outbox \subseteq Event /\ IsFiniteSet(outbox)
  BY DEF RollupInv, TypeOK, OutboxOK
<1>2. outbox' = outbox \cup Announced(D)  BY DEF Announce
<1>3. /\ Announced(D) \subseteq Event /\ IsFiniteSet(Announced(D))
      /\ \A e \in Announced(D) : e.left = e.days
      /\ \A n \in S : \E e \in Announced(D) : e.days = D[n]
  BY <1>1, AnnouncedAre
<1>4. IsFiniteSet(outbox')  BY <1>1, <1>2, <1>3, FS_Union
<1> QED  BY <1>1, <1>2, <1>3, <1>4

LEMMA LeafChange ==
    ASSUME RollupInv, NEW a \in Days, NEW b \in Days, PublishLeaf(a, b)
    PROVE  NodesChange
<1> DEFINE new == Len(nodes) + 1
           leaf == Leaf(a, b)
<1>1. Len(nodes) \in Nat /\ nodes \in Seq(Node)
  BY IdsAreFinite DEF RollupInv, NodesOK
<1>2. leaf \in Node /\ leaf.days = Span(a, b) /\ leaf.parent = 0 /\ leaf.at = "here"
  BY DEF Leaf, Node, Span
<1>3. /\ nodes' \in Seq(Node) /\ Len(nodes') = new
      /\ \A n \in NodeIds : nodes'[n] = nodes[n]
      /\ nodes'[new] = leaf
  <2> HIDE DEF leaf
  <2> QED  BY <1>1, <1>2, AppendProperties DEF PublishLeaf, NodeIds, leaf
<1>4. NodeIds' = NodeIds \cup {new} /\ new \notin NodeIds
  BY <1>1, <1>3 DEF NodeIds
<1>5. NodesOK'
  <2> HIDE DEF leaf
  <2>1. \A n \in NodeIds : nodes[n].parent # new /\ nodes[n].parent \in Nat
    BY <1>1, <1>4 DEF RollupInv, NodesOK, NodeIds, Node
  <2>2. \A n \in NodeIds : n \in Stored' <=> n \in Stored
    BY <1>3, <1>4 DEF Stored
  <2>3. \A n \in NodeIds :
          LET p == nodes[n].parent
          IN  p # 0 => /\ p \in NodeIds /\ n < p
                       /\ nodes[n].days \subseteq nodes[p].days
                       /\ n \in Stored /\ p \in Stored => nodes[n].at = nodes[p].at
    BY DEF RollupInv, NodesOK
  <2>4. ASSUME NEW n \in NodeIds', nodes'[n].parent # 0
        PROVE  LET p == nodes'[n].parent
               IN  /\ p \in NodeIds' /\ n < p
                   /\ nodes'[n].days \subseteq nodes'[p].days
                   /\ n \in Stored' /\ p \in Stored' => nodes'[n].at = nodes'[p].at
    <3>1. n \in NodeIds /\ nodes'[n] = nodes[n]  BY <1>2, <1>3, <1>4, <2>4
    <3>2. nodes[n].parent \in NodeIds  BY <2>3, <2>4, <3>1
    <3>3. nodes'[nodes[n].parent] = nodes[nodes[n].parent]  BY <1>3, <3>2
    <3> QED  BY <1>4, <2>2, <2>3, <2>4, <3>1, <3>2, <3>3
  <2> QED  BY <1>3, <2>4 DEF NodesOK
<1>6. Frontier(nodes') = Frontier(nodes) \cup {new}
  <2> HIDE DEF leaf
  <2>1. \A n \in NodeIds : nodes[n].parent # new
    BY <1>1, <1>4 DEF RollupInv, NodesOK, NodeIds
  <2>2. 0 \notin NodeIds'  BY <1>1, <1>4 DEF NodeIds
  <2> QED  BY <1>2, <1>3, <1>4, <2>1, <2>2 DEF Frontier, NodeIds
<1>7. \A p : p \cap Span(a, b) = {} => Wanted(p)' = Wanted(p)
  <2> HIDE DEF leaf
  <2>1. \A p : Wanted(p) = WantedIn(nodes, p) /\ Wanted(p)' = WantedIn(nodes', p)
    BY <1>5, WantedIs, WantedIsNext DEF RollupInv
  <2>2. \A n \in Frontier(nodes) : n \in NodeIds  BY DEF Frontier, NodeIds
  <2>3. \A p : p \cap Span(a, b) = {} => WantedIn(nodes', p) = WantedIn(nodes, p)
    BY <1>2, <1>3, <1>6, <2>2 DEF WantedIn
  <2> QED  BY <2>1, <2>3
<1>8. /\ {new} \in SUBSET Nat /\ IsFiniteSet({new})
      /\ [n \in {new} |-> Span(a, b)] \in [{new} -> SUBSET Days]
      /\ Announce([n \in {new} |-> Span(a, b)])
  <2>1. Announce([n \in {new} |-> Span(a, b)])  BY DEF PublishLeaf
  <2>2. Span(a, b) \in SUBSET Days  BY DEF Span
  <2>3. new \in Nat  BY <1>1
  <2> HIDE DEF new
  <2> QED  BY <2>1, <2>2, <2>3, FS_Singleton
<1>9. /\ outbox \subseteq outbox' /\ outbox' \subseteq Event /\ IsFiniteSet(outbox')
      /\ \A e \in outbox' \ outbox : e.left = e.days
      /\ \E e \in outbox' : e.left = e.days /\ e.days = Span(a, b)
  <2> DEFINE D == [n \in {new} |-> Span(a, b)]
  <2>1. /\ outbox \subseteq outbox' /\ outbox' \subseteq Event /\ IsFiniteSet(outbox')
        /\ \A e \in outbox' \ outbox : e.left = e.days
        /\ \A n \in {new} : \E e \in outbox' : e.left = e.days /\ e.days = D[n]
    <3> HIDE DEF D
    <3> QED  BY <1>8, AnnounceIs DEF D
  <2> QED  BY <2>1
<1> QED  BY <1>5, <1>7, <1>9 DEF NodesChange, PublishLeaf

LEMMA ParentChange ==
    ASSUME RollupInv, NEW S \in SUBSET NodeIds, PublishParent(S)
    PROVE  NodesChange
<1> DEFINE new == Len(nodes) + 1
           all == UNION {nodes[n].days : n \in S}
           hull == {d \in Days : \E i, k \in all : i <= d /\ d <= k}
           children == [n \in NodeIds |-> IF n \in S THEN [nodes[n] EXCEPT !.parent = new]
                                          ELSE nodes[n]]
           parent == [days |-> hull, parent |-> 0, at |-> "here"]
<1>1. Len(nodes) \in Nat /\ nodes \in Seq(Node) /\ NodeIds = 1..Len(nodes)
  BY IdsAreFinite DEF RollupInv, NodesOK, NodeIds
<1>2. parent \in Node /\ hull \in SUBSET Days /\ new \in Nat
  BY <1>1 DEF Node
<1>3. \A n \in NodeIds : nodes[n] \in Node  BY <1>1
<1>4. children \in [1..Len(nodes) -> Node]
  BY <1>1, <1>2, <1>3 DEF Node
<1>5. children \in Seq(Node) /\ Len(children) = Len(nodes)
  BY <1>1, <1>4, IsASeq, LenProperties
<1>6. \A n \in NodeIds : /\ children[n].days = nodes[n].days
                         /\ children[n].at = nodes[n].at
                         /\ children[n].parent = IF n \in S THEN new ELSE nodes[n].parent
  BY <1>1, <1>3 DEF Node
<1>7. parent.days = hull /\ parent.parent = 0 /\ parent.at = "here"
  OBVIOUS
<1>8. /\ nodes' \in Seq(Node) /\ Len(nodes') = new
      /\ \A n \in NodeIds : nodes'[n] = children[n]
      /\ nodes'[new] = parent
  <2>1. nodes' = Append(children, parent)  BY DEF PublishParent
  <2> HIDE DEF children, parent
  <2> QED  BY <1>1, <1>2, <1>5, <2>1, AppendProperties
<1>9. NodeIds' = NodeIds \cup {new} /\ new \notin NodeIds
  BY <1>1, <1>8 DEF NodeIds
<1>10. \A n \in S : nodes[n].days \subseteq hull /\ nodes[n].at = "here"
  <2>1. S \subseteq Frontier(nodes)
    BY FrontierIs DEF RollupInv, PublishParent
  <2>2. \A n \in S : nodes[n].days \subseteq Days  BY <1>3 DEF Node
  <2>3. \A d \in Days : d <= d  BY DEF Days
  <2> QED  BY <2>1, <2>2, <2>3 DEF Frontier
<1> HIDE DEF new, hull, children, parent
<1>11. \A n \in NodeIds :
         LET p == nodes[n].parent
         IN  p # 0 => /\ p \in NodeIds /\ n < p
                      /\ nodes[n].days \subseteq nodes[p].days
                      /\ n \in Stored /\ p \in Stored => nodes[n].at = nodes[p].at
  BY DEF RollupInv, NodesOK
<1>12. \A n \in NodeIds : n \in Stored' <=> n \in Stored
  BY <1>6, <1>8, <1>9 DEF Stored
<1>13. NodesOK'
  <2>1. ASSUME NEW n \in NodeIds', nodes'[n].parent # 0
        PROVE  LET p == nodes'[n].parent
               IN  /\ p \in NodeIds' /\ n < p
                   /\ nodes'[n].days \subseteq nodes'[p].days
                   /\ n \in Stored' /\ p \in Stored' => nodes'[n].at = nodes'[p].at
    <3>1. n \in NodeIds  BY <1>7, <1>8, <1>9, <2>1
    <3>2. CASE n \in S
      <4>1. nodes'[n].parent = new /\ n < new
        BY <1>1, <1>6, <1>8, <3>1, <3>2 DEF new
      <4> QED  BY <1>6, <1>7, <1>8, <1>9, <1>10, <3>1, <3>2, <4>1
    <3>3. CASE n \notin S
      <4>1. nodes'[n].parent = nodes[n].parent  BY <1>6, <1>8, <3>1, <3>3
      <4>2. nodes[n].parent \in NodeIds  BY <1>11, <2>1, <3>1, <4>1
      <4> QED  BY <1>6, <1>8, <1>9, <1>11, <1>12, <2>1, <3>1, <4>1, <4>2
    <3> QED  BY <3>2, <3>3
  <2> QED  BY <1>8, <2>1 DEF NodesOK
<1>14. Frontier(nodes') = (Frontier(nodes) \ S) \cup {new}
  <2>1. 1..Len(nodes') = NodeIds \cup {new} /\ 1..Len(nodes) = NodeIds
    BY <1>1, <1>8, <1>9 DEF NodeIds
  <2>2. \A n \in NodeIds : nodes[n].parent # new  BY <1>1, <1>9, <1>11 DEF new
  <2>3. 0 \notin NodeIds /\ 0 # new  BY <1>1 DEF new
  <2>4. \A n \in NodeIds : n \in Frontier(nodes') <=> n \in Frontier(nodes) \ S
    <3> SUFFICES ASSUME NEW n \in NodeIds
                 PROVE  n \in Frontier(nodes') <=> n \in Frontier(nodes) \ S
      OBVIOUS
    <3>1. CASE n \in S
      BY <1>6, <1>7, <1>8, <2>1, <3>1 DEF Frontier
    <3>2. CASE n \notin S
      <4>1. nodes'[n].at = nodes[n].at /\ nodes'[n].parent = nodes[n].parent
        BY <1>6, <1>8, <3>2
      <4>2. \A q \in NodeIds : nodes'[q].at = nodes[q].at  BY <1>6, <1>8
      <4>3. nodes[n].parent # new  BY <2>2
      <4> QED  BY <2>1, <3>2, <4>1, <4>2, <4>3 DEF Frontier
    <3> QED  BY <3>1, <3>2
  <2>5. new \in Frontier(nodes')  BY <1>7, <1>8, <2>1, <2>3 DEF Frontier
  <2>6. Frontier(nodes') \subseteq NodeIds \cup {new} /\ Frontier(nodes) \subseteq NodeIds
    BY <2>1 DEF Frontier
  <2> QED  BY <2>4, <2>5, <2>6
<1>15. \A p : p \cap hull = {} => Wanted(p)' = Wanted(p)
  <2>1. \A p : Wanted(p) = WantedIn(nodes, p) /\ Wanted(p)' = WantedIn(nodes', p)
    BY <1>13, WantedIs, WantedIsNext DEF RollupInv
  <2>2. \A n \in Frontier(nodes) : n \in NodeIds  BY <1>1 DEF Frontier
  <2>3. ASSUME NEW p, p \cap hull = {}
        PROVE  WantedIn(nodes', p) = WantedIn(nodes, p)
    <3>1. nodes'[new].days \cap p = {}  BY <1>7, <1>8, <2>3
    <3>2. \A n \in S : nodes[n].days \cap p = {}  BY <1>10, <2>3
    <3>3. \A n \in Frontier(nodes) : nodes'[n].days = nodes[n].days
      BY <1>6, <1>8, <2>2
    <3> QED  BY <1>14, <3>1, <3>2, <3>3 DEF WantedIn
  <2> QED  BY <2>1, <2>3
<1>16. /\ outbox \subseteq outbox' /\ outbox' \subseteq Event /\ IsFiniteSet(outbox')
       /\ \A e \in outbox' \ outbox : e.left = e.days
       /\ \E e \in outbox' : e.left = e.days /\ e.days = hull
  <2> DEFINE D == [n \in {new} |-> hull]
  <2>1. {new} \in SUBSET Nat /\ IsFiniteSet({new}) /\ D \in [{new} -> SUBSET Days]
    BY <1>2, FS_Singleton
  <2>2. Announce(D)  BY DEF PublishParent, new, hull
  <2>3. /\ outbox \subseteq outbox' /\ outbox' \subseteq Event /\ IsFiniteSet(outbox')
        /\ \A e \in outbox' \ outbox : e.left = e.days
        /\ \A n \in {new} : \E e \in outbox' : e.left = e.days /\ e.days = D[n]
    <3> HIDE DEF D
    <3> QED  BY <2>1, <2>2, AnnounceIs
  <2> QED  BY <2>3
<1> QED  BY <1>13, <1>15, <1>16 DEF NodesChange, PublishParent

(* When no node is added, an event lies over every node that enters or     *)
(* leaves the frontier.                                                    *)
LEMMA BatchChange ==
    ASSUME RollupInv, NodesOK', UNCHANGED <<rollup, todo, job>>,
           Len(nodes') = Len(nodes),
           \A n \in NodeIds : nodes'[n].days = nodes[n].days,
           NEW S \in SUBSET NodeIds, NEW D \in [S -> SUBSET Days], Announce(D),
           \A n \in NodeIds : \/ n \in Frontier(nodes) <=> n \in Frontier(nodes')
                              \/ \E m \in S : nodes[n].days \subseteq D[m]
    PROVE  NodesChange
<1>1. S \in SUBSET Nat /\ IsFiniteSet(S)
  BY IdsAreFinite, FS_Subset DEF RollupInv
<1>2. /\ outbox \subseteq outbox' /\ outbox' \subseteq Event /\ IsFiniteSet(outbox')
      /\ \A e \in outbox' \ outbox : e.left = e.days
      /\ \A n \in S : \E e \in outbox' : e.left = e.days /\ e.days = D[n]
  BY <1>1, AnnounceIs
<1>3. ASSUME NEW p \in Periods, Wanted(p)' # Wanted(p)
      PROVE  \E e \in outbox' : e.left = e.days /\ e.days \cap p # {}
  <2>1. WantedIn(nodes', p) # WantedIn(nodes, p)
    BY <1>3, WantedIs, WantedIsNext DEF RollupInv
  <2>2. Frontier(nodes) \subseteq NodeIds /\ Frontier(nodes') \subseteq NodeIds
    BY DEF Frontier, NodeIds
  <2>3. PICK n \in NodeIds : /\ nodes[n].days \cap p # {}
                             /\ ~(n \in Frontier(nodes) <=> n \in Frontier(nodes'))
    BY <2>1, <2>2 DEF WantedIn
  <2>4. PICK m \in S : nodes[n].days \subseteq D[m]  BY <2>3
  <2> QED  BY <1>2, <2>3, <2>4
<1> QED  BY <1>2, <1>3 DEF NodesChange

LEMMA DeleteChange ==
    ASSUME RollupInv, NEW S \in SUBSET NodeIds, DeleteNodes(S)
    PROVE  NodesChange
<1> DEFINE D == [n \in S \cap Here |-> nodes[n].days]
<1>1. Len(nodes) \in Nat /\ nodes \in Seq(Node) /\ NodeIds = 1..Len(nodes)
  BY IdsAreFinite DEF RollupInv, NodesOK, NodeIds
<1>2. \A n \in NodeIds : nodes[n] \in Node  BY <1>1
<1>3. /\ nodes' \in [1..Len(nodes) -> Node]
      /\ \A n \in NodeIds : /\ nodes'[n].days = nodes[n].days
                            /\ nodes'[n].parent = nodes[n].parent
                            /\ nodes'[n].at = IF n \in S THEN "deleted" ELSE nodes[n].at
  BY <1>1, <1>2 DEF DeleteNodes, Node
<1>4. nodes' \in Seq(Node) /\ Len(nodes') = Len(nodes) /\ NodeIds' = NodeIds
  BY SMTT(30), <1>1, <1>3, IsASeq, LenProperties DEF NodeIds
<1>5. \A n \in NodeIds :
        LET p == nodes[n].parent
        IN  p # 0 => /\ p \in NodeIds /\ n < p
                     /\ nodes[n].days \subseteq nodes[p].days
                     /\ n \in Stored /\ p \in Stored => nodes[n].at = nodes[p].at
  BY DEF RollupInv, NodesOK
<1>6. \A n \in NodeIds : n \in Stored' <=> n \in Stored \ S
  BY <1>3, <1>4 DEF Stored
<1>7. NodesOK'
  <2>1. ASSUME NEW n \in NodeIds', nodes'[n].parent # 0
        PROVE  LET p == nodes'[n].parent
               IN  /\ p \in NodeIds' /\ n < p
                   /\ nodes'[n].days \subseteq nodes'[p].days
                   /\ n \in Stored' /\ p \in Stored' => nodes'[n].at = nodes'[p].at
    BY ZenonT(30), <1>3, <1>4, <1>5, <1>6, <2>1
  <2> QED  BY <1>4, <2>1 DEF NodesOK
<1>8. ASSUME NEW n \in NodeIds, ~(n \in Frontier(nodes) <=> n \in Frontier(nodes'))
      PROVE  \E m \in S \cap Here : nodes[n].days \subseteq D[m]
  <2>1. n \notin S => n \in Here /\ nodes[n].parent \in S \cap NodeIds
                        /\ nodes[nodes[n].parent].at # "deleted"
    BY <1>1, <1>3, <1>4, <1>8 DEF Frontier, Here
  <2>2. CASE n \in S
    <3>1. n \in Here  BY <1>1, <1>3, <1>4, <1>8, <2>2 DEF Frontier, Here
    <3> QED  BY <2>2, <3>1
  <2>3. CASE n \notin S
    <3>1. nodes[n].parent # 0  BY <1>1, <2>1, <2>3
    <3>2. nodes[n].parent \in Stored /\ n \in Stored
      BY <2>1, <2>3 DEF Stored, Here
    <3>3. nodes[n].parent \in Here  BY <1>5, <2>1, <2>3, <3>1, <3>2 DEF Here
    <3> QED  BY <1>5, <2>1, <2>3, <3>1, <3>3
  <2> QED  BY <2>2, <2>3
<1>9. /\ S \cap Here \in SUBSET NodeIds /\ D \in [S \cap Here -> SUBSET Days]
      /\ Announce(D) /\ UNCHANGED <<rollup, todo, job>>
  BY <1>2 DEF Node, DeleteNodes
<1> HIDE DEF D
<1> QED  BY <1>3, <1>4, <1>7, <1>8, <1>9, BatchChange

LEMMA CarryChange ==
    ASSUME RollupInv, NEW from \in {"here", "away"}, NEW to \in {"here", "away"},
           CarryNodes(from, to)
    PROVE  NodesChange
<1> DEFINE S == {n \in NodeIds : nodes[n].at = from}
           D == [n \in S |-> nodes[n].days]
<1>1. Len(nodes) \in Nat /\ nodes \in Seq(Node) /\ NodeIds = 1..Len(nodes)
  BY IdsAreFinite DEF RollupInv, NodesOK, NodeIds
<1>2. \A n \in NodeIds : nodes[n] \in Node  BY <1>1
<1>3. /\ nodes' \in [1..Len(nodes) -> Node]
      /\ \A n \in NodeIds : /\ nodes'[n].days = nodes[n].days
                            /\ nodes'[n].parent = nodes[n].parent
                            /\ nodes'[n].at = IF n \in S THEN to ELSE nodes[n].at
  BY <1>1, <1>2 DEF CarryNodes, Node
<1>4. nodes' \in Seq(Node) /\ Len(nodes') = Len(nodes) /\ NodeIds' = NodeIds
  BY <1>1, <1>3, IsASeq, LenProperties DEF NodeIds
<1>5. \A n \in NodeIds :
        LET p == nodes[n].parent
        IN  p # 0 => /\ p \in NodeIds /\ n < p
                     /\ nodes[n].days \subseteq nodes[p].days
                     /\ n \in Stored /\ p \in Stored => nodes[n].at = nodes[p].at
  BY DEF RollupInv, NodesOK
<1>6. \A n \in NodeIds : /\ n \in Stored' <=> n \in Stored
                         /\ nodes'[n].at = "deleted" <=> nodes[n].at = "deleted"
  BY <1>3, <1>4 DEF Stored
<1>7. NodesOK'
  <2>1. ASSUME NEW n \in NodeIds', nodes'[n].parent # 0
        PROVE  LET p == nodes'[n].parent
               IN  /\ p \in NodeIds' /\ n < p
                   /\ nodes'[n].days \subseteq nodes'[p].days
                   /\ n \in Stored' /\ p \in Stored' => nodes'[n].at = nodes'[p].at
    <3>1. n \in NodeIds /\ nodes[n].parent # 0 /\ nodes'[n].parent = nodes[n].parent
      BY <1>3, <1>4, <2>1
    <3>2. nodes[n].parent \in NodeIds  BY <1>5, <3>1
    <3>3. n \in Stored /\ nodes[n].parent \in Stored =>
             (n \in S <=> nodes[n].parent \in S)
      BY <1>5, <3>1, <3>2
    <3>4. n \in Stored /\ nodes[n].parent \in Stored =>
             nodes'[n].at = nodes'[nodes[n].parent].at
      BY <1>3, <1>5, <3>1, <3>2, <3>3
    <3> HIDE DEF S
    <3> QED  BY <1>3, <1>4, <1>5, <1>6, <3>1, <3>2, <3>4
  <2> QED  BY <1>4, <2>1 DEF NodesOK
<1>8. ASSUME NEW n \in NodeIds, ~(n \in Frontier(nodes) <=> n \in Frontier(nodes'))
      PROVE  \E m \in S : nodes[n].days \subseteq D[m]
  <2>1. n \in S  BY <1>1, <1>3, <1>4, <1>6, <1>8 DEF Frontier
  <2> QED  BY <2>1
<1>9. /\ S \in SUBSET NodeIds /\ D \in [S -> SUBSET Days]
      /\ Announce(D) /\ UNCHANGED <<rollup, todo, job>>
  BY <1>2 DEF Node, CarryNodes
<1> HIDE DEF S, D
<1> QED  BY <1>3, <1>4, <1>7, <1>8, <1>9, BatchChange

LEMMA MutationChange ==
    ASSUME RollupInv, Mutation
    PROVE  NodesChange
<1>1. ASSUME NEW s \in Spans, PublishLeaf(s[1], s[2])  PROVE NodesChange
  <2>1. s[1] \in Days /\ s[2] \in Days  OBVIOUS
  <2> QED  BY <1>1, <2>1, LeafChange
<1>2. ASSUME NEW S \in SUBSET NodeIds, PublishParent(S)  PROVE NodesChange
  BY <1>2, ParentChange
<1>3. ASSUME NEW S \in SUBSET NodeIds, DeleteNodes(S)  PROVE NodesChange
  BY <1>3, DeleteChange
<1>4. ASSUME CarryNodes("here", "away") \/ CarryNodes("away", "here")
      PROVE  NodesChange
  BY <1>4, CarryChange
<1> QED  BY <1>1, <1>2, <1>3, <1>4 DEF Mutation

LEMMA ChangeInv ==
    ASSUME RollupInv, NodesChange
    PROVE  RollupInv'
<1> USE DEF RollupInv, NodesChange
<1>1. TypeOK'  BY DEF TypeOK, NodesOK
<1>2. OutboxOK'  BY DEF OutboxOK
<1>3. ASSUME NEW p \in Periods, ~Touched(p)'
      PROVE  ~Touched(p) /\ Wanted(p)' = Wanted(p)
             /\ \A d \in p : ~Touched({d})' /\ {d} \in Periods /\ Wanted({d})' = Wanted({d})
  <2>1. ~Touched(p) /\ Wanted(p)' = Wanted(p)  BY <1>3 DEF Touched
  <2>2. ASSUME NEW d \in p  PROVE ~Touched({d})' /\ {d} \in Periods
    BY <1>3, PeriodsAre DEF Touched
  <2>3. ASSUME NEW d \in p  PROVE Wanted({d})' = Wanted({d})
    BY <2>2 DEF Touched
  <2> QED  BY <2>1, <2>2, <2>3
<1>4. RowsOK'  BY <1>3 DEF RowsOK
<1>5. ASSUME NEW b \in Builders  PROVE JobOK(b)'
  <2>1. JobOK(b) /\ rollup' = rollup /\ job' = job  OBVIOUS
  <2> SUFFICES ASSUME Building(b), Owns(b), ~Touched(job[b].period)'
               PROVE  KnowsDays(b)' /\ KnowsSources(b)'
    BY <2>1 DEF JobOK, Building, Owns
  <2>2. PICK p : p = job[b].period  OBVIOUS
  <2> HIDE DEF RollupInv, NodesChange
  <2>3. /\ p \in Periods /\ ~Touched(p)'
        /\ job[b].phase \in {"content", "lineage"} => job[b].ready \subseteq p
    BY <2>1, <2>2 DEF JobOK
  <2>4. /\ ~Touched(p) /\ Wanted(p)' = Wanted(p)
        /\ \A d \in p : ~Touched({d})' /\ {d} \in Periods /\ Wanted({d})' = Wanted({d})
    BY <1>3, <2>3
  <2>5. KnowsDays(b) /\ KnowsSources(b)  BY <2>1, <2>2, <2>4 DEF JobOK
  <2>6. KnowsDays(b)'  BY <2>1, <2>2, <2>3, <2>4, <2>5 DEF KnowsDays
  <2>7. KnowsSources(b)'  BY <2>1, <2>2, <2>4, <2>5 DEF KnowsSources
  <2> QED  BY <2>6, <2>7
<1> QED  BY <1>1, <1>2, <1>4, <1>5

-----------------------------------------------------------------------------
(***************************************************************************)
(* What a drain and the marking of periods do                              *)
(***************************************************************************)
LEMMA UnchangedWanted ==
    ASSUME nodes' = nodes
    PROVE  \A p : Wanted(p)' = Wanted(p)
BY DEF Wanted, Touching, Canonical, Here, Stored, NodeIds

(* A period that is not marked by a drain has as much to mark as before.   *)
LEMMA DrainMarks ==
    ASSUME RollupInv, Drain
    PROVE  \E P \in SUBSET Periods :
             /\ rollup' = MarkStale(P)
             /\ outbox' \subseteq Event /\ IsFiniteSet(outbox')
             /\ \A e \in outbox' : \E f \in outbox :
                   /\ e.days = f.days /\ e.left \subseteq f.left
                   /\ \A p \in Periods \ P : f.left \cap p \subseteq e.left
             /\ \A f \in outbox : \/ \E e \in outbox' : e.days = f.days /\ e.left \subseteq f.left
                                  \/ \A d \in f.left, p \in Periods : d \in p => p \in P
             /\ \A p \in Periods \ P : Touched(p) => Touched(p)'
<1> DEFINE first == {e \in outbox : Cardinality({f \in outbox : f.id < e.id}) < EventLimit}
           days == UNION {{<<e.id, d>> : d \in e.left} : e \in first}
           before(w) == {v \in days : v[1] < w[1] \/ (v[1] = w[1] /\ v[2] < w[2])}
           done  == {w \in days : Cardinality(before(w)) < DayBudget}
           rest(e) == {d \in e.left : <<e.id, d>> \notin done}
           P == {p \in Periods : \E w \in done : w[2] \in p}
           kept == {f \in outbox : rest(f) # {}}
<1>1. rollup' = MarkStale(P) /\ outbox' = {[e EXCEPT !.left = rest(e)] : e \in kept}
  BY DEF Drain
<1>2. outbox \subseteq Event /\ IsFiniteSet(outbox)
  BY DEF RollupInv, TypeOK, OutboxOK
<1>3. ASSUME NEW e \in outbox, NEW d \in e.left, d \notin rest(e)
      PROVE  \A p \in Periods : d \in p => p \in P
  <2>1. <<e.id, d>> \in done  BY <1>3
  <2>2. <<e.id, d>>[2] = d  OBVIOUS
  <2> HIDE DEF done
  <2> QED  BY <2>1, <2>2
<1>4. P \in SUBSET Periods /\ \A e \in outbox : rest(e) \subseteq e.left
  OBVIOUS
<1> HIDE DEF P, rest
<1>5. \A e \in kept : LET f == [e EXCEPT !.left = rest(e)]
                      IN  f \in Event /\ f.days = e.days /\ f.left = rest(e)
  BY <1>2, <1>4 DEF Event
<1>6. outbox' \subseteq Event /\ IsFiniteSet(outbox')
  <2>1. IsFiniteSet(kept)  BY <1>2, FS_Subset
  <2>2. [e \in kept |-> [e EXCEPT !.left = rest(e)]] \in Surjection(kept, outbox')
    BY <1>1 DEF Surjection
  <2>3. IsFiniteSet(outbox')  BY <2>1, <2>2, FS_Surjection
  <2> QED  BY <1>1, <1>5, <2>3
<1>7. ASSUME NEW e \in outbox'
      PROVE  \E f \in outbox : /\ e.days = f.days /\ e.left \subseteq f.left
                               /\ \A p \in Periods \ P : f.left \cap p \subseteq e.left
  <2>1. PICK f \in kept : e = [f EXCEPT !.left = rest(f)]  BY <1>1
  <2>2. f \in outbox /\ e.days = f.days /\ e.left = rest(f)  BY <1>5, <2>1
  <2> QED  BY <1>3, <1>4, <2>2
<1>8. ASSUME NEW f \in outbox, rest(f) # {}
      PROVE  \E e \in outbox' : e.days = f.days /\ e.left = rest(f)
  <2>1. f \in kept  BY <1>8
  <2> QED  BY <1>1, <1>5, <2>1
<1>9. ASSUME NEW f \in outbox
      PROVE  \/ \E e \in outbox' : e.days = f.days /\ e.left \subseteq f.left
             \/ \A d \in f.left, p \in Periods : d \in p => p \in P
  <2>1. CASE rest(f) # {}  BY <1>4, <1>8, <2>1
  <2>2. CASE rest(f) = {}  BY <1>3, <2>2
  <2> QED  BY <2>1, <2>2
<1>10. ASSUME NEW p \in Periods \ P, Touched(p)
       PROVE  Touched(p)'
  <2>1. PICK f \in outbox : f.left \cap p # {}  BY <1>10 DEF Touched
  <2>2. PICK d \in f.left : d \in p  BY <2>1
  <2>3. d \in rest(f)  BY <1>3, <2>2
  <2>4. PICK e \in outbox' : e.left = rest(f)  BY <1>8, <2>3
  <2> QED  BY <2>2, <2>3, <2>4 DEF Touched
<1> QED  BY <1>1, <1>4, <1>6, <1>7, <1>9, <1>10

LEMMA MarkStaleIs ==
    ASSUME TypeOK, NEW P \in SUBSET Periods, rollup' = MarkStale(P)
    PROVE  /\ rollup' \in [Periods -> Rollup]
           /\ \A p \in Periods : rollup'[p].status = "building" <=> rollup'[p].lease # NoBuilder
           /\ \A p \in Periods : rollup'[p].sources = rollup[p].sources
           /\ \A p \in Periods \ P : rollup'[p] = rollup[p]
           /\ \A p \in P : rollup'[p].status = "stale" /\ rollup'[p].lease = NoBuilder
BY ZenonT(30) DEF TypeOK, MarkStale, Stale, Rollup

LEMMA DrainInv ==
    ASSUME RollupInv, Drain, nodes' = nodes,
           todo' \in [Builders -> Seq(Periods)], job' \in [Builders -> Job],
           \A b \in Builders : \/ job'[b] = job[b]
                               \/ job'[b].phase = "reclaim"
                               \/ job'[b].phase = "claim" /\ job'[b].period \in Periods
    PROVE  RollupInv'
<1> USE DEF RollupInv
<1>1. PICK P \in SUBSET Periods :
             /\ rollup' = MarkStale(P)
             /\ outbox' \subseteq Event /\ IsFiniteSet(outbox')
             /\ \A e \in outbox' : \E f \in outbox :
                   /\ e.days = f.days /\ e.left \subseteq f.left
                   /\ \A p \in Periods \ P : f.left \cap p \subseteq e.left
             /\ \A p \in Periods \ P : Touched(p) => Touched(p)'
  BY DrainMarks
<1>2. /\ rollup' \in [Periods -> Rollup]
      /\ \A p \in Periods : rollup'[p].status = "building" <=> rollup'[p].lease # NoBuilder
      /\ \A p \in Periods : rollup'[p].sources = rollup[p].sources
      /\ \A p \in Periods \ P : rollup'[p] = rollup[p]
      /\ \A p \in P : rollup'[p].status = "stale" /\ rollup'[p].lease = NoBuilder
  BY <1>1, MarkStaleIs
<1>3. TypeOK'  BY <1>1, <1>2 DEF TypeOK
<1>4. NodesOK'  BY DEF NodesOK, NodeIds, Stored
<1>5. OutboxOK'
  <2>1. ASSUME NEW e \in outbox'
        PROVE  /\ e.left \subseteq e.days
               /\ \A p \in Periods : rollup'[p].status = "ready" => e.days \cap p \subseteq e.left
    <3>1. PICK f \in outbox : /\ e.days = f.days /\ e.left \subseteq f.left
                              /\ \A p \in Periods \ P : f.left \cap p \subseteq e.left
      BY <1>1
    <3>2. /\ f.left \subseteq f.days
          /\ \A p \in Periods : rollup[p].status = "ready" => f.days \cap p \subseteq f.left
      BY DEF OutboxOK
    <3> QED  BY <1>2, <3>1, <3>2
  <2> QED  BY <1>1, <2>1 DEF OutboxOK
<1>6. \A p : Wanted(p)' = Wanted(p)  BY UnchangedWanted
<1>7. RowsOK'  BY <1>1, <1>2, <1>6 DEF RowsOK
<1>8. ASSUME NEW b \in Builders  PROVE JobOK(b)'
  <2>1. CASE job'[b] # job[b]
    BY <2>1 DEF JobOK, Building, KnowsDays, KnowsSources
  <2>2. CASE job'[b] = job[b]
    <3> DEFINE p == job[b].period
    <3>1. SUFFICES ASSUME Building(b)', Owns(b)', ~Touched(p)', p \in Periods
                   PROVE  (KnowsDays(b) /\ KnowsSources(b))'
      BY <2>2 DEF JobOK, Building
    <3>2. rollup'[p].status = "building"  BY <2>2, <3>1 DEF Owns
    <3>3. p \notin P  BY <1>2, <3>1, <3>2
    <3>4. Owns(b) /\ ~Touched(p) /\ Building(b)
      BY <1>1, <1>2, <2>2, <3>1, <3>3 DEF Owns, Building
    <3>5. KnowsDays(b) /\ KnowsSources(b)
          /\ (job[b].phase \in {"content", "lineage"} => job[b].ready \subseteq p)
      BY <3>4 DEF JobOK
    <3>6. \A d \in p : {d} \in Periods  BY <3>1, PeriodsAre
    <3> QED  BY <1>2, <1>6, <2>2, <3>5, <3>6 DEF KnowsDays, KnowsSources
  <2> QED  BY <2>1, <2>2
<1> QED  BY <1>3, <1>4, <1>5, <1>7, <1>8

-----------------------------------------------------------------------------
(***************************************************************************)
(* What the steps of a pass do                                             *)
(***************************************************************************)
(* A row becomes ready only with what is wanted, its sources change only   *)
(* to what is wanted, and who holds a claim held it before.                *)
LEMMA RowsInv ==
    ASSUME RollupInv, nodes' = nodes, outbox' = outbox, TypeOK',
           \A p \in Periods :
              /\ rollup'[p].status = "ready" =>
                    rollup'[p] = rollup[p] \/ (~Pending(p) /\ rollup'[p].sources = Wanted(p))
              /\ ~Touched(p) => \/ rollup'[p].sources = rollup[p].sources
                                \/ rollup'[p].sources = Wanted(p),
           \A b \in Builders : \/ job'[b] = job[b] /\ (Building(b) /\ Owns(b)' => Owns(b))
                               \/ JobOK(b)'
    PROVE  RollupInv'
<1> USE DEF RollupInv
<1>1. NodesOK'  BY DEF NodesOK, NodeIds, Stored
<1>2. OutboxOK'
  <2>1. \A e \in outbox, p \in Periods : ~Pending(p) => e.days \cap p = {}
    BY DEF Pending
  <2>2. \A e \in outbox : e.left \subseteq e.days
          /\ \A p \in Periods : rollup[p].status = "ready" => e.days \cap p \subseteq e.left
    BY DEF OutboxOK
  <2>3. \A e \in outbox, p \in Periods : rollup'[p].status = "ready" => e.days \cap p \subseteq e.left
    BY <2>1, <2>2
  <2> QED  BY <2>2, <2>3 DEF OutboxOK
<1>3. /\ \A p : Wanted(p)' = Wanted(p)
      /\ \A p : Touched(p)' <=> Touched(p)
  BY UnchangedWanted DEF Touched
<1>4. RowsOK'  BY <1>3 DEF RowsOK
<1>5. ASSUME NEW b \in Builders  PROVE JobOK(b)'
  <2>1. CASE JobOK(b)'  BY <2>1
  <2>2. CASE job'[b] = job[b] /\ (Building(b) /\ Owns(b)' => Owns(b))
    <3> DEFINE p == job[b].period
    <3>1. SUFFICES ASSUME Building(b), Owns(b), ~Touched(p), p \in Periods
                   PROVE  (KnowsDays(b) /\ KnowsSources(b))'
      BY <1>3, <2>2 DEF JobOK, Building
    <3>2. KnowsDays(b) /\ KnowsSources(b)
          /\ (job[b].phase \in {"content", "lineage"} => job[b].ready \subseteq p)
      BY <3>1 DEF JobOK
    <3>3. \A d \in p : {d} \in Periods /\ ~Touched({d})
      BY <3>1, PeriodsAre DEF Touched
    <3> QED  BY <1>3, <2>2, <3>2, <3>3 DEF KnowsDays, KnowsSources
  <2> QED  BY <2>1, <2>2
<1> QED  BY <1>1, <1>2, <1>4, <1>5

(* Marking takes claims back and keeps the sources.                        *)
LEMMA MarkInv ==
    ASSUME RollupInv, nodes' = nodes, outbox' = outbox,
           NEW P \in SUBSET Periods, rollup' = MarkStale(P),
           todo' \in [Builders -> Seq(Periods)], job' \in [Builders -> Job],
           \A b \in Builders : job'[b] = job[b] \/ ~Building(b)'
    PROVE  RollupInv'
<1>1. /\ rollup' \in [Periods -> Rollup]
      /\ \A p \in Periods : rollup'[p].status = "building" <=> rollup'[p].lease # NoBuilder
      /\ \A p \in Periods : rollup'[p].sources = rollup[p].sources
      /\ \A p \in Periods \ P : rollup'[p] = rollup[p]
      /\ \A p \in P : rollup'[p].status = "stale" /\ rollup'[p].lease = NoBuilder
  BY MarkStaleIs DEF RollupInv
<1>2. TypeOK'  BY <1>1 DEF RollupInv, TypeOK
<1>3. ASSUME NEW b \in Builders, job'[b] = job[b], Building(b), Owns(b)'
      PROVE  Owns(b)
  <2>1. job[b].period \in Periods  BY <1>3 DEF RollupInv, JobOK
  <2> QED  BY <1>1, <1>3, <2>1 DEF Owns
<1>4. \A b \in Builders : ~Building(b)' => JobOK(b)'  BY DEF JobOK
<1> QED  BY <1>1, <1>2, <1>3, <1>4, RowsInv

(* Nor does a step that touches no row disturb anything but its own build. *)
LEMMA JobInv ==
    ASSUME RollupInv, UNCHANGED <<nodes, outbox, rollup>>,
           todo' \in [Builders -> Seq(Periods)], job' \in [Builders -> Job],
           \A b \in Builders : job'[b] = job[b] \/ JobOK(b)'
    PROVE  RollupInv'
<1>1. TypeOK'  BY DEF RollupInv, TypeOK
<1>2. \A b \in Builders : job'[b] = job[b] => (Owns(b)' => Owns(b))
  BY DEF Owns
<1> QED  BY <1>1, <1>2, RowsInv

LEMMA NoJobIs == NoJob \in Job /\ \A b \in Builders : job'[b] = NoJob => ~Building(b)' /\ JobOK(b)'
BY DEF NoJob, Job, Phases, Building, JobOK

LEMMA BeginPassInv ==
    ASSUME RollupInv, NEW b \in Builders, BeginPass(b)
    PROVE  RollupInv'
<1>1. job' \in [Builders -> Job] /\ job'[b].phase = "reclaim"
      /\ \A c \in Builders \ {b} : job'[c] = job[c]
  BY DEF RollupInv, TypeOK, BeginPass, Go, Job, Phases
<1>2. Drain /\ nodes' = nodes /\ todo' \in [Builders -> Seq(Periods)]
  BY DEF RollupInv, TypeOK, BeginPass
<1> QED  BY <1>1, <1>2, DrainInv

LEMMA NextBuildInv ==
    ASSUME RollupInv, NEW b \in Builders, NextBuild(b)
    PROVE  RollupInv'
<1>1. todo[b] \in Seq(Periods) /\ todo[b] # <<>>
  BY DEF RollupInv, TypeOK, NextBuild
<1>2. Head(todo[b]) \in Periods /\ Tail(todo[b]) \in Seq(Periods)
  BY <1>1, HeadTailProperties
<1>3. Head(todo[b]) \in SUBSET Days  BY <1>2, PeriodsAre
<1> DEFINE j == [NoJob EXCEPT !.phase = "claim", !.period = Head(todo[b])]
<1>4. j \in Job /\ j.phase = "claim" /\ j.period = Head(todo[b])
  BY <1>3 DEF NoJob, Job, Phases
<1>5. job' = [job EXCEPT ![b] = j] /\ todo' = [todo EXCEPT ![b] = Tail(todo[b])]
  BY DEF NextBuild, RollupInv, TypeOK
<1> HIDE DEF j
<1>6. /\ job' \in [Builders -> Job] /\ job'[b] = j
      /\ \A c \in Builders \ {b} : job'[c] = job[c]
      /\ todo' \in [Builders -> Seq(Periods)]
  BY <1>2, <1>4, <1>5 DEF RollupInv, TypeOK
<1>7. Drain /\ nodes' = nodes  BY DEF NextBuild
<1>8. \A c \in Builders : \/ job'[c] = job[c]
                          \/ job'[c].phase = "claim" /\ job'[c].period \in Periods
  BY <1>2, <1>4, <1>6
<1> QED  BY <1>6, <1>7, <1>8, DrainInv

LEMMA ReclaimInv ==
    ASSUME RollupInv, NEW b \in Builders, Reclaim(b)
    PROVE  RollupInv'
<1>1. PICK P \in SUBSET Periods : rollup' = MarkStale(P)  BY DEF Reclaim
<1>2. /\ job' \in [Builders -> Job] /\ todo' \in [Builders -> Seq(Periods)]
      /\ nodes' = nodes /\ outbox' = outbox
      /\ \A c \in Builders : job'[c] = job[c] \/ ~Building(c)'
  BY ZenonT(30) DEF RollupInv, TypeOK, Reclaim, Go, Job, Phases, Building
<1> QED  BY <1>1, <1>2, MarkInv

LEMMA ListInv ==
    ASSUME RollupInv, NEW b \in Builders, List(b)
    PROVE  RollupInv'
<1>1. todo' \in [Builders -> Seq(Periods)]  BY ListIs DEF RollupInv
<1>2. /\ job' \in [Builders -> Job] /\ UNCHANGED <<nodes, outbox, rollup>>
      /\ \A c \in Builders : job'[c] = job[c] \/ job'[c] = NoJob
  BY NoJobIs DEF RollupInv, TypeOK, List, Return
<1> QED  BY <1>1, <1>2, JobInv, NoJobIs

LEMMA RebuildInv ==
    ASSUME RollupInv, NEW b \in Operators, NEW d \in Days, NEW t \in Targets(d),
           Rebuild(b, t)
    PROVE  RollupInv'
<1>1. t \in Seq(Periods)  BY TargetsAre
<1>2. PICK P \in SUBSET Periods : rollup' = MarkStale(P)
  <2> DEFINE seeds == {t[i] : i \in DOMAIN t} \cup
                      {p \in Aggregates : \E k \in Days : {k} \in {t[i] : i \in DOMAIN t} /\ k \in p}
  <2>1. {t[i] : i \in DOMAIN t} \subseteq Periods  BY <1>1, LenProperties
  <2>2. seeds \subseteq Periods  BY <2>1, PeriodsAre
  <2>3. rollup' = MarkStale({p \in seeds : rollup[p].status # "building"})
    BY DEF Rebuild
  <2> QED  BY <2>2, <2>3
<1>3. /\ job' = job /\ todo' \in [Builders -> Seq(Periods)]
      /\ nodes' = nodes /\ outbox' = outbox /\ job' \in [Builders -> Job]
  BY <1>1, LimitedIs DEF RollupInv, TypeOK, Rebuild
<1> QED  BY <1>2, <1>3, MarkInv

LEMMA EndPassInv ==
    ASSUME RollupInv, NEW b \in Builders, EndPass(b)
    PROVE  RollupInv'
<1>1. /\ job' \in [Builders -> Job] /\ UNCHANGED <<nodes, outbox, rollup>>
      /\ todo' \in [Builders -> Seq(Periods)]
      /\ \A c \in Builders : job'[c] = job[c] \/ job'[c] = NoJob
  BY NoJobIs, EmptySeq DEF RollupInv, TypeOK, EndPass, Return
<1> QED  BY <1>1, JobInv, NoJobIs

(* A step of a build whose row changes to r.                               *)
LEMMA SetIs ==
    ASSUME TypeOK, NEW b \in Builders, job[b].period \in Periods,
           NEW r \in Rollup, r.status = "building" <=> r.lease # NoBuilder, Set(b, r)
    PROVE  /\ rollup' \in [Periods -> Rollup]
           /\ \A p \in Periods : rollup'[p].status = "building" <=> rollup'[p].lease # NoBuilder
           /\ rollup'[job[b].period] = r
           /\ \A p \in Periods : p # job[b].period => rollup'[p] = rollup[p]
BY DEF TypeOK, Set

LEMMA SetInv ==
    ASSUME RollupInv, nodes' = nodes, outbox' = outbox, todo' = todo,
           NEW b \in Builders, job[b].period \in Periods,
           NEW r \in Rollup, r.status = "building" <=> r.lease # NoBuilder, Set(b, r),
           r.status = "ready" => ~Pending(job[b].period) /\ r.sources = Wanted(job[b].period),
           ~Touched(job[b].period) => \/ r.sources = rollup[job[b].period].sources
                                      \/ r.sources = Wanted(job[b].period),
           r.lease \in {b, NoBuilder},
           job' \in [Builders -> Job], \A c \in Builders \ {b} : job'[c] = job[c],
           JobOK(b)'
    PROVE  RollupInv'
<1>1. /\ rollup' \in [Periods -> Rollup]
      /\ \A p \in Periods : rollup'[p].status = "building" <=> rollup'[p].lease # NoBuilder
      /\ rollup'[job[b].period] = r
      /\ \A p \in Periods : p # job[b].period => rollup'[p] = rollup[p]
  BY SetIs DEF RollupInv
<1>2. TypeOK'  BY <1>1 DEF RollupInv, TypeOK
<1>3. ASSUME NEW c \in Builders \ {b}, Building(c), Owns(c)'
      PROVE  Owns(c)
  <2>1. job'[c] = job[c] /\ job[c].period \in Periods
    BY <1>3 DEF RollupInv, JobOK
  <2>2. job[c].period # job[b].period
    BY <1>1, <1>3, <2>1 DEF Owns
  <2> QED  BY <1>1, <1>3, <2>1, <2>2 DEF Owns
<1> QED  BY <1>1, <1>2, <1>3, RowsInv

(* Where a build is.                                                       *)
LEMMA BuildingIs ==
    ASSUME RollupInv, NEW b \in Builders, Building(b)
    PROVE  /\ job[b] \in Job /\ job[b].period \in Periods
           /\ rollup[job[b].period] \in Rollup
           /\ JobOK(b)
BY DEF RollupInv, TypeOK, JobOK

LEMMA ReturnIs ==
    ASSUME RollupInv, NEW b \in Builders, Return(b)
    PROVE  /\ job' \in [Builders -> Job]
           /\ \A c \in Builders \ {b} : job'[c] = job[c]
           /\ JobOK(b)'
BY NoJobIs DEF RollupInv, TypeOK, Return

LEMMA GoIs ==
    ASSUME RollupInv, NEW b \in Builders, NEW phase \in Phases, Go(b, phase)
    PROVE  /\ job' \in [Builders -> Job]
           /\ \A c \in Builders \ {b} : job'[c] = job[c]
           /\ job'[b].phase = phase /\ job'[b].period = job[b].period
           /\ job'[b].ready = job[b].ready /\ job'[b].sources = job[b].sources
BY DEF RollupInv, TypeOK, Go, Job

LEMMA ClaimInv ==
    ASSUME RollupInv, NEW b \in Builders, Claim(b)
    PROVE  RollupInv'
<1> DEFINE r == [rollup[job[b].period] EXCEPT !.status = "building", !.lease = b]
<1>1. /\ job[b].period \in Periods /\ rollup[job[b].period] \in Rollup
  BY BuildingIs DEF Claim, At, Building
<1>2. /\ r \in Rollup /\ r.status = "building" /\ r.lease = b
      /\ r.sources = rollup[job[b].period].sources
  BY <1>1 DEF Rollup
<1>3. Set(b, r) /\ Go(b, "read") /\ UNCHANGED <<nodes, outbox, todo>>
  BY DEF Claim
<1> HIDE DEF r
<1>4. /\ job' \in [Builders -> Job] /\ \A c \in Builders \ {b} : job'[c] = job[c]
      /\ job'[b].phase = "read" /\ job'[b].period = job[b].period
  BY <1>3, GoIs DEF Phases
<1>5. JobOK(b)'  BY <1>1, <1>4 DEF JobOK, KnowsDays, KnowsSources
<1> QED  BY <1>1, <1>2, <1>3, <1>4, <1>5, SetInv

(* A step of a build that only reads.                                      *)
LEMMA ReadInv ==
    ASSUME RollupInv, UNCHANGED <<nodes, outbox, rollup, todo>>,
           NEW b \in Builders, NEW j \in Job, job' = [job EXCEPT ![b] = j],
           j.period = job[b].period, job[b].period \in Periods,
           j.phase \in {"content", "lineage"} =>
              j.period \in Aggregates /\ j.ready \subseteq j.period,
           Owns(b) /\ ~Touched(j.period) =>
              /\ j.phase \in {"content", "lineage"} =>
                    \A d \in j.ready : rollup[{d}].sources = Wanted({d})
              /\ j.phase = "lineage" => \A d \in j.period \ j.ready : Wanted({d}) = {}
              /\ j.phase \in {"texts", "model"} => j.sources = Wanted(j.period)
              /\ j.phase = "resolve" => Wanted(j.period) = {}
    PROVE  RollupInv'
<1>1. /\ job' \in [Builders -> Job] /\ job'[b] = j
      /\ \A c \in Builders \ {b} : job'[c] = job[c]
  BY DEF RollupInv, TypeOK
<1>2. /\ Owns(b)' => Owns(b)
      /\ \A p : Touched(p)' <=> Touched(p)
      /\ \A p : Wanted(p)' = Wanted(p)
  BY <1>1, UnchangedWanted DEF Owns, Touched
<1>3. JobOK(b)'  BY <1>1, <1>2 DEF JobOK, KnowsDays, KnowsSources
<1>4. todo' \in [Builders -> Seq(Periods)]  BY DEF RollupInv, TypeOK
<1> QED  BY <1>1, <1>3, <1>4, JobInv

LEMMA WantedTypes == RollupInv => \A p : Wanted(p) \in SUBSET Nat
<1> SUFFICES ASSUME RollupInv  PROVE \A p : Wanted(p) \subseteq NodeIds /\ NodeIds \subseteq Nat
  OBVIOUS
<1>1. \A p : Wanted(p) = WantedIn(nodes, p)  BY WantedIs DEF RollupInv
<1> QED  BY <1>1, IdsAreFinite DEF RollupInv, WantedIn, Frontier, NodeIds

LEMMA ReadDayInv ==
    ASSUME RollupInv, NEW b \in Builders, ReadDay(b)
    PROVE  RollupInv'
<1> DEFINE sources == Wanted(job[b].period)
           j == [job[b] EXCEPT !.phase = IF sources = {} THEN "resolve" ELSE "model",
                               !.sources = sources]
<1>1. job[b] \in Job /\ job[b].period \in Periods
  BY BuildingIs DEF ReadDay, At, Building
<1>2. /\ j \in Job /\ j.period = job[b].period /\ j.sources = sources
      /\ j.phase = IF sources = {} THEN "resolve" ELSE "model"
  BY <1>1, WantedTypes DEF Job, Phases
<1>3. job' = [job EXCEPT ![b] = j] /\ UNCHANGED <<nodes, outbox, rollup, todo>>
  BY DEF ReadDay, RollupInv, TypeOK
<1> HIDE DEF j
<1> QED  BY <1>1, <1>2, <1>3, ReadInv

LEMMA ReadStatusesInv ==
    ASSUME RollupInv, NEW b \in Builders, ReadStatuses(b)
    PROVE  RollupInv'
<1> DEFINE ready == {d \in job[b].period : rollup[{d}].status = "ready"}
           j == [job[b] EXCEPT !.phase = "content", !.ready = ready]
<1>1. job[b] \in Job /\ job[b].period \in Periods
  BY BuildingIs DEF ReadStatuses, At, Building
<1>2. /\ j \in Job /\ j.period = job[b].period /\ j.ready = ready /\ j.phase = "content"
  BY <1>1 DEF Job, Phases
<1>3. job' = [job EXCEPT ![b] = j] /\ UNCHANGED <<nodes, outbox, rollup, todo>>
  BY DEF ReadStatuses, RollupInv, TypeOK
<1>4. job[b].period \in Aggregates  BY <1>1 DEF ReadStatuses, IsDay
<1>5. ASSUME ~Touched(job[b].period), NEW d \in ready
      PROVE  rollup[{d}].sources = Wanted({d})
  <2>1. {d} \in Periods  BY <1>1, PeriodsAre
  <2>2. ~Touched({d})  BY <1>5 DEF Touched
  <2> QED  BY <2>1, <2>2 DEF RollupInv, RowsOK
<1> HIDE DEF j
<1> QED  BY <1>1, <1>2, <1>3, <1>4, <1>5, ReadInv

(* The nodes of a period are those of its days.                            *)
LEMMA WantedByDay == \A p : Wanted(p) = UNION {Wanted({d}) : d \in p}
BY DEF Wanted, Touching

LEMMA ReadContentInv ==
    ASSUME RollupInv, NEW b \in Builders, ReadContent(b)
    PROVE  RollupInv'
<1> DEFINE p == job[b].period
           phase == IF \E d \in p \ job[b].ready : Wanted({d}) # {} THEN "defer"
                    ELSE IF job[b].ready = {} THEN "resolve" ELSE "lineage"
           j == [job[b] EXCEPT !.phase = phase]
<1>1. job[b] \in Job /\ p \in Periods /\ JobOK(b) /\ Building(b) /\ job[b].phase = "content"
  BY BuildingIs DEF ReadContent, At, Building
<1>2. /\ j \in Job /\ j.period = p /\ j.ready = job[b].ready /\ j.phase = phase
  BY <1>1 DEF Job, Phases
<1>3. job' = [job EXCEPT ![b] = j] /\ UNCHANGED <<nodes, outbox, rollup, todo>>
  BY DEF ReadContent, Go, RollupInv, TypeOK
<1>4. p \in Aggregates /\ job[b].ready \subseteq p  BY <1>1 DEF JobOK
<1>5. Owns(b) /\ ~Touched(p) => \A d \in job[b].ready : rollup[{d}].sources = Wanted({d})
  BY <1>1 DEF JobOK, KnowsDays
<1>6. ASSUME phase = "resolve"  PROVE Wanted(p) = {}
  <2>1. \A d \in p : Wanted({d}) = {}  BY <1>6
  <2>2. Wanted(p) = UNION {Wanted({d}) : d \in p}  BY WantedByDay
  <2>3. ASSUME NEW n \in Wanted(p)  PROVE FALSE
    <3>1. PICK d \in p : n \in Wanted({d})  BY <2>2, <2>3
    <3> QED  BY <2>1, <3>1
  <2> QED  BY <2>3
<1>7. phase = "lineage" => \A d \in p \ job[b].ready : Wanted({d}) = {}
  OBVIOUS
<1>8. phase \notin {"content", "texts", "model"}  OBVIOUS
<1> HIDE DEF j, phase
<1> QED  BY <1>1, <1>2, <1>3, <1>4, <1>5, <1>6, <1>7, <1>8, ReadInv

LEMMA ReadLineageInv ==
    ASSUME RollupInv, NEW b \in Builders, ReadLineage(b)
    PROVE  RollupInv'
<1> DEFINE p == job[b].period
           sources == UNION {rollup[{d}].sources : d \in job[b].ready}
           j == [job[b] EXCEPT !.phase = "texts", !.sources = sources]
<1>1. job[b] \in Job /\ p \in Periods /\ JobOK(b) /\ Building(b) /\ job[b].phase = "lineage"
  BY BuildingIs DEF ReadLineage, At, Building
<1>2. job[b].ready \subseteq p  BY <1>1 DEF JobOK
<1>3. sources \in SUBSET Nat
  <2>1. \A d \in job[b].ready : rollup[{d}] \in Rollup
    BY <1>1, <1>2, PeriodsAre DEF RollupInv, TypeOK
  <2> QED  BY <2>1 DEF Rollup
<1>4. /\ j \in Job /\ j.period = p /\ j.sources = sources /\ j.phase = "texts"
  <2> HIDE DEF sources
  <2> QED  BY <1>1, <1>3 DEF Job, Phases
<1>5. job' = [job EXCEPT ![b] = j] /\ UNCHANGED <<nodes, outbox, rollup, todo>>
  BY DEF ReadLineage, RollupInv, TypeOK
<1>6. ASSUME Owns(b), ~Touched(p)  PROVE sources = Wanted(p)
  <2>1. /\ \A d \in job[b].ready : rollup[{d}].sources = Wanted({d})
        /\ \A d \in p \ job[b].ready : Wanted({d}) = {}
    BY <1>1, <1>6 DEF JobOK, KnowsDays
  <2>2. sources = UNION {Wanted({d}) : d \in job[b].ready}  BY <2>1
  <2>3. sources = UNION {Wanted({d}) : d \in p}
    <3> HIDE DEF sources
    <3>1. \A d \in p : Wanted({d}) # {} => d \in job[b].ready  BY <2>1
    <3> QED  BY <1>2, <2>2, <3>1
  <2> QED  BY <2>3, WantedByDay
<1> HIDE DEF j, sources
<1> QED  BY <1>1, <1>4, <1>5, <1>6, ReadInv

LEMMA ReadTextsInv ==
    ASSUME RollupInv, NEW b \in Builders, ReadTexts(b)
    PROVE  RollupInv'
<1> DEFINE p == job[b].period
           sources == Canonical(job[b].sources)
           j == [job[b] EXCEPT !.phase = IF sources = {} THEN "defer" ELSE "model",
                               !.sources = sources]
<1>1. job[b] \in Job /\ p \in Periods /\ JobOK(b) /\ Building(b) /\ job[b].phase = "texts"
  BY BuildingIs DEF ReadTexts, At, Building
<1>2. sources \in SUBSET Nat
  BY <1>1, CanonicalIs DEF Job
<1>3. /\ j \in Job /\ j.period = p /\ j.sources = sources /\ j.phase \in {"defer", "model"}
  BY <1>1, <1>2 DEF Job, Phases
<1>4. job' = [job EXCEPT ![b] = j] /\ UNCHANGED <<nodes, outbox, rollup, todo>>
  BY DEF ReadTexts, RollupInv, TypeOK
<1>5. ASSUME Owns(b), ~Touched(p)  PROVE sources = Wanted(p)
  <2>1. job[b].sources = Wanted(p)  BY <1>1, <1>5 DEF JobOK, KnowsSources
  <2>2. Wanted(p) \subseteq Frontier(nodes)
    BY WantedIs DEF RollupInv, WantedIn
  <2>3. Canonical(Wanted(p)) = Wanted(p)
    BY <2>2, FrontierIs DEF RollupInv
  <2> QED  BY <2>1, <2>3
<1> HIDE DEF j, sources
<1> QED  BY <1>1, <1>3, <1>4, <1>5, ReadInv

LEMMA PublishInv ==
    ASSUME RollupInv, NEW b \in Builders, Publish(b)
    PROVE  RollupInv'
<1> DEFINE p == job[b].period
<1>1. /\ job[b] \in Job /\ p \in Periods /\ JobOK(b) /\ Building(b)
      /\ job[b].phase = "model" /\ Owns(b) /\ rollup[p] \in Rollup
      /\ UNCHANGED <<nodes, outbox, todo>>
  BY BuildingIs DEF Publish, At, Building
<1>2. CASE Pending(p) \/ ~(job[b].sources \subseteq Stored)
  <2>1. Set(b, Stale(rollup[p])) /\ Return(b)  BY <1>2 DEF Publish
  <2>2. /\ Stale(rollup[p]) \in Rollup /\ Stale(rollup[p]).status = "stale"
        /\ Stale(rollup[p]).lease = NoBuilder
        /\ Stale(rollup[p]).sources = rollup[p].sources
    BY <1>1 DEF Stale, Rollup
  <2> QED  BY <1>1, <2>1, <2>2, ReturnIs, SetInv
<1>3. CASE ~(Pending(p) \/ ~(job[b].sources \subseteq Stored))
  <2> DEFINE r == [status |-> "ready", lease |-> NoBuilder, sources |-> job[b].sources]
  <2>1. Set(b, r) /\ (IF IsDay(p) THEN Go(b, "aggregates") ELSE Return(b))
    BY <1>3 DEF Publish
  <2>2. r \in Rollup /\ r.status = "ready" /\ r.lease = NoBuilder /\ r.sources = job[b].sources
    BY <1>1 DEF Rollup, Job
  <2>3. ~Touched(p)  BY <1>3 DEF RollupInv, OutboxOK, Touched, Pending
  <2>4. job[b].sources = Wanted(p)  BY <1>1, <2>3 DEF JobOK, KnowsSources
  <2>5. /\ job' \in [Builders -> Job] /\ \A c \in Builders \ {b} : job'[c] = job[c]
        /\ JobOK(b)'
    <3>1. CASE IsDay(p)
      <4>1. /\ job' \in [Builders -> Job] /\ \A c \in Builders \ {b} : job'[c] = job[c]
            /\ job'[b].phase = "aggregates" /\ job'[b].period = p
        BY <2>1, <3>1, GoIs DEF Phases
      <4> QED  BY <1>1, <4>1 DEF JobOK, KnowsDays, KnowsSources
    <3>2. CASE ~IsDay(p)  BY <2>1, <3>2, ReturnIs
    <3> QED  BY <3>1, <3>2
  <2> HIDE DEF r
  <2> QED  BY <1>1, <1>3, <2>1, <2>2, <2>4, <2>5, SetInv
<1> QED  BY <1>2, <1>3

LEMMA MarkAggregatesInv ==
    ASSUME RollupInv, NEW b \in Builders, MarkAggregates(b)
    PROVE  RollupInv'
<1>1. {p \in Aggregates : job[b].period \subseteq p} \in SUBSET Periods
  BY PeriodsAre
<1>2. /\ job' \in [Builders -> Job] /\ todo' \in [Builders -> Seq(Periods)]
      /\ nodes' = nodes /\ outbox' = outbox
      /\ \A c \in Builders : job'[c] = job[c] \/ job'[c] = NoJob
  BY NoJobIs DEF RollupInv, TypeOK, MarkAggregates, Return
<1>3. rollup' = MarkStale({p \in Aggregates : job[b].period \subseteq p})
  BY DEF MarkAggregates
<1> QED  BY <1>1, <1>2, <1>3, NoJobIs, MarkInv

LEMMA ResolveInv ==
    ASSUME RollupInv, NEW b \in Builders, Resolve(b)
    PROVE  RollupInv'
<1> DEFINE p == job[b].period
<1>1. /\ job[b] \in Job /\ p \in Periods /\ JobOK(b) /\ Building(b)
      /\ job[b].phase = "resolve" /\ Owns(b)
      /\ Set(b, NoRollup) /\ Return(b) /\ UNCHANGED <<nodes, outbox, todo>>
  BY BuildingIs DEF Resolve, At, Building
<1>2. ~Touched(p) => Wanted(p) = {}  BY <1>1 DEF JobOK, KnowsSources
<1>3. /\ NoRollup \in Rollup /\ NoRollup.status = "absent"
      /\ NoRollup.lease = NoBuilder /\ NoRollup.sources = {}
  BY DEF NoRollup, Rollup
<1> QED  BY <1>1, <1>2, <1>3, ReturnIs, SetInv

(* A build that gives its row back, with status s.                         *)
LEMMA GiveBackInv ==
    ASSUME RollupInv, NEW b \in Builders, Building(b),
           NEW s \in {"stale", "failed"},
           Set(b, [rollup[job[b].period] EXCEPT !.status = s, !.lease = NoBuilder]),
           Return(b), UNCHANGED <<nodes, outbox, todo>>
    PROVE  RollupInv'
<1> DEFINE r == [rollup[job[b].period] EXCEPT !.status = s, !.lease = NoBuilder]
<1>1. job[b].period \in Periods /\ rollup[job[b].period] \in Rollup
  BY BuildingIs
<1>2. /\ r \in Rollup /\ r.status = s /\ r.lease = NoBuilder
      /\ r.sources = rollup[job[b].period].sources
  BY <1>1 DEF Rollup
<1>3. Set(b, r)  OBVIOUS
<1> HIDE DEF r
<1> QED  BY <1>1, <1>2, <1>3, ReturnIs, SetInv

LEMMA DeferInv ==
    ASSUME RollupInv, NEW b \in Builders, Defer(b)
    PROVE  RollupInv'
BY GiveBackInv DEF Defer, At, Building, Stale

LEMMA SupersededInv ==
    ASSUME RollupInv, NEW b \in Builders, Superseded(b)
    PROVE  RollupInv'
<1>1. /\ job' \in [Builders -> Job] /\ UNCHANGED <<nodes, outbox, rollup>>
      /\ todo' \in [Builders -> Seq(Periods)]
      /\ \A c \in Builders : job'[c] = job[c] \/ job'[c] = NoJob
  BY NoJobIs DEF RollupInv, TypeOK, Superseded, Return
<1> QED  BY <1>1, JobInv, NoJobIs

LEMMA FailInv ==
    ASSUME RollupInv, NEW b \in Builders, Fail(b)
    PROVE  RollupInv'
<1>1. CASE UNCHANGED rollup
  <2>1. /\ job' \in [Builders -> Job] /\ UNCHANGED <<nodes, outbox, rollup>>
        /\ todo' \in [Builders -> Seq(Periods)]
        /\ \A c \in Builders : job'[c] = job[c] \/ job'[c] = NoJob
    BY <1>1, NoJobIs DEF RollupInv, TypeOK, Fail, Return
  <2> QED  BY <2>1, JobInv, NoJobIs
<1>2. CASE Set(b, [rollup[job[b].period] EXCEPT !.status = "failed", !.lease = NoBuilder])
  BY <1>2, GiveBackInv DEF Fail, Building
<1> QED  BY <1>1, <1>2 DEF Fail

LEMMA DrainAfterInv ==
    ASSUME RollupInv, DrainAfterPublication
    PROVE  RollupInv'
<1>1. Drain /\ UNCHANGED <<nodes, todo, job>>  BY DEF DrainAfterPublication
<1>2. todo' \in [Builders -> Seq(Periods)] /\ job' \in [Builders -> Job]
  BY <1>1 DEF RollupInv, TypeOK
<1> QED  BY <1>1, <1>2, DrainInv

-----------------------------------------------------------------------------
LEMMA RollupInit == Init => RollupInv
<1> SUFFICES ASSUME Init  PROVE RollupInv  OBVIOUS
<1>1. \A i \in DOMAIN History : /\ History[i] \in Days \X Days
                                /\ Leaf(History[i][1], History[i][2]) \in Node
                                /\ Leaf(History[i][1], History[i][2]).parent = 0
  BY DEF Leaf, Node, Span
<1>2. DOMAIN History = 1..Len(History) /\ Len(History) \in Nat  BY LenProperties
<1>3. nodes \in Seq(Node) /\ \A n \in NodeIds : nodes[n].parent = 0
  <2>1. nodes \in [1..Len(History) -> Node]  BY <1>1, <1>2 DEF Init
  <2>2. nodes \in Seq(Node)
    <3>1. \A k \in Nat : [1..k -> Node] \subseteq Seq(Node)  BY SeqDef
    <3> QED  BY <1>2, <2>1, <3>1
  <2>3. NodeIds = DOMAIN History  BY <1>2, <2>1, <2>2, LenProperties DEF NodeIds, Init
  <2> QED  BY <1>1, <2>2, <2>3 DEF Init
<1>4. NodesOK  BY <1>3 DEF NodesOK
<1>5. TypeOK
  <2>1. NoRollup \in Rollup /\ NoRollup.status = "absent" /\ NoRollup.lease = NoBuilder
    BY DEF NoRollup, Rollup
  <2>2. <<>> \in Seq(Periods)  BY EmptySeq
  <2> QED  BY <1>3, <2>1, <2>2, NoJobIs DEF Init, TypeOK
<1>6. OutboxOK /\ RowsOK
  BY FS_EmptySet DEF Init, OutboxOK, RowsOK, NoRollup
<1>7. \A b \in Builders : JobOK(b)
  BY DEF Init, JobOK, Building, NoJob
<1> QED  BY <1>4, <1>5, <1>6, <1>7 DEF RollupInv

LEMMA RollupStep ==
    ASSUME RollupInv, [Next]_vars
    PROVE  RollupInv'
<1>1. CASE Mutation  BY <1>1, MutationChange, ChangeInv
<1>2. CASE DrainAfterPublication  BY <1>2, DrainAfterInv
<1>3. ASSUME NEW b \in Builders, Maintenance(b)  PROVE RollupInv'
  BY <1>3, BeginPassInv, ReclaimInv, ListInv, NextBuildInv, ClaimInv, ReadDayInv,
     ReadStatusesInv, ReadContentInv, ReadLineageInv, ReadTextsInv, PublishInv,
     MarkAggregatesInv, ResolveInv, DeferInv, SupersededInv
     DEF Maintenance, Build
<1>4. ASSUME NEW b \in Builders, EndPass(b) \/ Fail(b)  PROVE RollupInv'
  BY <1>4, EndPassInv, FailInv
<1>5. ASSUME NEW b \in Operators, NEW d \in Days, NEW t \in Targets(d), Rebuild(b, t)
      PROVE  RollupInv'
  BY <1>5, RebuildInv
<1>6. CASE UNCHANGED vars
  <2>1. UNCHANGED <<nodes, outbox, rollup, todo, job>>  BY <1>6 DEF vars
  <2> QED  BY <2>1, JobInv DEF RollupInv, TypeOK
<1> QED  BY <1>1, <1>2, <1>3, <1>4, <1>5, <1>6 DEF Next

THEOREM RollupSafe == Spec => []RollupInv
BY RollupInit, RollupStep, PTL DEF Spec

(* Every variable keeps to its values, and a row has a lease exactly while *)
(* it is being built.                                                      *)
THEOREM RollupTypes == Spec => []TypeOK
<1>1. RollupInv => TypeOK  BY DEF RollupInv
<1> QED  BY <1>1, RollupSafe, PTL

(* A ready rollup over which no event waits is made of exactly the nodes a *)
(* rollup of its period should be made of now.                             *)
THEOREM ReadyCurrent == Spec => []ReadyIsCurrent
<1>1. ASSUME RollupInv, NEW p \in Periods, ~Pending(p)
      PROVE  ~Touched(p)
  BY <1>1 DEF RollupInv, OutboxOK, Touched, Pending
<1>2. RollupInv => ReadyIsCurrent  BY <1>1 DEF RollupInv, RowsOK, ReadyIsCurrent
<1> QED  BY <1>2, RollupSafe, PTL
-----------------------------------------------------------------------------
(***************************************************************************)
(* What a step may do to the rows                                          *)
(***************************************************************************)
(* Nothing becomes ready, and a row goes away only when nothing is wanted. *)
RowsChange ==
    /\ UNCHANGED <<nodes, outbox>>
    /\ \A p \in Periods :
          /\ rollup'[p].status = "ready" => rollup'[p] = rollup[p]
          /\ rollup'[p].status = "absent" =>
                rollup[p].status = "absent" \/ Touched(p) \/ Wanted(p) = {}

(* The row of p becomes ready, with what is wanted.                        *)
Publishes(p) ==
    /\ UNCHANGED <<nodes, outbox>>
    /\ \A q \in Periods : q # p => rollup'[q] = rollup[q]
    /\ rollup[p].status = "building"
    /\ rollup'[p].status = "ready" /\ rollup'[p].sources = Wanted(p)
    /\ ~Pending(p)

LEMMA MarkChange ==
    ASSUME TypeOK, NEW P \in SUBSET Periods, rollup' = MarkStale(P),
           UNCHANGED <<nodes, outbox>>
    PROVE  RowsChange
<1>1. /\ \A p \in Periods \ P : rollup'[p] = rollup[p]
      /\ \A p \in P : rollup'[p].status = "stale"
  BY MarkStaleIs
<1> QED  BY <1>1 DEF RowsChange

LEMMA SetChange ==
    ASSUME RollupInv, NEW b \in Builders, job[b].period \in Periods,
           NEW r \in Rollup, r.status = "building" <=> r.lease # NoBuilder, Set(b, r),
           r.status # "ready",
           r.status = "absent" => Touched(job[b].period) \/ Wanted(job[b].period) = {},
           UNCHANGED <<nodes, outbox>>
    PROVE  RowsChange
<1>1. /\ rollup'[job[b].period] = r
      /\ \A p \in Periods : p # job[b].period => rollup'[p] = rollup[p]
  BY SetIs DEF RollupInv
<1> QED  BY <1>1 DEF RowsChange

LEMMA GiveBackChange ==
    ASSUME RollupInv, NEW b \in Builders, Building(b),
           NEW s \in {"stale", "failed"},
           Set(b, [rollup[job[b].period] EXCEPT !.status = s, !.lease = NoBuilder]),
           UNCHANGED <<nodes, outbox>>
    PROVE  RowsChange
<1> DEFINE r == [rollup[job[b].period] EXCEPT !.status = s, !.lease = NoBuilder]
<1>1. job[b].period \in Periods /\ rollup[job[b].period] \in Rollup
  BY BuildingIs
<1>2. r \in Rollup /\ r.status = s /\ r.lease = NoBuilder  BY <1>1 DEF Rollup
<1>3. Set(b, r)  OBVIOUS
<1> HIDE DEF r
<1> QED  BY <1>1, <1>2, <1>3, SetChange

LEMMA ClaimChange ==
    ASSUME RollupInv, NEW b \in Builders, Claim(b)
    PROVE  RowsChange
<1> DEFINE r == [rollup[job[b].period] EXCEPT !.status = "building", !.lease = b]
<1>1. job[b].period \in Periods /\ rollup[job[b].period] \in Rollup
  BY BuildingIs DEF Claim, At, Building
<1>2. r \in Rollup /\ r.status = "building" /\ r.lease = b  BY <1>1 DEF Rollup
<1>3. Set(b, r) /\ UNCHANGED <<nodes, outbox>>  BY DEF Claim
<1> HIDE DEF r
<1> QED  BY <1>1, <1>2, <1>3, SetChange

LEMMA PublishChange ==
    ASSUME RollupInv, NEW b \in Builders, Publish(b)
    PROVE  RowsChange \/ \E p \in Periods : Publishes(p)
<1> DEFINE p == job[b].period
<1>1. /\ job[b] \in Job /\ p \in Periods /\ JobOK(b) /\ Building(b)
      /\ job[b].phase = "model" /\ Owns(b) /\ UNCHANGED <<nodes, outbox>>
  BY BuildingIs DEF Publish, At, Building
<1>2. CASE Pending(p) \/ ~(job[b].sources \subseteq Stored)
  BY <1>1, <1>2, GiveBackChange DEF Publish, Stale
<1>3. CASE ~(Pending(p) \/ ~(job[b].sources \subseteq Stored))
  <2> DEFINE r == [status |-> "ready", lease |-> NoBuilder, sources |-> job[b].sources]
  <2>1. Set(b, r)  BY <1>3 DEF Publish
  <2>2. r \in Rollup /\ r.status = "ready" /\ r.lease = NoBuilder /\ r.sources = job[b].sources
    BY <1>1 DEF Rollup, Job
  <2>3. ~Touched(p)  BY <1>3 DEF RollupInv, OutboxOK, Touched, Pending
  <2>4. job[b].sources = Wanted(p)  BY <1>1, <2>3 DEF JobOK, KnowsSources
  <2> HIDE DEF r
  <2>5. rollup'[p] = r /\ \A q \in Periods : q # p => rollup'[q] = rollup[q]
    BY <1>1, <2>1, <2>2, SetIs DEF RollupInv
  <2>6. Publishes(p)  BY <1>1, <1>3, <2>2, <2>4, <2>5 DEF Publishes, Owns
  <2> QED  BY <1>1, <2>6
<1> QED  BY <1>2, <1>3

LEMMA ResolveChange ==
    ASSUME RollupInv, NEW b \in Builders, Resolve(b)
    PROVE  RowsChange
<1> DEFINE p == job[b].period
<1>1. /\ p \in Periods /\ JobOK(b) /\ Building(b) /\ job[b].phase = "resolve" /\ Owns(b)
      /\ Set(b, NoRollup) /\ UNCHANGED <<nodes, outbox>>
  BY BuildingIs DEF Resolve, At, Building
<1>2. ~Touched(p) => Wanted(p) = {}  BY <1>1 DEF JobOK, KnowsSources
<1>3. /\ NoRollup \in Rollup /\ NoRollup.status = "absent" /\ NoRollup.lease = NoBuilder
  BY DEF NoRollup, Rollup
<1> QED  BY <1>1, <1>2, <1>3, SetChange

LEMMA FailChange ==
    ASSUME RollupInv, NEW b \in Builders, Fail(b)
    PROVE  RowsChange
<1>1. CASE UNCHANGED rollup  BY <1>1 DEF Fail, RowsChange
<1>2. CASE Set(b, [rollup[job[b].period] EXCEPT !.status = "failed", !.lease = NoBuilder])
  BY <1>2, GiveBackChange DEF Fail, Building
<1> QED  BY <1>1, <1>2 DEF Fail

LEMMA PassChange ==
    ASSUME RollupInv, NEW b \in Builders,
           Reclaim(b) \/ MarkAggregates(b) \/ \E d \in Days : \E t \in Targets(d) : Rebuild(b, t)
    PROVE  RowsChange
<1>1. CASE Reclaim(b)  BY <1>1, MarkChange DEF Reclaim, RollupInv
<1>2. CASE MarkAggregates(b)
  <2>1. {p \in Aggregates : job[b].period \subseteq p} \in SUBSET Periods
    BY PeriodsAre
  <2> QED  BY <1>2, <2>1, MarkChange DEF MarkAggregates, RollupInv
<1>3. ASSUME NEW d \in Days, NEW t \in Targets(d), Rebuild(b, t)
      PROVE  RowsChange
  <2> DEFINE seeds == {t[i] : i \in DOMAIN t} \cup
                      {p \in Aggregates : \E k \in Days : {k} \in {t[i] : i \in DOMAIN t} /\ k \in p}
             P == {p \in seeds : rollup[p].status # "building"}
  <2>1. t \in Seq(Periods)  BY TargetsAre
  <2>2. {t[i] : i \in DOMAIN t} \subseteq Periods  BY <2>1, LenProperties
  <2>3. P \in SUBSET Periods  BY <2>2, PeriodsAre
  <2>4. rollup' = MarkStale(P) /\ UNCHANGED <<nodes, outbox>>  BY <1>3 DEF Rebuild
  <2> HIDE DEF P
  <2> QED  BY <2>3, <2>4, MarkChange DEF RollupInv
<1> QED  BY <1>1, <1>2, <1>3

(* The steps that leave the rows alone.                                    *)
LEMMA QuietChange ==
    ASSUME NEW b \in Builders,
           \/ List(b) \/ ReadDay(b) \/ ReadStatuses(b) \/ ReadContent(b) \/ ReadLineage(b)
           \/ ReadTexts(b) \/ Superseded(b) \/ EndPass(b)
    PROVE  RowsChange
<1>1. UNCHANGED <<nodes, outbox, rollup>>
  BY DEF List, ReadDay, ReadStatuses, ReadContent, ReadLineage, ReadTexts, Superseded, EndPass
<1> QED  BY <1>1 DEF RowsChange

LEMMA StepIs ==
    ASSUME RollupInv, [Next]_vars
    PROVE  \/ NodesChange
           \/ Drain /\ nodes' = nodes
           \/ RowsChange
           \/ \E p \in Periods : Publishes(p)
<1>1. CASE Mutation  BY <1>1, MutationChange
<1>2. CASE DrainAfterPublication  BY <1>2 DEF DrainAfterPublication
<1>3. ASSUME NEW b \in Builders, Maintenance(b) \/ EndPass(b) \/ Fail(b)
      PROVE  \/ Drain /\ nodes' = nodes
             \/ RowsChange
             \/ \E p \in Periods : Publishes(p)
  <2>1. CASE BeginPass(b) \/ NextBuild(b)  BY <2>1 DEF BeginPass, NextBuild
  <2>2. CASE Defer(b)
    BY <2>2, GiveBackChange DEF Defer, At, Building, Stale
  <2> QED  BY <1>3, <2>1, <2>2, PassChange, QuietChange, ClaimChange, PublishChange,
              ResolveChange, FailChange DEF Maintenance, Build
<1>4. ASSUME NEW b \in Operators, NEW d \in Days, NEW t \in Targets(d), Rebuild(b, t)
      PROVE  RowsChange
  BY <1>4, PassChange
<1>5. CASE UNCHANGED vars  BY <1>5 DEF vars, RowsChange
<1> QED  BY <1>1, <1>2, <1>3, <1>4, <1>5 DEF Next

(* A drain makes rows stale and does nothing else to them.                 *)
LEMMA DrainRows ==
    ASSUME RollupInv, Drain
    PROVE  \A p \in Periods : rollup'[p] = rollup[p] \/ rollup'[p].status = "stale"
<1>1. PICK P \in SUBSET Periods : rollup' = MarkStale(P)  BY DrainMarks
<1> QED  BY <1>1, MarkStaleIs DEF RollupInv

(* What is published is what a rollup of the period has to be made of at   *)
(* that moment, however long ago its build read its sources and whatever   *)
(* the outbox still holds (rollup_store.py mark_ready).                    *)
THEOREM PublishedCurrent == Spec => PublishesCurrent
<1> DEFINE A == \A p \in Periods :
                   rollup[p].status # "ready" /\ rollup'[p].status = "ready"
                      => rollup'[p].sources = Wanted(p)
<1>1. ASSUME RollupInv, [Next]_vars, NEW p \in Periods,
             rollup[p].status # "ready", rollup'[p].status = "ready"
      PROVE  rollup'[p].sources = Wanted(p)
  <2>1. CASE NodesChange  BY <1>1, <2>1 DEF NodesChange
  <2>2. CASE Drain  BY <1>1, <2>2, DrainRows
  <2>3. CASE RowsChange  BY <1>1, <2>3 DEF RowsChange
  <2>4. CASE \E q \in Periods : Publishes(q)  BY <1>1, <2>4 DEF Publishes
  <2> QED  BY <1>1, <2>1, <2>2, <2>3, <2>4, StepIs
<1>2. RollupInv /\ [Next]_vars => [A]_vars  BY <1>1
<1>3. Spec => [][A]_vars  BY <1>2, RollupSafe, PTL DEF Spec
<1> QED  BY <1>3 DEF PublishesCurrent
-----------------------------------------------------------------------------
(***************************************************************************)
(* No period is lost                                                       *)
(***************************************************************************)
NeverLost ==
    \A p \in Periods : Wanted(p) # {} /\ ~Touched(p) => rollup[p].status # "absent"

(* While the span of an event is marked day by day, the period still has   *)
(* to be marked as far as it was not.                                      *)
LEMMA NeverLostStep ==
    ASSUME RollupInv, NeverLost, [Next]_vars
    PROVE  NeverLost'
<1> SUFFICES ASSUME NEW p \in Periods, Wanted(p)' # {}, ~Touched(p)',
                    rollup'[p].status = "absent"
             PROVE  FALSE
  BY DEF NeverLost
<1>1. CASE NodesChange
  <2>1. ~Touched(p) /\ Wanted(p)' = Wanted(p) /\ rollup' = rollup
    BY <1>1 DEF NodesChange, Touched
  <2> QED  BY <2>1 DEF NeverLost
<1>2. CASE Drain /\ nodes' = nodes
  <2>1. Wanted(p)' = Wanted(p)  BY <1>2, UnchangedWanted
  <2>2. PICK P \in SUBSET Periods :
              /\ rollup' = MarkStale(P)
              /\ \A q \in Periods \ P : Touched(q) => Touched(q)'
    BY <1>2, DrainMarks
  <2>3. p \notin P /\ rollup'[p] = rollup[p]
    BY <2>2, MarkStaleIs DEF RollupInv
  <2>4. ~Touched(p)  BY <2>2, <2>3
  <2> QED  BY <2>1, <2>3, <2>4 DEF NeverLost
<1>3. ASSUME UNCHANGED <<nodes, outbox>>
      PROVE  Wanted(p)' = Wanted(p) /\ ~Touched(p)
  BY <1>3, UnchangedWanted DEF Touched
<1>4. CASE RowsChange  BY <1>3, <1>4 DEF RowsChange, NeverLost
<1>5. CASE \E q \in Periods : Publishes(q)
  BY <1>3, <1>5 DEF Publishes, NeverLost
<1> QED  BY <1>1, <1>2, <1>4, <1>5, StepIs

(* When all nodes were published with the feature enabled, a period with   *)
(* content has a row that says what is to be done, or an event over it     *)
(* waits.                                                                  *)
THEOREM NoneLost ==
    ASSUME History = <<>>
    PROVE  Spec => []NoPeriodLost
<1>1. Init => NeverLost
  <2> SUFFICES ASSUME Init, NEW p \in Periods  PROVE Wanted(p) = {}
    BY DEF NeverLost
  <2>1. RollupInv  BY RollupInit
  <2>2. Len(nodes) = 0
    <3>1. nodes = [i \in DOMAIN History |-> Leaf(History[i][1], History[i][2])]
      BY DEF Init
    <3>2. DOMAIN History = 1..0  BY LenProperties
    <3>3. DOMAIN nodes = 1..0 /\ nodes \in Seq(Node)
      BY <2>1, <3>1, <3>2 DEF RollupInv, NodesOK
    <3> QED  BY <3>3, LenProperties
  <2>3. Wanted(p) \subseteq 1..Len(nodes)
    BY <2>1, WantedIs DEF RollupInv, WantedIn, Frontier
  <2> QED  BY <2>2, <2>3
<1>2. RollupInv /\ NeverLost /\ [Next]_vars => NeverLost'  BY NeverLostStep
<1>3. RollupInv /\ NeverLost => NoPeriodLost
  <2>1. ASSUME RollupInv, NEW p \in Periods, ~Pending(p)  PROVE ~Touched(p)
    BY <2>1 DEF RollupInv, OutboxOK, Touched, Pending
  <2> QED  BY <2>1 DEF NeverLost, NoPeriodLost
<1> QED  BY <1>1, <1>2, <1>3, RollupSafe, PTL DEF Spec

-----------------------------------------------------------------------------
(***************************************************************************)
(* The rollups are a view that may lag but never misleads                  *)
(***************************************************************************)
LEMMA ViewInit == Init => View!Init
<1>1. Init => \A p \in Periods : rollup[p].status # "ready"  BY DEF Init, NoRollup
<1> QED  BY <1>1 DEF View!Init

LEMMA ViewStep ==
    ASSUME RollupInv, [Next]_vars
    PROVE  View!Next
<1>1. CASE NodesChange
  <2> DEFINE P == {p \in Periods : \E e \in outbox' : e.days \cap p # {}}
  <2>1. \A p \in Periods : (Pending(p)' <=> p \in P) /\ (Pending(p) => p \in P)
    BY <1>1 DEF NodesChange, Pending
  <2>2. \A p \in Periods \ P : Wanted(p)' = Wanted(p)
    BY <1>1 DEF NodesChange, Pending
  <2>3. View!Hidden(P)
    BY <1>1, <2>1 DEF NodesChange, View!Hidden
  <2>4. P \in SUBSET Periods  OBVIOUS
  <2> DEFINE W == [p \in Periods |-> Wanted(p)]
  <2>5. \A p \in Periods : W[p] = Wanted(p)  OBVIOUS
  <2>6. \A p \in Periods : W'[p] = Wanted(p)'  OBVIOUS
  <2>7. \A p \in Periods \ P : W'[p] = W[p]
    <3> HIDE DEF W, P
    <3> QED  BY <2>2, <2>5, <2>6
  <2>8. View!Change
    <3> HIDE DEF P
    <3> QED  BY <2>3, <2>4, <2>7 DEF View!Change, View!Hidden
  <2> QED  BY <2>8 DEF View!Next
<1>2. ASSUME nodes' = nodes,
             \A p \in Periods : rollup'[p].status = "ready" /\ ~Pending(p)' =>
                rollup'[p] = rollup[p] /\ ~Pending(p)
      PROVE  View!Next
  <2> DEFINE P == {p \in Periods : \/ rollup'[p].status # "ready"
                                   \/ \E e \in outbox' : e.days \cap p # {}}
  <2>1. \A p : Wanted(p)' = Wanted(p)  BY <1>2, UnchangedWanted
  <2>2. View!Hidden(P)  BY <1>2 DEF View!Hidden, Pending
  <2>3. P \in SUBSET Periods  OBVIOUS
  <2> DEFINE W == [p \in Periods |-> Wanted(p)]
  <2>4. W' = W  BY <2>1
  <2>5. View!Hide
    <3> HIDE DEF P
    <3> QED  BY <2>2, <2>3, <2>4 DEF View!Hide, View!Hidden
  <2> QED  BY <2>5 DEF View!Next
<1>3. CASE Drain /\ nodes' = nodes
  <2>1. PICK P \in SUBSET Periods :
              /\ rollup' = MarkStale(P)
              /\ \A f \in outbox :
                    \/ \E e \in outbox' : e.days = f.days /\ e.left \subseteq f.left
                    \/ \A d \in f.left, p \in Periods : d \in p => p \in P
    BY <1>3, DrainMarks
  <2>2. /\ \A p \in Periods \ P : rollup'[p] = rollup[p]
        /\ \A p \in P : rollup'[p].status = "stale"
    BY <2>1, MarkStaleIs DEF RollupInv
  <2>3. ASSUME NEW p \in Periods, rollup'[p].status = "ready", ~Pending(p)'
        PROVE  rollup'[p] = rollup[p] /\ ~Pending(p)
    <3>1. p \notin P /\ rollup'[p] = rollup[p]  BY <2>2, <2>3
    <3>2. ASSUME NEW f \in outbox, f.days \cap p # {}  PROVE FALSE
      <4>1. f.days \cap p \subseteq f.left
        BY <2>3, <3>1 DEF RollupInv, OutboxOK
      <4>2. ~\E e \in outbox' : e.days = f.days  BY <2>3, <3>2 DEF Pending
      <4> QED  BY <2>1, <3>1, <3>2, <4>1, <4>2
    <3> QED  BY <3>1, <3>2 DEF Pending
  <2> QED  BY <1>2, <1>3, <2>3
<1>4. CASE RowsChange
  <2>1. \A p : Pending(p)' <=> Pending(p)  BY <1>4 DEF RowsChange, Pending
  <2> QED  BY <1>2, <1>4, <2>1 DEF RowsChange
<1>5. ASSUME NEW q \in Periods, Publishes(q)  PROVE View!Next
  <2>1. \A p : (Pending(p)' <=> Pending(p)) /\ Wanted(p)' = Wanted(p)
    BY <1>5, UnchangedWanted DEF Publishes, Pending
  <2>2. View!Show  BY <1>5, <2>1 DEF Publishes, View!Show
  <2> QED  BY <2>2 DEF View!Next
<1> QED  BY <1>1, <1>3, <1>4, <1>5, StepIs

(* The rollups are a view of the nodes that may lag but never misleads: a  *)
(* change hides the touched periods in its own step, the drains and        *)
(* builds of any number of processes only hide more, and mark_ready shows  *)
(* nothing but what is current.                                            *)
THEOREM RollupsAreAView == Spec => ImplementsView
<1>1. RollupInv /\ [Next]_vars => View!Next  BY ViewStep
<1> QED  BY <1>1, ViewInit, RollupSafe, PTL DEF Spec, ImplementsView, View!Spec
-----------------------------------------------------------------------------
(***************************************************************************)
(* What a reader is served                                                 *)
(***************************************************************************)
(* While the reader asks, what is wanted of a day and what its ready row   *)
(* shows were both wanted at some moment since it began.                   *)
AskingOK ==
    asking \in {"ready", "rows"} =>
        \A d \in Window : /\ Wanted({d}) \in since[d]
                          /\ Ready(d) => rollup[{d}].sources \in since[d]

ReaderInv == RollupInv /\ AskingOK /\ ServedWasCurrent

LEMMA ReaderMoves ==
    ASSUME ReaderInv, Reader
    PROVE  ReaderInv'
<1>1. UNCHANGED vars
  BY DEF Reader, CheckPending, CountReady, ReadRows, Answered
<1>2. RollupInv'  BY <1>1, RollupStep DEF ReaderInv
<1>3. nodes' = nodes /\ rollup' = rollup /\ \A p : Wanted(p)' = Wanted(p)
  BY <1>1, UnchangedWanted DEF vars
<1>4. CASE CheckPending
  <2>1. ASSUME outbox = {}, NEW d \in Window, Ready(d)
        PROVE  rollup[{d}].sources = Wanted({d})
    BY <2>1, WindowAssumption, PeriodsAre
       DEF ReaderInv, RollupInv, RowsOK, Touched, Ready
  <2>2. CASE outbox = {}
    <3>1. asking' = "ready" /\ since' = [d \in Window |-> {Wanted({d})}]
      BY <1>4, <2>2 DEF CheckPending
    <3> QED  BY <1>2, <1>3, <2>1, <2>2, <3>1 DEF ReaderInv, AskingOK, ServedWasCurrent, Ready
  <2>3. CASE outbox # {}
    <3>1. UNCHANGED <<asking, since, served>>  BY <1>4, <2>3 DEF CheckPending
    <3> QED  BY <1>2, <1>3, <3>1 DEF ReaderInv, AskingOK, ServedWasCurrent, Ready
  <2> QED  BY <2>2, <2>3
<1>5. CASE CountReady
  BY <1>2, <1>3, <1>5 DEF CountReady, ReaderInv, AskingOK, ServedWasCurrent, Ready
<1>6. CASE ReadRows
  BY <1>2, <1>3, <1>6 DEF ReadRows, ReaderInv, AskingOK, ServedWasCurrent, Ready
<1>7. CASE Answered
  BY <1>2, <1>7 DEF Answered, ReaderInv, AskingOK, ServedWasCurrent
<1> QED  BY <1>4, <1>5, <1>6, <1>7 DEF Reader

LEMMA MeanwhileMoves ==
    ASSUME ReaderInv, Meanwhile
    PROVE  ReaderInv'
<1>1. RollupInv /\ Next /\ UNCHANGED <<asking, served>>
  BY DEF ReaderInv, Meanwhile
<1>2. RollupInv'  BY <1>1, RollupStep
<1>3. CASE asking \in {"ready", "rows"}
  <2>1. \A d \in Window : since'[d] = since[d] \cup {Wanted({d})'}
    BY <1>3 DEF Meanwhile
  <2>2. ASSUME NEW d \in Window, Ready(d)'
        PROVE  rollup'[{d}].sources \in since'[d]
    <3>1. {d} \in Periods  BY WindowAssumption, PeriodsAre
    <3>2. Ready(d) => rollup[{d}].sources \in since[d]
      BY <1>3 DEF ReaderInv, AskingOK
    <3>3. CASE rollup'[{d}] = rollup[{d}]  BY <2>1, <2>2, <3>2, <3>3 DEF Ready
    <3>4. CASE rollup'[{d}] # rollup[{d}]
      <4>1. ~NodesChange /\ ~RowsChange
        BY <2>2, <3>1, <3>4 DEF NodesChange, RowsChange, Ready
      <4>2. ~Drain  BY <1>1, <2>2, <3>1, <3>4, DrainRows DEF Ready
      <4>3. PICK p \in Periods : Publishes(p)  BY <1>1, <4>1, <4>2, StepIs
      <4>4. p = {d}  BY <3>1, <3>4, <4>3 DEF Publishes
      <4>5. Wanted({d})' = Wanted({d})  BY <4>3, UnchangedWanted DEF Publishes
      <4> QED  BY <2>1, <4>3, <4>4, <4>5 DEF Publishes
    <3> QED  BY <3>3, <3>4
  <2>3. AskingOK'  BY <2>1, <2>2 DEF AskingOK
  <2> QED  BY <1>1, <1>2, <1>3, <2>3 DEF ReaderInv, ServedWasCurrent
<1>4. CASE asking \notin {"ready", "rows"}
  <2>1. UNCHANGED <<asking, served, since>>  BY <1>4 DEF Meanwhile
  <2> QED  BY <1>2, <1>4, <2>1 DEF ReaderInv, AskingOK, ServedWasCurrent
<1> QED  BY <1>3, <1>4

(* Every text that is served was the text its day should have had at some  *)
(* moment while the reader was reading, although lcm_recent asks its three *)
(* questions one by one (src/tools.py:2035).                               *)
THEOREM ServedCurrent == ReaderSpec => []ServedWasCurrent
<1>1. ReaderInit => ReaderInv
  BY RollupInit DEF ReaderInit, ReaderInv, AskingOK, ServedWasCurrent
<1>2. ReaderInv /\ [ReaderNext]_<<vars, readerVars>> => ReaderInv'
  <2> SUFFICES ASSUME ReaderInv, [ReaderNext]_<<vars, readerVars>>  PROVE ReaderInv'
    OBVIOUS
  <2>1. CASE ReaderNext  BY <2>1, ReaderMoves, MeanwhileMoves DEF ReaderNext
  <2>2. CASE UNCHANGED <<vars, readerVars>>
    <3>1. UNCHANGED vars /\ UNCHANGED <<asking, served, since>>
      BY <2>2 DEF readerVars
    <3>2. RollupInv'  BY <3>1, RollupStep DEF ReaderInv
    <3>3. rollup' = rollup /\ \A p : Wanted(p)' = Wanted(p)
      BY <3>1, UnchangedWanted DEF vars
    <3> QED  BY <3>1, <3>2, <3>3 DEF ReaderInv, AskingOK, ServedWasCurrent, Ready
  <2> QED  BY <2>1, <2>2
<1> QED  BY <1>1, <1>2, PTL DEF ReaderSpec, ReaderInv

=============================================================================
