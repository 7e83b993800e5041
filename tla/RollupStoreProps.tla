-------------------------- MODULE RollupStoreProps ---------------------------
(***************************************************************************)
(* What must hold of RollupStore.                                          *)
(***************************************************************************)
EXTENDS RollupStore

(* Every variable keeps to its values, and a row has a lease exactly while  *)
(* it is being built.                                                       *)
TypeOK ==
    /\ nodes \in Seq(Node)
    /\ outbox \subseteq Event
    /\ rollup \in [Periods -> Rollup]
    /\ \A p \in Periods : rollup[p].status = "building" <=> rollup[p].lease # NoBuilder
    /\ todo \in [Builders -> Seq(Periods)]
    /\ job \in [Builders -> Job]

(* A ready rollup over which no event waits is made of exactly the nodes    *)
(* that a rollup of the period should be made of now: no change of the      *)
(* nodes, race of builders, partial drain, late return or crash lets an     *)
(* outdated text be served (rollup_store.py mark_ready).                    *)
ReadyIsCurrent ==
    \A p \in Periods :
        rollup[p].status = "ready" /\ ~Pending(p) => rollup[p].sources = Wanted(p)

(* What is published is what a rollup of the period has to be made of at    *)
(* that moment, however long ago its build read its sources and whatever    *)
(* the outbox still holds: mark_ready is the only guard between the two.    *)
PublishesCurrent ==
    [][\A p \in Periods :
          rollup[p].status # "ready" /\ rollup'[p].status = "ready"
             => rollup'[p].sources = Wanted(p)]_vars

(* When all nodes were published with the feature enabled (no History), a   *)
(* period with content is never forgotten: it has a row that says what is   *)
(* to be done, or an event over it waits.                                   *)
NoPeriodLost ==
    \A p \in Periods :
        Wanted(p) # {} /\ ~Pending(p) => rollup[p].status # "absent"

(* The rollups are a view that may lag but never misleads.                  *)
NoView == {0}

View == INSTANCE RollupView WITH
    wanted <- [p \in Periods |-> Wanted(p)],
    view   <- [p \in Periods |-> IF rollup[p].status = "ready" /\ ~Pending(p)
                                 THEN rollup[p].sources ELSE NoView]

ImplementsView == View!Spec

=============================================================================
