---------------------------- MODULE MCRollupStore ----------------------------
EXTENDS RollupStoreProps, TLC

Symmetry == Permutations(Builders)

(* Two days and the week they are in.                                       *)
OneWeek == <<{1, 2}>>

Nothing == <<>>

AllSpans == {s \in Days \X Days : s[1] <= s[2]}

(* What a step can still read: the sources of a rollup that is not ready    *)
(* only while an aggregate build that saw it ready has not read them, the   *)
(* ready days of a job until they are used, its sources until it publishes. *)
ReadLater(p) ==
    rollup[p].status = "ready" \/
    \E b \in Builders : job[b].phase \in {"content", "lineage"} /\ \E d \in job[b].ready : p = {d}

Live ==
    <<nodes, outbox, todo,
      [p \in Periods |-> IF ReadLater(p) THEN rollup[p] ELSE [rollup[p] EXCEPT !.sources = {}]],
      [b \in Builders |->
          [job[b] EXCEPT !.ready = IF job[b].phase \in {"content", "lineage"} THEN @ ELSE {},
                         !.sources = IF job[b].phase \in {"texts", "model"} THEN @ ELSE {}]]>>
=============================================================================
