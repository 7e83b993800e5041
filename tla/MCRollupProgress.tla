-------------------------- MODULE MCRollupProgress ---------------------------
EXTENDS RollupProgress, MCRollupStore

(* Two months and the first week of each, as the queries of a pass order    *)
(* them.                                                                    *)
TwoMonths == <<{1, 2, 3}, {1, 2}, {4, 5, 6}, {4, 5}>>

(* Leaves over two days of the first week and one of the second month.      *)
Enabled == <<<<1, 1>>, <<2, 2>>, <<4, 4>>>>
=============================================================================
