---------------------------- MODULE MCRollupReader ----------------------------
EXTENDS RollupReader, MCRollupStore

(* What a step can still read, with the reader in the middle of a call.      *)
LiveReader == <<Live, readerVars>>

(* A leaf of the first day, or of both. *)
TwoSpans == {<<1, 1>>, <<1, 2>>}

AtWork  == {b \in Builders : job[b] # NoJob \/ todo[b] # <<>>}
Reading == asking # "pending"

(* A bound: two processes at work, a reader in the middle of a call and a    *)
(* node that condenses the first: any of them beside one process at work,    *)
(* but no two of them.                                                       *)
OneBesideOne ==
    /\ Cardinality(AtWork) > 1 => ~Reading /\ Len(nodes) <= 1
    /\ Len(nodes) > 1 => ~Reading /\ nodes[1].parent = 2
=============================================================================
