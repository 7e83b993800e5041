---------------------------- MODULE MCSessionCarry ----------------------------
EXTENDS SessionCarry, TLC

(* A bound: nothing is published between an explicit /new and the last     *)
(* node, and after the last of MaxBinds binds and MaxSummaries nodes       *)
(* nothing is reset or forgotten.                                          *)
ForgetsOneNode ==
    /\ doomed = {} \/ published <= 1
    /\ \/ convRow.bound < MaxBinds \/ published < MaxSummaries
       \/ \A a \in Agents : agent[a].pendAt = NoSession

(* A bound: of two operations under way one has a read and its write left  *)
(* at most.                                                                *)
OneIsShort ==
    \A a, b \in Agents : a # b => \/ Len(agent[a].op.todo) <= 2
                                 \/ Len(agent[b].op.todo) <= 2

(* A bound: after the last of MaxBinds binds nobody stands before another, *)
(* where only a death could follow.                                        *)
BindsFit ==
    \A a \in Agents : convRow.bound = MaxBinds =>
        /\ NextIs(a, "bindRead") => convRow.current = agent[a].op.next
        /\ NextIs(a, "bindWrite") => agent[a].op.read.current = agent[a].op.next
=============================================================================
