----------------------------- MODULE RollupView ------------------------------
(***************************************************************************)
(* What temporal rollups promise a reader: a view of the nodes, period by  *)
(* period, that may lag behind but is never wrong.  A change of the nodes  *)
(* takes the touched periods out of the view in the same step, and only    *)
(* what is current is put back.                                            *)
(***************************************************************************)
CONSTANTS Periods, NoView

VARIABLES
    wanted, \* for each period the nodes a rollup has to be made of
    view    \* for each period the nodes its rollup shows, or NoView

vars == <<wanted, view>>

Init == view = [p \in Periods |-> NoView]

Hidden(P) == view' = [p \in Periods |-> IF p \in P THEN NoView ELSE view[p]]

Change ==
    \E P \in SUBSET Periods :
        /\ \A p \in Periods \ P : wanted'[p] = wanted[p]
        /\ Hidden(P)

Hide == \E P \in SUBSET Periods : Hidden(P) /\ UNCHANGED wanted

Show ==
    \E p \in Periods :
        /\ view[p] = NoView
        /\ view' = [view EXCEPT ![p] = wanted[p]]
        /\ UNCHANGED wanted

Next == Change \/ Hide \/ Show

Spec == Init /\ [][Next]_vars

=============================================================================
