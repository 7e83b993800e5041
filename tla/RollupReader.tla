---------------------------- MODULE RollupReader -----------------------------
(***************************************************************************)
(* lcm_recent serves the ready rollups of the days of a window             *)
(* (src/tools.py _recent_ready_rollups).  It asks three questions, each in *)
(* a statement of its own, with no transaction around them: does an event  *)
(* wait, is every day of the window ready, and what are the rows.  The     *)
(* nodes and the rollups move on in between.                               *)
(***************************************************************************)
EXTENDS RollupStore

CONSTANTS Window  \* the days asked for

ASSUME WindowAssumption == Window \subseteq Days /\ Window # {}

VARIABLES
    asking, \* the question the reader asks next, "served" after an answer
    served, \* the rows of the answer: for a day of the window its sources
    since   \* for a day what a rollup of it had to be made of, at one moment
            \* or another since the reader began (for the properties only)

readerVars == <<asking, served, since>>

Unread == [d \in Window |-> {}]

ReaderInit ==
    /\ Init /\ asking = "pending" /\ served = <<>> /\ since = Unread

Ready(d) == rollup[{d}].status = "ready"

(* A deliberate bug: nobody asks whether an event waits.                     *)
CheckReadyOnly ==
    /\ asking = "pending" /\ asking' = "ready"
    /\ since' = [d \in Window |-> {Wanted({d})}]
    /\ UNCHANGED <<vars, served>>

CheckPending ==
    /\ asking = "pending"
    /\ IF outbox # {} THEN UNCHANGED <<asking, since>>
       ELSE asking' = "ready" /\ since' = [d \in Window |-> {Wanted({d})}]
    /\ UNCHANGED <<vars, served>>

(* _recent_has_unready_rollups counts the ready days; without one of them   *)
(* the reader falls back to the leaves.                                     *)
CountReady ==
    /\ asking = "ready"
    /\ IF \A d \in Window : Ready(d)
       THEN asking' = "rows" /\ UNCHANGED since
       ELSE asking' = "pending" /\ since' = Unread
    /\ UNCHANGED <<vars, served>>

(* ready_rollups_for_window; an empty result is a fallback.                 *)
ReadRows ==
    LET rows == {d \in Window : Ready(d)}
    IN  /\ asking = "rows"
        /\ IF rows = {}
           THEN asking' = "pending" /\ since' = Unread /\ UNCHANGED served
           ELSE /\ asking' = "served" /\ UNCHANGED since
                /\ served' = [d \in rows |-> rollup[{d}].sources]
        /\ UNCHANGED vars

(* The answer is used and the next call begins.                             *)
Answered ==
    /\ asking = "served" /\ asking' = "pending" /\ served' = <<>>
    /\ since' = Unread /\ UNCHANGED vars

Reader == CheckPending \/ CountReady \/ ReadRows \/ Answered

Meanwhile ==
    /\ Next
    /\ since' = IF asking \in {"ready", "rows"}
                THEN [d \in Window |-> since[d] \cup {Wanted({d})'}] ELSE since
    /\ UNCHANGED <<asking, served>>

ReaderNext == Reader \/ Meanwhile

ReaderSpec == ReaderInit /\ [][ReaderNext]_<<vars, readerVars>>

-----------------------------------------------------------------------------
(* Every text that is served was the text its day should have had at some   *)
(* moment while the reader was reading: a change that was complete before   *)
(* the call is never missing, although the questions are asked one by one   *)
(* ("Do not serve a previously-ready rollup while that durable event is     *)
(* still waiting", src/tools.py:2035).                                      *)
ServedWasCurrent ==
    asking = "served" => \A d \in DOMAIN served : served[d] \in since[d]

=============================================================================
