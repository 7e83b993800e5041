--------------------------- MODULE LifecycleState ---------------------------
(***************************************************************************)
(* The row that src/lifecycle_state.py keeps for one conversation, and the *)
(* change each of its operations makes to it.  The operators are pure: a   *)
(* module that owns the row decides what is atomic.                        *)
(*                                                                         *)
(* A missing row and EmptyRow are the same state here: every operation     *)
(* that reads the row treats "no row" as a row that names no session.      *)
(***************************************************************************)
EXTENDS Naturals

CONSTANTS
    Sessions,   \* host session identifiers
    NoSession   \* SQL NULL in a session column

ASSUME NoSessionAssumption == NoSession \notin Sessions

(***************************************************************************)
(* current, frontier   the session bound now and the largest store id its  *)
(*                     summaries have consumed                             *)
(* bound               current_bound_at, a fresh number for every bind     *)
(* lastFin, finFrontier  the session finalized last and the checkpoint it  *)
(*                     left for whoever resumes it                         *)
(***************************************************************************)
LifecycleRow ==
    [ current     : Sessions \cup {NoSession},
      frontier    : Nat,
      bound       : Nat,
      lastFin     : Sessions \cup {NoSession},
      finFrontier : Nat ]

EmptyRow ==
    [ current |-> NoSession, frontier |-> 0, bound |-> 0,
      lastFin |-> NoSession, finFrontier |-> 0 ]

Larger(m, n) == IF m > n THEN m ELSE n

-----------------------------------------------------------------------------

(* The checkpoint of session s is taken up again only if s was finalized   *)
(* last and nobody holds the conversation.                                 *)
ResumesFinalized(row, s) == row.current = NoSession /\ row.lastFin = s

(* bind_session: the row of the current owner is returned as it is.        *)
BindRow(row, s) ==
    IF row.current = s THEN row
    ELSE [ current     |-> s,
           frontier    |-> IF ResumesFinalized(row, s) THEN row.finFrontier ELSE 0,
           bound       |-> row.bound + 1,
           lastFin     |-> IF ResumesFinalized(row, s) THEN NoSession ELSE row.lastFin,
           finFrontier |-> IF ResumesFinalized(row, s) THEN 0 ELSE row.finFrontier ]

(* resume_compression_session raises unless the row can be resumed.        *)
CanResume(row, s) == row.current = s \/ ResumesFinalized(row, s)

(* A deliberate bug: the frontier is not put back.                          *)
ResumeRowAtZero(row, s, frontier) ==
    IF row.current = s THEN row ELSE [row EXCEPT !.current = s]

ResumeRow(row, s, frontier) ==
    IF row.current = s THEN row
    ELSE [row EXCEPT !.current = s, !.frontier = frontier]

(* A deliberate bug: the conversation is freed with its frontier.           *)
FinalizeRowKeepingFrontier(row, s, frontier, hasData) ==
    IF s \notin {row.current, row.lastFin} THEN row
    ELSE [row EXCEPT !.current = IF @ = s THEN NoSession ELSE @,
                     !.lastFin = s, !.finFrontier = Larger(frontier, @)]

(* finalize_session: a late end of a session the row no longer names       *)
(* changes nothing, and one without durable data only frees its slot.      *)
FinalizeRow(row, s, frontier, hasData) ==
    LET released == IF row.current = s
                    THEN [row EXCEPT !.current = NoSession, !.frontier = 0]
                    ELSE row
    IN  IF s \notin {row.current, row.lastFin} THEN row
        ELSE IF frontier = 0 /\ ~hasData THEN released
        ELSE [released EXCEPT !.lastFin = s,
                              !.finFrontier = Larger(frontier, row.finFrontier)]

(* A deliberate bug: the last writer wins.                                  *)
AdvanceRowWithoutMax(row, s, frontier) ==
    IF row.current = s THEN [row EXCEPT !.frontier = frontier] ELSE row

(* advance_frontier: SQL MAX guarded by the owning session.                *)
AdvanceRow(row, s, frontier) ==
    IF row.current = s
    THEN [row EXCEPT !.frontier = Larger(frontier, row.frontier)]
    ELSE row

=============================================================================
