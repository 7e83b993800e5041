------------------------------ MODULE SessionCarry ------------------------------
(***************************************************************************)
(* What moves a conversation from one session to the next: the session     *)
(* hooks of src/engine.py (start, end, reset, rollover and the boundary of *)
(* a compression) and the explicit /new of src/session_reset.py.  None of  *)
(* them is one transaction: an operation is a program of statements on the *)
(* lifecycle row and the summary nodes, and a process may die between two  *)
(* of them.                                                                *)
(*                                                                         *)
(* One conversation, whose key is not a session id; no session of it       *)
(* bypasses the store.  Of its messages only that there may be some is     *)
(* kept, and that a summary consumes more of them than the one before.     *)
(***************************************************************************)
EXTENDS LifecycleState, Sequences, FiniteSets

CONSTANTS Agents,        \* engines bound to sessions of the conversation
          MaxSummaries,  \* bound on published summaries
          MaxBinds,      \* bound on binds of the row
          Intrusion      \* whether hooks run during an explicit /new

ASSUME CarryAssumption == Intrusion \in BOOLEAN /\ MaxSummaries \in Nat /\ MaxBinds \in Nat

VARIABLES convRow,    \* the row of the conversation
          summaries,  \* nodes: number of the publication and session
          published,  \* how many nodes were ever published
          agent,      \* each engine: session, marker, pending reset, program
          gateway,    \* the program of an explicit /new
          doomed      \* history: <<session, node>> a /new has set out to forget

carryVars == <<convRow, summaries, published, agent, gateway, doomed>>

NoRead == EmptyRow
NoProgram == [todo |-> <<>>, s |-> NoSession, next |-> NoSession, f |-> 0, read |-> NoRead]
Unbound == [at |-> NoSession, mark |-> 0, pendAt |-> NoSession, pendMark |-> 0,
            op |-> NoProgram]

NodesOf(s) == {n \in summaries : n.home = s}
Names(row, s) == s \in {row.current, row.lastFin}

CarryInit ==
    /\ convRow = EmptyRow /\ summaries = {} /\ published = 0
    /\ agent = [a \in Agents |-> Unbound]
    /\ gateway = NoProgram
    /\ doomed = {}

-----------------------------------------------------------------------------
(* Statements. *)

(* finalize_session computes the row from what it read before; data tells   *)
(* whether the session has messages or nodes.                               *)
FinalizeWrite(read, row, s, f, data) ==
    IF ~Names(read, s) THEN row
    ELSE IF f = 0 /\ ~data
    THEN IF read.current = s /\ row.current = s
         THEN [row EXCEPT !.current = NoSession, !.frontier = 0] ELSE row
    ELSE IF ~Names(row, s) THEN row
    ELSE LET done == FinalizeRow(read, s, f, TRUE)
         IN [row EXCEPT !.current = done.current, !.frontier = done.frontier,
                        !.lastFin = done.lastFin, !.finFrontier = done.finFrontier]

(* A deliberate bug: the row of the current owner is written back.          *)
BindWriteAlways(read, row, s) ==
    IF read.current = s THEN read ELSE [BindRow(read, s) EXCEPT !.bound = row.bound + 1]

(* bind_session upserts every column of the row it computed.                *)
BindWrite(read, row, s) ==
    IF read.current = s THEN row ELSE [BindRow(read, s) EXCEPT !.bound = row.bound + 1]

(* clear_carry_for_explicit_new. *)
ClearCarry(row, s) ==
    [row EXCEPT !.current = IF @ = s THEN NoSession ELSE @,
                !.frontier = IF row.current = s THEN 0 ELSE @,
                !.lastFin = NoSession, !.finFrontier = 0]

Reassigned(old, new) ==
    {IF n.home = old THEN [n EXCEPT !.home = new] ELSE n : n \in summaries}

-----------------------------------------------------------------------------
(* Programs of an engine. *)

FinalizeSteps == <<"finRead", "finWrite">>
BindSteps == <<"bindRead", "bindWrite">>

MayBegin(a) == agent[a].op.todo = <<>> /\ (Intrusion \/ gateway.todo = <<>>)

Begins(a, op) == agent' = [agent EXCEPT ![a].op = op]
Calls(a, op) == /\ MayBegin(a)
                /\ Begins(a, op)
                /\ UNCHANGED <<convRow, summaries, published, gateway, doomed>>

(* _finalize_pending_reset_boundary for the session that is left.           *)
PendingMark(a, row) ==
    IF row.current = agent[a].pendAt THEN Larger(agent[a].pendMark, row.frontier)
    ELSE agent[a].pendMark
WasReset(a) == agent[a].pendAt # NoSession /\ agent[a].pendAt = agent[a].at

BindProgram(a, s, left) ==
    IF left
    THEN [NoProgram EXCEPT !.todo = FinalizeSteps \o BindSteps, !.s = agent[a].pendAt,
                           !.next = s, !.f = PendingMark(a, convRow)]
    ELSE [NoProgram EXCEPT !.todo = BindSteps, !.next = s]

StartSession(a, s) == Calls(a, BindProgram(a, s, WasReset(a) /\ agent[a].at # s))

EndSession(a) ==
    /\ agent[a].at # NoSession
    /\ Calls(a, [NoProgram EXCEPT !.todo = FinalizeSteps, !.s = agent[a].at, !.f = agent[a].mark])

ResetSession(a) ==
    /\ agent[a].at # NoSession
    /\ Calls(a, [NoProgram EXCEPT !.todo = <<"reset">>, !.s = agent[a].at])

(* rollover_session: end, reset, start and the carry of retained nodes.     *)
Rollover(a, s) ==
    /\ agent[a].at \notin {NoSession, s}
    /\ \E carry \in {<<>>, <<"move">>} :
          Calls(a, [NoProgram EXCEPT
                       !.todo = FinalizeSteps \o <<"reset">> \o FinalizeSteps \o BindSteps \o carry,
                       !.s = agent[a].at, !.next = s, !.f = agent[a].mark])

(* A boundary carries the summaries of the session the host names, or, when *)
(* the row does not prove that one, of the session the engine is bound to;  *)
(* NoSession for none.                                                      *)
Proven(row, s) ==
    NodesOf(s) # {} /\ (row.current = s \/ (row.current = NoSession /\ row.lastFin = s))
CarrySource(a, row, old) ==
    IF Proven(row, old) \/ agent[a].at \in {NoSession, old} THEN old
    ELSE IF Proven(row, agent[a].at) THEN agent[a].at ELSE NoSession

CarriedMark(a, row, src) ==
    LET own  == IF agent[a].at = src THEN agent[a].mark ELSE 0
        left == IF agent[a].pendAt = src THEN agent[a].pendMark ELSE 0
        kept == IF Names(row, src) THEN Larger(row.frontier, row.finFrontier) ELSE 0
    IN Larger(Larger(own, left), kept)

Boundary(a, old, new) ==
    LET src == CarrySource(a, convRow, old)
    IN /\ old # new
       /\ IF src \notin {NoSession, new}
          THEN Calls(a, [NoProgram EXCEPT
                            !.todo = FinalizeSteps \o <<"move">> \o BindSteps \o <<"advance">>,
                            !.s = src, !.next = new, !.f = CarriedMark(a, convRow, src)])
          ELSE Calls(a, BindProgram(a, new, WasReset(a)))

-----------------------------------------------------------------------------
(* The statements of the programs, one at a time. *)

NextIs(a, step) == agent[a].op.todo # <<>> /\ Head(agent[a].op.todo) = step
Continued(a) == IF Len(agent[a].op.todo) = 1 THEN NoProgram
                ELSE [agent[a].op EXCEPT !.todo = Tail(@), !.read = NoRead]

ReadRow(a) ==
    /\ NextIs(a, "finRead") \/ NextIs(a, "bindRead")
    /\ Begins(a, [Continued(a) EXCEPT !.read = convRow])
    /\ UNCHANGED <<convRow, summaries, published, gateway, doomed>>

DoFinalize(a) ==
    /\ NextIs(a, "finWrite")
    /\ \E told \in BOOLEAN : LET op == agent[a].op IN
          convRow' = FinalizeWrite(op.read, convRow, op.s, op.f, told \/ NodesOf(op.s) # {})
    /\ Begins(a, Continued(a))
    /\ UNCHANGED <<summaries, published, gateway, doomed>>

DoBind(a) ==
    /\ NextIs(a, "bindWrite")
    /\ LET op == agent[a].op IN
         /\ convRow' = BindWrite(op.read, convRow, op.next)
         /\ convRow'.bound <= MaxBinds
         /\ agent' = [agent EXCEPT ![a] =
                [at |-> op.next, op |-> Continued(a), pendAt |-> NoSession, pendMark |-> 0,
                 mark |-> IF op.read.current = op.next THEN op.read.frontier
                          ELSE convRow'.frontier]]
    /\ UNCHANGED <<summaries, published, gateway, doomed>>

(* The reset notes what a later start finalizes; the configured depth       *)
(* decides which nodes it retains.                                          *)
DoReset(a) ==
    /\ NextIs(a, "reset")
    /\ agent' = [agent EXCEPT ![a] = [@ EXCEPT !.op = Continued(a), !.pendAt = agent[a].at,
                                                !.pendMark = agent[a].mark, !.mark = 0]]
    /\ \E shallow \in SUBSET NodesOf(agent[a].op.s) : summaries' = summaries \ shallow
    /\ UNCHANGED <<convRow, published, gateway, doomed>>

DoMove(a) ==
    /\ NextIs(a, "move")
    /\ summaries' = Reassigned(agent[a].op.s, agent[a].op.next)
    /\ Begins(a, Continued(a))
    /\ UNCHANGED <<convRow, published, gateway, doomed>>

DoAdvance(a) ==
    /\ NextIs(a, "advance")
    /\ LET op == agent[a].op IN
         /\ convRow' = IF op.f = 0 THEN convRow ELSE AdvanceRow(convRow, op.next, op.f)
         /\ agent' = [agent EXCEPT ![a].op = Continued(a),
                                   ![a].mark = IF op.f > 0 THEN convRow'.frontier ELSE @]
    /\ UNCHANGED <<summaries, published, gateway, doomed>>

(* publish_node rechecks the binding and advances the frontier with it.     *)
PublishSummary(a) ==
    /\ MayBegin(a) /\ agent[a].at # NoSession
    /\ published < MaxSummaries
    /\ convRow.current = agent[a].at
    /\ published' = published + 1
    /\ summaries' = summaries \cup {[id |-> published + 1, home |-> agent[a].at]}
    /\ convRow' = AdvanceRow(convRow, agent[a].at, published + 1)
    /\ agent' = [agent EXCEPT ![a].mark = published + 1]
    /\ UNCHANGED <<gateway, doomed>>

EngineDies(a) ==
    /\ agent[a].at # NoSession \/ agent[a].op.todo # <<>>
    /\ agent' = [agent EXCEPT ![a] = Unbound]
    /\ UNCHANGED <<convRow, summaries, published, gateway, doomed>>

-----------------------------------------------------------------------------
(* reset_explicit_new_carry, which may be tried again after a crash.        *)

(* A deliberate bug: the row is cleared before the nodes are deleted.        *)
ForgetRowFirst == <<"clear", "purge">>
ForgetSteps == <<"purge", "clear">>

FindOwned(s) ==
    /\ gateway.todo = <<>>
    /\ Intrusion \/ \A b \in Agents : agent[b].op.todo = <<>>
    /\ Names(convRow, s)
    /\ gateway' = [NoProgram EXCEPT !.todo = ForgetSteps, !.s = s, !.read = convRow]
    /\ doomed' = doomed \cup {<<s, n.id>> : n \in NodesOf(s)}
    /\ UNCHANGED <<convRow, summaries, published, agent>>

GatewayRest == IF Len(gateway.todo) = 1 THEN NoProgram ELSE [gateway EXCEPT !.todo = Tail(@)]

(* The owned sessions are emptied one after the other, in batches.          *)
PurgeOwned ==
    /\ gateway.todo # <<>> /\ Head(gateway.todo) = "purge"
    /\ LET owned == {n \in summaries : Names(gateway.read, n.home)}
       IN IF owned = {}
          THEN gateway' = GatewayRest /\ UNCHANGED summaries
          ELSE /\ \E n \in owned : summaries' = summaries \ {n}
               /\ UNCHANGED gateway
    /\ UNCHANGED <<convRow, published, agent, doomed>>

ClearRow ==
    /\ gateway.todo # <<>> /\ Head(gateway.todo) = "clear"
    /\ convRow' = IF Names(convRow, gateway.s) THEN ClearCarry(convRow, gateway.s) ELSE convRow
    /\ gateway' = GatewayRest
    /\ UNCHANGED <<summaries, published, agent, doomed>>

GatewayDies ==
    /\ gateway.todo # <<>>
    /\ gateway' = NoProgram
    /\ UNCHANGED <<convRow, summaries, published, agent, doomed>>

-----------------------------------------------------------------------------
CarryNext ==
    \/ \E a \in Agents :
          \/ \E s \in Sessions : StartSession(a, s) \/ Rollover(a, s)
          \/ \E old, new \in Sessions : Boundary(a, old, new)
          \/ EndSession(a) \/ ResetSession(a)
          \/ ReadRow(a) \/ DoFinalize(a) \/ DoBind(a) \/ DoReset(a) \/ DoMove(a)
          \/ DoAdvance(a)
          \/ PublishSummary(a)
          \/ EngineDies(a)
    \/ \E s \in Sessions : FindOwned(s)
    \/ PurgeOwned \/ ClearRow \/ GatewayDies

CarrySpec == CarryInit /\ [][CarryNext]_carryVars

-----------------------------------------------------------------------------
(* No step of an explicit /new leaves a summary it set out to forget in a   *)
(* session that a second try would not find, wherever the first one died.   *)
ForgettingCanBeRetried ==
    [][gateway' # gateway =>
          \A n \in summaries' : <<n.home, n.id>> \in doomed' => Names(convRow', n.home)
                                \/ ~Names(convRow, n.home)]_carryVars

(* The frontier of the session that holds the conversation is taken back   *)
(* only in one way, whatever the hooks of other processes do meanwhile:    *)
(* by the late end of the session finalized last, which puts back the      *)
(* frontier it read.  No publication, bind or boundary does, from however  *)
(* old a read it writes (finalize_session, bind_session, advance_frontier). *)
EndsLate(a) == /\ NextIs(a, "finWrite")
               /\ agent[a].op.s = convRow.lastFin
               /\ agent[a].op.read.current = convRow.current
OnlyLateEndsTakeBack ==
    [][convRow.current # NoSession /\ convRow'.frontier < convRow.frontier
       /\ convRow'.current = convRow.current /\ convRow'.bound = convRow.bound
          => \E a \in Agents : EndsLate(a)
                               /\ convRow'.frontier = agent[a].op.read.frontier]_carryVars

(* The session whose summaries a boundary carries. *)
CarriesFrom(row) == IF row.current # NoSession THEN row.current ELSE row.lastFin

(* "A late end hook from an older agent must not replace a newer           *)
(* conversation's carry source", src/lifecycle_state.py:337: the end of a  *)
(* session that no longer holds the conversation leaves the one that does. *)
LateEndKeepsCarrySource ==
    [][\A a \in Agents :
          DoFinalize(a) /\ convRow.current \notin {NoSession, agent[a].op.s}
              => CarriesFrom(convRow') = CarriesFrom(convRow)]_carryVars
=============================================================================
