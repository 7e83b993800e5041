---------------------------- MODULE Sessions_proofs -----------------------------
(***************************************************************************)
(* Only a late end takes the frontier of a session back, and forgetting    *)
(* can be tried again, for any number of sessions and engines whose        *)
(* operations overlap and whose processes die between any two statements;  *)
(* and the auxiliary agents of a host are kept apart, for any number of    *)
(* agents and session ids.                                                 *)
(***************************************************************************)
EXTENDS SessionCarry, AuxiliarySessions, TLAPS

-----------------------------------------------------------------------------
(***************************************************************************)
(* The invariant                                                           *)
(***************************************************************************)
Places == Sessions \cup {NoSession}
Steps == {"finRead", "finWrite", "bindRead", "bindWrite", "reset", "move", "advance",
          "purge", "clear"}
Program == [todo : Seq(Steps), s : Places, next : Places, f : Nat, read : LifecycleRow]
Engine == [at : Places, mark : Nat, pendAt : Places, pendMark : Nat, op : Program]

CarryTypes == /\ convRow \in LifecycleRow
              /\ published \in Nat
              /\ agent \in [Agents -> Engine]
              /\ gateway \in Program

Busy(a) == agent[a].op.todo # <<>>
Alone == gateway.todo # <<>> => \A a \in Agents : ~Busy(a)

(* An explicit /new still sees the row it read, and comes to clear it when *)
(* the sessions it read are empty.                                         *)
Forgetting ==
    gateway.todo # <<>> =>
        /\ gateway.s \in Sessions /\ gateway.read = convRow
        /\ gateway.todo \in {<<"purge", "clear">>, <<"clear">>}
        /\ gateway.todo = <<"clear">> => \A n \in summaries : ~Names(convRow, n.home)

CarryInv == CarryTypes /\ (~Intrusion => Alone /\ Forgetting)

(* What every step does to the row and to the summaries.                   *)
TakenBack ==
    convRow.current # NoSession /\ convRow'.frontier < convRow.frontier
    /\ convRow'.current = convRow.current /\ convRow'.bound = convRow.bound
        => \E a \in Agents : EndsLate(a) /\ convRow'.frontier = agent[a].op.read.frontier
Retriable == gateway' # gateway =>
                \A n \in summaries' : <<n.home, n.id>> \in doomed'
                   => Names(convRow', n.home) \/ ~Names(convRow, n.home)

-----------------------------------------------------------------------------
(***************************************************************************)
(* Programs and rows                                                       *)
(***************************************************************************)
LEMMA EmptyRows == EmptyRow \in LifecycleRow /\ NoRead \in LifecycleRow
BY DEF EmptyRow, NoRead, LifecycleRow

LEMMA Nothing == NoProgram \in Program /\ NoProgram.todo = <<>>
BY EmptyRows DEF NoProgram, Program, Places

LEMMA Joined ==
    ASSUME NEW p \in Seq(Steps), NEW q \in Seq(Steps)
    PROVE  p \o q \in Seq(Steps)
OBVIOUS

LEMMA Parts ==
    /\ FinalizeSteps \in Seq(Steps) /\ BindSteps \in Seq(Steps) /\ <<>> \in Seq(Steps)
    /\ <<"reset">> \in Seq(Steps) /\ <<"move">> \in Seq(Steps) /\ <<"advance">> \in Seq(Steps)
BY DEF FinalizeSteps, BindSteps, Steps

LEMMA FinalizedRow ==
    ASSUME NEW read \in LifecycleRow, NEW row \in LifecycleRow, NEW s \in Places,
           NEW f \in Nat, NEW data \in BOOLEAN
    PROVE  LET after == FinalizeWrite(read, row, s, f, data)
           IN  /\ after \in LifecycleRow
               /\ \/ after = row
                  \/ after.current = NoSession
                  \/ /\ after.current = read.current /\ after.frontier = read.frontier
                     /\ read.current # s /\ Names(row, s)
<1>1. /\ row.frontier \in Nat /\ row.bound \in Nat /\ row.finFrontier \in Nat
      /\ row.current \in Places /\ row.lastFin \in Places
      /\ read.frontier \in Nat /\ read.finFrontier \in Nat /\ read.current \in Places
  BY DEF LifecycleRow, Places
<1>2. Larger(f, read.finFrontier) \in Nat  BY <1>1 DEF Larger
<1>3. CASE ~Names(read, s) \/ (f = 0 /\ ~data)
  <2>1. PICK freed : freed = [row EXCEPT !.current = NoSession, !.frontier = 0]  OBVIOUS
  <2>2. freed \in LifecycleRow /\ freed.current = NoSession
    BY <1>1, <2>1 DEF LifecycleRow
  <2>3. FinalizeWrite(read, row, s, f, data) \in {row, freed}
    BY <1>3, <2>1 DEF FinalizeWrite
  <2> QED  BY <2>2, <2>3
<1>4. CASE Names(read, s) /\ ~(f = 0 /\ ~data)
  <2>1. PICK done : done = FinalizeRow(read, s, f, TRUE)  OBVIOUS
  <2>2. /\ done.lastFin = s /\ done.finFrontier = Larger(f, read.finFrontier)
        /\ read.current = s => done.current = NoSession /\ done.frontier = 0
        /\ read.current # s => done.current = read.current /\ done.frontier = read.frontier
    BY <1>1, <1>4, <2>1 DEF FinalizeRow, Names, LifecycleRow
  <2>3. done.current \in Places /\ done.frontier \in Nat /\ done.lastFin \in Places
        /\ done.finFrontier \in Nat
    BY <1>1, <1>2, <2>2 DEF Places
  <2>4. PICK after : after = [row EXCEPT !.current = done.current, !.frontier = done.frontier,
                                         !.lastFin = done.lastFin, !.finFrontier = done.finFrontier]
    OBVIOUS
  <2>5. FinalizeWrite(read, row, s, f, data) = IF Names(row, s) THEN after ELSE row
    BY <1>4, <2>1, <2>4 DEF FinalizeWrite
  <2>6. after.current = done.current /\ after.frontier = done.frontier
    BY <2>4 DEF LifecycleRow
  <2>7. after \in LifecycleRow
    BY <2>3, <2>4 DEF LifecycleRow, Places
  <2> QED  BY <2>2, <2>5, <2>6, <2>7
<1> QED  BY <1>3, <1>4

LEMMA BoundRow ==
    ASSUME NEW read \in LifecycleRow, NEW row \in LifecycleRow, NEW s \in Places
    PROVE  LET after == BindWrite(read, row, s)
           IN after \in LifecycleRow /\ (after = row \/ after.bound # row.bound)
<1>1. read.frontier \in Nat /\ read.bound \in Nat /\ read.finFrontier \in Nat
      /\ read.current \in Places /\ read.lastFin \in Places /\ row.bound \in Nat
  BY DEF LifecycleRow, Places
<1>2. CASE read.current = s  BY <1>2 DEF BindWrite
<1>3. CASE read.current # s
  <2>1. BindRow(read, s) \in LifecycleRow
    BY <1>1, <1>3 DEF BindRow, LifecycleRow, Places
  <2>2. BindWrite(read, row, s) = [BindRow(read, s) EXCEPT !.bound = row.bound + 1]
    BY <1>3 DEF BindWrite
  <2> QED  BY <1>1, <2>1, <2>2 DEF LifecycleRow
<1> QED  BY <1>2, <1>3

LEMMA AdvancedRow ==
    ASSUME NEW row \in LifecycleRow, NEW s, NEW f \in Nat
    PROVE  LET after == AdvanceRow(row, s, f)
           IN after \in LifecycleRow /\ after.frontier >= row.frontier
BY DEF AdvanceRow, Larger, LifecycleRow

LEMMA ClearedRow ==
    ASSUME NEW row \in LifecycleRow, NEW s
    PROVE  LET after == ClearCarry(row, s)
           IN  /\ after \in LifecycleRow
               /\ after.frontier = row.frontier \/ after.current = NoSession
BY DEF ClearCarry, LifecycleRow

-----------------------------------------------------------------------------
(***************************************************************************)
(* The operations of an engine                                             *)
(***************************************************************************)
LEMMA AgentFields ==
    ASSUME CarryInv, NEW a \in Agents
    PROVE  /\ agent[a] \in Engine
           /\ agent[a].at \in Places /\ agent[a].mark \in Nat
           /\ agent[a].pendAt \in Places /\ agent[a].pendMark \in Nat
           /\ agent[a].op \in Program
           /\ agent[a].op.s \in Places /\ agent[a].op.next \in Places /\ agent[a].op.f \in Nat
           /\ agent[a].op.read \in LifecycleRow /\ agent[a].op.read.frontier \in Nat
           /\ convRow \in LifecycleRow /\ convRow.frontier \in Nat /\ convRow.finFrontier \in Nat
BY DEF CarryInv, CarryTypes, Engine, Program, LifecycleRow

(* An engine that works finds no explicit /new under way, if none is       *)
(* intruded upon; and then it may change anything.                         *)
LEMMA EngineKeeps ==
    ASSUME CarryInv, NEW a \in Agents, NEW e \in Engine,
           ~Intrusion => gateway.todo = <<>>, gateway' = gateway,
           agent' = [agent EXCEPT ![a] = e], convRow' \in LifecycleRow, published' \in Nat
    PROVE  CarryInv'
BY DEF CarryInv, CarryTypes, Alone, Forgetting

LEMMA BusyAlone ==
    ASSUME CarryInv, NEW a \in Agents, Busy(a)
    PROVE  ~Intrusion => gateway.todo = <<>>
BY DEF CarryInv, Alone

LEMMA CallKeeps ==
    ASSUME CarryInv, NEW a \in Agents, NEW op \in Program, Calls(a, op)
    PROVE  CarryInv'
<1>1. PICK e : e = [agent[a] EXCEPT !.op = op]  OBVIOUS
<1>2. e \in Engine  BY <1>1, AgentFields DEF Engine
<1>3. agent' = [agent EXCEPT ![a] = e]
  BY <1>1 DEF Calls, Begins, CarryInv, CarryTypes, Engine
<1>4. /\ ~Intrusion => gateway.todo = <<>>
      /\ gateway' = gateway /\ convRow' \in LifecycleRow /\ published' \in Nat
  BY DEF Calls, MayBegin, CarryInv, CarryTypes
<1> QED  BY <1>2, <1>3, <1>4, EngineKeeps

LEMMA BindProgramTyped ==
    ASSUME CarryInv, NEW a \in Agents, NEW s \in Sessions, NEW left \in BOOLEAN
    PROVE  BindProgram(a, s, left) \in Program
<1>1. PendingMark(a, convRow) \in Nat
  BY AgentFields DEF PendingMark, Larger
<1>2. s \in Places /\ agent[a].pendAt \in Places
  BY AgentFields DEF Places
<1>3. CASE left
  <2>1. PICK todo : todo = FinalizeSteps \o BindSteps  BY Zenon
  <2>2. todo \in Seq(Steps)  BY <2>1, Parts, Joined
  <2>3. PICK op : op = [NoProgram EXCEPT !.todo = todo, !.s = agent[a].pendAt,
                                         !.next = s, !.f = PendingMark(a, convRow)]
    OBVIOUS
  <2>4. BindProgram(a, s, left) = op  BY <1>3, <2>1, <2>3 DEF BindProgram
  <2>5. op \in Program  BY <1>1, <1>2, <2>2, <2>3, Nothing DEF Program
  <2> QED  BY <2>4, <2>5
<1>4. CASE ~left
  <2>1. PICK todo : todo = BindSteps  OBVIOUS
  <2>2. todo \in Seq(Steps)  BY <2>1, Parts
  <2>3. PICK op : op = [NoProgram EXCEPT !.todo = todo, !.next = s]  OBVIOUS
  <2>4. BindProgram(a, s, left) = op  BY <1>4, <2>1, <2>3 DEF BindProgram
  <2>5. op \in Program  BY <1>2, <2>2, <2>3, Nothing DEF Program
  <2> QED  BY <2>4, <2>5
<1> QED  BY <1>3, <1>4

LEMMA StartKeeps ==
    ASSUME CarryInv, NEW a \in Agents, NEW s \in Sessions, StartSession(a, s)
    PROVE  CarryInv'
<1>1. PICK left \in BOOLEAN : left <=> (WasReset(a) /\ agent[a].at # s)
  <2>1. CASE WasReset(a) /\ agent[a].at # s  BY <2>1
  <2>2. CASE ~(WasReset(a) /\ agent[a].at # s)  BY <2>2
  <2> QED  BY <2>1, <2>2
<1>2. left = (WasReset(a) /\ agent[a].at # s)  BY <1>1
<1>3. PICK op : op = BindProgram(a, s, left)  OBVIOUS
<1>4. Calls(a, op)  BY <1>1, <1>3 DEF StartSession
<1> QED  BY <1>2, <1>3, <1>4, BindProgramTyped, CallKeeps

LEMMA EndKeeps ==
    ASSUME CarryInv, NEW a \in Agents, EndSession(a) \/ ResetSession(a)
    PROVE  CarryInv'
<1>1. CASE EndSession(a)
  <2>1. PICK todo : todo = FinalizeSteps  OBVIOUS
  <2>2. todo \in Seq(Steps)  BY <2>1, Parts
  <2>3. PICK op : op = [NoProgram EXCEPT !.todo = todo, !.s = agent[a].at, !.f = agent[a].mark]
    OBVIOUS
  <2>4. Calls(a, op)  BY <1>1, <2>1, <2>3 DEF EndSession
  <2>5. op \in Program  BY <2>2, <2>3, AgentFields, Nothing DEF Program
  <2> QED  BY <2>4, <2>5, CallKeeps
<1>2. CASE ResetSession(a)
  <2>1. PICK todo : todo = <<"reset">>  OBVIOUS
  <2>2. todo \in Seq(Steps)  BY <2>1, Parts
  <2>3. PICK op : op = [NoProgram EXCEPT !.todo = todo, !.s = agent[a].at]  OBVIOUS
  <2>4. Calls(a, op)  BY <1>2, <2>1, <2>3 DEF ResetSession
  <2>5. op \in Program  BY <2>2, <2>3, AgentFields, Nothing DEF Program
  <2> QED  BY <2>4, <2>5, CallKeeps
<1> QED  BY <1>1, <1>2

LEMMA RolloverKeeps ==
    ASSUME CarryInv, NEW a \in Agents, NEW s \in Sessions, Rollover(a, s)
    PROVE  CarryInv'
<1>1. PICK carry \in {<<>>, <<"move">>} :
         Calls(a, [NoProgram EXCEPT
                      !.todo = FinalizeSteps \o <<"reset">> \o FinalizeSteps \o BindSteps \o carry,
                      !.s = agent[a].at, !.next = s, !.f = agent[a].mark])
  BY DEF Rollover
<1>2. PICK todo : todo = FinalizeSteps \o <<"reset">> \o FinalizeSteps \o BindSteps \o carry
  OBVIOUS
<1>3. todo \in Seq(Steps)
  <2>1. FinalizeSteps \o <<"reset">> \in Seq(Steps)  BY Parts, Joined
  <2>2. (FinalizeSteps \o <<"reset">>) \o FinalizeSteps \in Seq(Steps)  BY <2>1, Parts, Joined
  <2>3. ((FinalizeSteps \o <<"reset">>) \o FinalizeSteps) \o BindSteps \in Seq(Steps)
    BY <2>2, Parts, Joined
  <2> QED  BY <1>2, <2>3, Parts, Joined
<1>4. PICK op : op = [NoProgram EXCEPT !.todo = todo, !.s = agent[a].at, !.next = s,
                                       !.f = agent[a].mark]
  OBVIOUS
<1>5. Calls(a, op)  BY <1>1, <1>2, <1>4
<1>6. op \in Program  BY <1>3, <1>4, AgentFields, Nothing DEF Program, Places
<1> QED  BY <1>5, <1>6, CallKeeps

LEMMA BoundaryKeeps ==
    ASSUME CarryInv, NEW a \in Agents, NEW old \in Sessions, NEW new \in Sessions,
           Boundary(a, old, new)
    PROVE  CarryInv'
<1>1. PICK src : src = CarrySource(a, convRow, old)  OBVIOUS
<1>2. src \in Places
  BY <1>1, AgentFields DEF CarrySource, Places
<1>3. CASE src \notin {NoSession, new}
  <2>1. PICK todo : todo = FinalizeSteps \o <<"move">> \o BindSteps \o <<"advance">>
    BY Zenon
  <2>2. todo \in Seq(Steps)
    <3>1. FinalizeSteps \o <<"move">> \in Seq(Steps)  BY Parts, Joined
    <3>2. (FinalizeSteps \o <<"move">>) \o BindSteps \in Seq(Steps)  BY <3>1, Parts, Joined
    <3> QED  BY <2>1, <3>2, Parts, Joined
  <2>3. CarriedMark(a, convRow, src) \in Nat
    BY AgentFields DEF CarriedMark, Larger
  <2>4. PICK op : op = [NoProgram EXCEPT !.todo = todo, !.s = src, !.next = new,
                                         !.f = CarriedMark(a, convRow, src)]
    OBVIOUS
  <2>5. Calls(a, op)  BY <1>1, <1>3, <2>1, <2>4 DEF Boundary
  <2>6. op \in Program  BY <1>2, <2>2, <2>3, <2>4, Nothing DEF Program, Places
  <2> QED  BY <2>5, <2>6, CallKeeps
<1>4. CASE src \in {NoSession, new}
  <2>1. PICK left \in BOOLEAN : Calls(a, BindProgram(a, new, left))
    BY <1>1, <1>4 DEF Boundary, WasReset
  <2> QED  BY <2>1, BindProgramTyped, CallKeeps
<1> QED  BY <1>3, <1>4

-----------------------------------------------------------------------------
(***************************************************************************)
(* The statements of an engine                                             *)
(***************************************************************************)
LEMMA ContinuedTyped ==
    ASSUME CarryInv, NEW a \in Agents, NEW step, NextIs(a, step)
    PROVE  Continued(a) \in Program /\ Busy(a)
<1>1. PICK op : op = agent[a].op  OBVIOUS
<1>2. op \in Program /\ op.todo # <<>>  BY <1>1, AgentFields DEF NextIs
<1>3. Tail(op.todo) \in Seq(Steps)  BY <1>2 DEF Program
<1>4. [op EXCEPT !.todo = Tail(@), !.read = NoRead] \in Program
  BY <1>2, <1>3, EmptyRows DEF Program
<1> QED  BY <1>1, <1>2, <1>4, Nothing DEF Continued, Busy

LEMMA ReadKeeps ==
    ASSUME CarryInv, NEW a \in Agents, ReadRow(a)
    PROVE  CarryInv'
<1>1. PICK op : op = [Continued(a) EXCEPT !.read = convRow]  OBVIOUS
<1>2. Busy(a) /\ op \in Program
  BY <1>1, ContinuedTyped, AgentFields DEF ReadRow, Program
<1>3. PICK e : e = [agent[a] EXCEPT !.op = op]  OBVIOUS
<1>4. e \in Engine  BY <1>2, <1>3, AgentFields DEF Engine
<1>5. /\ agent' = [agent EXCEPT ![a] = e] /\ gateway' = gateway
      /\ convRow' \in LifecycleRow /\ published' \in Nat
  BY <1>1, <1>3 DEF ReadRow, Begins, CarryInv, CarryTypes
<1> QED  BY <1>2, <1>4, <1>5, BusyAlone, EngineKeeps

(* A statement after which the engine goes on with its program.            *)
LEMMA StatementKeeps ==
    ASSUME CarryInv, NEW a \in Agents, NEW step, NextIs(a, step),
           NEW e \in Engine, agent' = [agent EXCEPT ![a] = e], gateway' = gateway,
           convRow' \in LifecycleRow, published' = published
    PROVE  CarryInv'
BY ContinuedTyped, BusyAlone, EngineKeeps DEF CarryInv, CarryTypes

LEMMA FinalizeKeeps ==
    ASSUME CarryInv, NEW a \in Agents, DoFinalize(a)
    PROVE  CarryInv' /\ TakenBack
<1>1. PICK told \in BOOLEAN :
         convRow' = FinalizeWrite(agent[a].op.read, convRow, agent[a].op.s, agent[a].op.f,
                                  told \/ NodesOf(agent[a].op.s) # {})
  BY DEF DoFinalize
<1>2. PICK read \in LifecycleRow : read = agent[a].op.read  BY AgentFields
<1>3. PICK row \in LifecycleRow : row = convRow  BY AgentFields
<1>4. PICK data \in BOOLEAN : data = (told \/ NodesOf(agent[a].op.s) # {})  OBVIOUS
<1>5. PICK s \in Places : s = agent[a].op.s  BY AgentFields
<1>6. PICK f \in Nat : f = agent[a].op.f  BY AgentFields
<1>7. convRow' = FinalizeWrite(read, row, s, f, data)
  BY <1>1, <1>2, <1>3, <1>4, <1>5, <1>6
<1>8. /\ convRow' \in LifecycleRow
      /\ \/ convRow' = row
         \/ convRow'.current = NoSession
         \/ /\ convRow'.current = read.current /\ convRow'.frontier = read.frontier
            /\ read.current # s /\ Names(row, s)
  BY <1>7, FinalizedRow
<1>9. TakenBack
  <2>1. SUFFICES ASSUME convRow.current # NoSession, convRow'.frontier < convRow.frontier,
                        convRow'.current = convRow.current
                 PROVE  EndsLate(a) /\ convRow'.frontier = agent[a].op.read.frontier
    BY DEF TakenBack
  <2>2. convRow' # row  BY <1>3, <2>1, AgentFields
  <2>3. /\ convRow'.current = read.current /\ convRow'.frontier = read.frontier
        /\ read.current # s /\ Names(row, s)
    BY <1>8, <2>1, <2>2
  <2>4. s = row.lastFin  BY <1>3, <2>1, <2>3 DEF Names
  <2> QED  BY <1>2, <1>3, <1>5, <2>1, <2>3, <2>4 DEF EndsLate, DoFinalize
<1>10. PICK e : e = [agent[a] EXCEPT !.op = Continued(a)]  OBVIOUS
<1>11. e \in Engine
  BY <1>10, AgentFields, ContinuedTyped DEF Engine, DoFinalize
<1>12. agent' = [agent EXCEPT ![a] = e] /\ gateway' = gateway /\ published' = published
  BY <1>10 DEF DoFinalize, Begins
<1> QED  BY <1>8, <1>9, <1>11, <1>12, StatementKeeps DEF DoFinalize

LEMMA BindKeeps ==
    ASSUME CarryInv, NEW a \in Agents, DoBind(a)
    PROVE  CarryInv' /\ (convRow' = convRow \/ convRow'.bound # convRow.bound)
<1>1. PICK op \in Program : op = agent[a].op  BY AgentFields
<1>2. PICK row \in LifecycleRow : row = convRow  BY AgentFields
<1>3. op.read \in LifecycleRow /\ op.next \in Places /\ op.read.frontier \in Nat
  BY <1>1, AgentFields
<1>4. convRow' = BindWrite(op.read, row, op.next)
  BY <1>1, <1>2 DEF DoBind
<1>5. convRow' \in LifecycleRow /\ (convRow' = row \/ convRow'.bound # row.bound)
  BY <1>3, <1>4, BoundRow
<1>6. PICK e : e = [at |-> op.next, op |-> Continued(a), pendAt |-> NoSession, pendMark |-> 0,
                    mark |-> IF op.read.current = op.next THEN op.read.frontier
                             ELSE convRow'.frontier]
  OBVIOUS
<1>7. e.mark \in Nat  BY <1>3, <1>5, <1>6 DEF LifecycleRow
<1>8. e \in Engine
  BY <1>3, <1>6, <1>7, ContinuedTyped DEF Engine, Places, DoBind
<1>9. agent' = [agent EXCEPT ![a] = e] /\ gateway' = gateway /\ published' = published
  BY <1>1, <1>6 DEF DoBind
<1>10. CarryInv'
  BY <1>5, <1>8, <1>9, StatementKeeps DEF DoBind
<1> QED  BY <1>2, <1>5, <1>10

LEMMA ResetKeeps ==
    ASSUME CarryInv, NEW a \in Agents, DoReset(a)
    PROVE  CarryInv'
<1>1. PICK e : e = [agent[a] EXCEPT !.op = Continued(a), !.pendAt = agent[a].at,
                                    !.pendMark = agent[a].mark, !.mark = 0]
  OBVIOUS
<1>2. e \in Engine
  BY <1>1, AgentFields, ContinuedTyped DEF Engine, DoReset
<1>3. /\ agent' = [agent EXCEPT ![a] = e] /\ gateway' = gateway /\ published' = published
      /\ convRow' \in LifecycleRow
  BY <1>1, AgentFields DEF DoReset
<1> QED  BY <1>2, <1>3, StatementKeeps DEF DoReset

LEMMA MoveKeeps ==
    ASSUME CarryInv, NEW a \in Agents, DoMove(a)
    PROVE  CarryInv'
<1>1. PICK e : e = [agent[a] EXCEPT !.op = Continued(a)]  OBVIOUS
<1>2. e \in Engine
  BY <1>1, AgentFields, ContinuedTyped DEF Engine, DoMove
<1>3. /\ agent' = [agent EXCEPT ![a] = e] /\ gateway' = gateway /\ published' = published
      /\ convRow' \in LifecycleRow
  BY <1>1, AgentFields DEF DoMove, Begins
<1> QED  BY <1>2, <1>3, StatementKeeps DEF DoMove

LEMMA AdvanceKeeps ==
    ASSUME CarryInv, NEW a \in Agents, DoAdvance(a)
    PROVE  CarryInv' /\ convRow'.frontier >= convRow.frontier
<1>1. PICK op \in Program : op = agent[a].op  BY AgentFields
<1>2. PICK row \in LifecycleRow : row = convRow  BY AgentFields
<1>3. op.f \in Nat /\ row.frontier \in Nat
  BY <1>1, <1>2, AgentFields
<1>4. convRow' = IF op.f = 0 THEN row ELSE AdvanceRow(row, op.next, op.f)
  BY <1>1, <1>2 DEF DoAdvance
<1>5. convRow' \in LifecycleRow /\ convRow'.frontier >= row.frontier
  BY <1>3, <1>4, AdvancedRow
<1>6. PICK e : e = [agent[a] EXCEPT !.op = Continued(a),
                       !.mark = IF op.f > 0 THEN convRow'.frontier ELSE agent[a].mark]
  OBVIOUS
<1>7. (IF op.f > 0 THEN convRow'.frontier ELSE agent[a].mark) \in Nat
  BY <1>5, AgentFields DEF LifecycleRow
<1>8. e \in Engine
  BY <1>6, <1>7, AgentFields, ContinuedTyped DEF Engine, DoAdvance
<1>9. agent' = [agent EXCEPT ![a] = e] /\ gateway' = gateway /\ published' = published
  BY <1>1, <1>6, AgentFields DEF DoAdvance, CarryInv, CarryTypes, Engine
<1>10. CarryInv'
  BY <1>5, <1>8, <1>9, StatementKeeps DEF DoAdvance
<1> QED  BY <1>2, <1>5, <1>10

LEMMA PublishKeeps ==
    ASSUME CarryInv, NEW a \in Agents, PublishSummary(a)
    PROVE  CarryInv' /\ convRow'.frontier >= convRow.frontier
<1>1. (~Intrusion => gateway.todo = <<>>) /\ gateway' = gateway
  BY DEF PublishSummary, MayBegin
<1>2. PICK row \in LifecycleRow : row = convRow  BY AgentFields
<1>3. PICK n : n = published + 1  OBVIOUS
<1>4. n \in Nat /\ published' = n
  BY <1>3 DEF PublishSummary, CarryInv, CarryTypes
<1>5. PICK s : s = agent[a].at  OBVIOUS
<1>6. convRow' = AdvanceRow(row, s, n)
  BY <1>2, <1>3, <1>5 DEF PublishSummary
<1>7. convRow' \in LifecycleRow /\ convRow'.frontier >= row.frontier
  BY <1>4, <1>6, AdvancedRow
<1>8. PICK e : e = [agent[a] EXCEPT !.mark = n]  OBVIOUS
<1>9. e \in Engine
  BY <1>4, <1>8, AgentFields DEF Engine
<1>10. agent' = [agent EXCEPT ![a] = e]
  BY <1>3, <1>8 DEF PublishSummary
<1> QED  BY <1>1, <1>2, <1>4, <1>7, <1>9, <1>10, EngineKeeps

LEMMA DeathKeeps ==
    ASSUME CarryInv, NEW a \in Agents, EngineDies(a)
    PROVE  CarryInv'
<1>1. /\ convRow' = convRow /\ summaries' = summaries /\ published' = published
      /\ gateway' = gateway /\ agent' = [agent EXCEPT ![a] = Unbound]
  BY DEF EngineDies
<1>2. Unbound \in Engine /\ Unbound.op.todo = <<>>
  BY Nothing DEF Unbound, Engine, Places
<1>3. CarryTypes'
  BY <1>1, <1>2 DEF CarryInv, CarryTypes
<1>4. ASSUME NEW b \in Agents
      PROVE  agent'[b] = IF b = a THEN Unbound ELSE agent[b]
  BY <1>1 DEF CarryInv, CarryTypes
<1>5. ~Intrusion => Alone'
  BY <1>1, <1>2, <1>4 DEF CarryInv, Alone, Busy
<1>6. ~Intrusion => Forgetting'
  BY <1>1 DEF CarryInv, Forgetting
<1> QED  BY <1>3, <1>5, <1>6 DEF CarryInv

-----------------------------------------------------------------------------
(***************************************************************************)
(* An explicit /new                                                        *)
(***************************************************************************)
LEMMA ForgetIsTwoSteps ==
    /\ <<"purge", "clear">> \in Seq(Steps) /\ <<"clear">> \in Seq(Steps)
    /\ <<"purge", "clear">> # <<>> /\ <<"clear">> # <<>> /\ <<"purge", "clear">> # <<"clear">>
    /\ Len(<<"purge", "clear">>) = 2 /\ Len(<<"clear">>) = 1
    /\ Head(<<"purge", "clear">>) = "purge" /\ Head(<<"clear">>) = "clear"
    /\ Tail(<<"purge", "clear">>) = <<"clear">>
BY DEF Steps

LEMMA RestTyped ==
    ASSUME CarryInv, gateway.todo # <<>>
    PROVE  GatewayRest \in Program
<1>1. gateway \in Program  BY DEF CarryInv, CarryTypes
<1>2. Tail(gateway.todo) \in Seq(Steps)  BY <1>1 DEF Program
<1> QED  BY <1>1, <1>2, Nothing DEF GatewayRest, Program

LEMMA GatewayKeeps ==
    ASSUME CarryInv, agent' = agent, convRow' \in LifecycleRow, published' = published,
           gateway' \in Program,
           ~Intrusion => (gateway'.todo # <<>> => \A a \in Agents : ~Busy(a)),
           ~Intrusion => Forgetting'
    PROVE  CarryInv'
BY DEF CarryInv, CarryTypes, Alone, Busy

LEMMA FindKeeps ==
    ASSUME CarryInv, NEW s \in Sessions, FindOwned(s)
    PROVE  CarryInv'
<1>1. PICK row \in LifecycleRow : row = convRow  BY DEF CarryInv, CarryTypes
<1>2. PICK g : g = [NoProgram EXCEPT !.todo = ForgetSteps, !.s = s, !.read = row]  OBVIOUS
<1>3. g \in Program /\ g.todo = <<"purge", "clear">> /\ g.s = s /\ g.read = row
  BY <1>2, ForgetIsTwoSteps, Nothing DEF Program, Places, ForgetSteps
<1>4. /\ gateway' = g /\ convRow' = row /\ agent' = agent /\ published' = published
      /\ ~Intrusion => \A a \in Agents : ~Busy(a)
  BY <1>1, <1>2 DEF FindOwned, Busy
<1>5. Forgetting'
  BY <1>3, <1>4, ForgetIsTwoSteps DEF Forgetting
<1> QED  BY <1>3, <1>4, <1>5, GatewayKeeps

LEMMA PurgeKeeps ==
    ASSUME CarryInv, PurgeOwned
    PROVE  CarryInv'
<1>1. /\ gateway.todo # <<>> /\ Head(gateway.todo) = "purge"
      /\ convRow' = convRow /\ convRow \in LifecycleRow /\ gateway \in Program
      /\ agent' = agent /\ published' = published
  BY DEF PurgeOwned, CarryInv, CarryTypes
<1>2. gateway' \in {gateway, GatewayRest}  BY DEF PurgeOwned
<1>3. gateway' \in Program  BY <1>1, <1>2, RestTyped
<1>4. ASSUME ~Intrusion
      PROVE  (\A a \in Agents : ~Busy(a)) /\ Forgetting'
  <2>1. /\ gateway.todo = <<"purge", "clear">> /\ gateway.read = convRow
        /\ gateway.s \in Sessions /\ \A a \in Agents : ~Busy(a)
    BY <1>1, <1>4, ForgetIsTwoSteps DEF CarryInv, Alone, Forgetting
  <2>2. CASE \A n \in summaries : ~Names(gateway.read, n.home)
    <3>1. gateway' = GatewayRest /\ summaries' = summaries
      BY <2>2 DEF PurgeOwned
    <3>2. PICK g : g = GatewayRest  OBVIOUS
    <3>3. g = [gateway EXCEPT !.todo = <<"clear">>]
      BY <2>1, <3>2, ForgetIsTwoSteps DEF GatewayRest
    <3>4. g.todo = <<"clear">> /\ g.s = gateway.s /\ g.read = gateway.read
      BY <1>1, <3>3 DEF Program
    <3> QED  BY <1>1, <2>1, <2>2, <3>1, <3>2, <3>4 DEF Forgetting, Names
  <2>3. CASE \E n \in summaries : Names(gateway.read, n.home)
    <3>1. gateway' = gateway  BY <2>3 DEF PurgeOwned
    <3> QED  BY <1>1, <2>1, <3>1, ForgetIsTwoSteps DEF Forgetting
  <2> QED  BY <2>1, <2>2, <2>3
<1> QED  BY <1>1, <1>3, <1>4, GatewayKeeps

LEMMA ClearKeeps ==
    ASSUME CarryInv, ClearRow
    PROVE  /\ CarryInv'
           /\ convRow'.frontier = convRow.frontier \/ convRow'.current = NoSession
           /\ summaries' = summaries
           /\ ~Intrusion => \A n \in summaries : ~Names(convRow, n.home)
<1>1. PICK row \in LifecycleRow : row = convRow  BY DEF CarryInv, CarryTypes
<1>2. PICK s : s = gateway.s  OBVIOUS
<1>3. /\ gateway.todo # <<>> /\ Head(gateway.todo) = "clear" /\ gateway' = GatewayRest
      /\ agent' = agent /\ published' = published /\ summaries' = summaries
      /\ convRow' = IF Names(row, s) THEN ClearCarry(row, s) ELSE row
  BY <1>1, <1>2 DEF ClearRow
<1>4. convRow' \in LifecycleRow
      /\ (convRow'.frontier = row.frontier \/ convRow'.current = NoSession)
  BY <1>3, ClearedRow
<1>5. ASSUME ~Intrusion
      PROVE  /\ (\A n \in summaries : ~Names(convRow, n.home))
             /\ gateway' = NoProgram
  <2>1. gateway.todo = <<"clear">>
    BY <1>3, <1>5, ForgetIsTwoSteps DEF CarryInv, Forgetting
  <2> QED  BY <1>3, <1>5, <2>1, ForgetIsTwoSteps DEF CarryInv, Forgetting, GatewayRest
<1>6. gateway' \in Program  BY <1>3, RestTyped
<1>7. ~Intrusion => gateway'.todo = <<>> /\ Forgetting'
  BY <1>5, Nothing DEF Forgetting
<1>8. CarryInv'
  BY <1>3, <1>4, <1>6, <1>7, GatewayKeeps
<1> QED  BY <1>1, <1>3, <1>4, <1>5, <1>8

LEMMA GatewayDeathKeeps ==
    ASSUME CarryInv, GatewayDies
    PROVE  CarryInv'
<1>1. /\ gateway' = NoProgram /\ convRow' = convRow /\ agent' = agent /\ published' = published
      /\ convRow' \in LifecycleRow
  BY DEF GatewayDies, CarryInv, CarryTypes
<1>2. gateway' \in Program /\ gateway'.todo = <<>>
  BY <1>1, Nothing
<1>3. Forgetting'
  BY <1>2 DEF Forgetting
<1> QED  BY <1>1, <1>2, <1>3, GatewayKeeps

-----------------------------------------------------------------------------
(***************************************************************************)
(* The theorems                                                            *)
(***************************************************************************)
LEMMA Unmoved ==
    ASSUME CarryInv, convRow' = convRow
    PROVE  TakenBack /\ Retriable
BY DEF TakenBack, Retriable, CarryInv, CarryTypes, LifecycleRow, Names

LEMMA GoesOn ==
    ASSUME CarryInv,
           \/ convRow' = convRow
           \/ convRow'.bound # convRow.bound
           \/ convRow'.current = NoSession
           \/ convRow'.frontier = convRow.frontier
           \/ convRow' \in LifecycleRow /\ convRow'.frontier >= convRow.frontier
    PROVE  TakenBack
BY DEF TakenBack, CarryInv, CarryTypes, LifecycleRow

LEMMA CarryInit_Inv == CarryInit => CarryInv
<1> SUFFICES ASSUME CarryInit PROVE CarryInv  OBVIOUS
<1>1. Unbound \in Engine
  BY Nothing DEF Unbound, Engine, Places
<1>2. CarryTypes
  BY <1>1, EmptyRows, Nothing DEF CarryInit, CarryTypes
<1>3. Alone /\ Forgetting
  BY Nothing DEF CarryInit, Alone, Forgetting
<1> QED  BY <1>2, <1>3 DEF CarryInv

LEMMA CarryStep ==
    ASSUME CarryInv, CarryNext
    PROVE  CarryInv' /\ TakenBack /\ (~Intrusion => Retriable)
<1>1. ASSUME NEW a \in Agents, NEW s \in Sessions, StartSession(a, s) \/ Rollover(a, s)
      PROVE  CarryInv' /\ convRow' = convRow
  <2>1. CarryInv'  BY <1>1, StartKeeps, RolloverKeeps
  <2>2. convRow' = convRow  BY <1>1 DEF StartSession, Rollover, Calls
  <2> QED  BY <2>1, <2>2
<1>2. ASSUME NEW a \in Agents, NEW old \in Sessions, NEW new \in Sessions, Boundary(a, old, new)
      PROVE  CarryInv' /\ convRow' = convRow
  <2>1. CarryInv'  BY <1>2, BoundaryKeeps
  <2>2. convRow' = convRow  BY <1>2 DEF Boundary, Calls
  <2> QED  BY <2>1, <2>2
<1>3. ASSUME NEW a \in Agents, EndSession(a) \/ ResetSession(a)
      PROVE  CarryInv' /\ convRow' = convRow
  <2>1. CarryInv'  BY <1>3, EndKeeps
  <2>2. convRow' = convRow  BY <1>3 DEF EndSession, ResetSession, Calls
  <2> QED  BY <2>1, <2>2
<1>4. ASSUME NEW a \in Agents, ReadRow(a) \/ DoReset(a) \/ DoMove(a) \/ EngineDies(a)
      PROVE  CarryInv' /\ convRow' = convRow
  <2>1. CarryInv'  BY <1>4, ReadKeeps, ResetKeeps, MoveKeeps, DeathKeeps
  <2>2. convRow' = convRow  BY <1>4 DEF ReadRow, DoReset, DoMove, EngineDies
  <2> QED  BY <2>1, <2>2
<1>5. ASSUME NEW a \in Agents, DoFinalize(a) \/ DoBind(a) \/ DoAdvance(a) \/ PublishSummary(a)
      PROVE  CarryInv' /\ TakenBack /\ Retriable
  <2>1. Retriable
    BY <1>5 DEF DoFinalize, DoBind, DoAdvance, PublishSummary, Retriable
  <2>2. CASE DoFinalize(a)  BY <2>1, <2>2, FinalizeKeeps
  <2>3. CASE DoBind(a)  BY <2>1, <2>3, BindKeeps, GoesOn
  <2>4. CASE DoAdvance(a) \/ PublishSummary(a)
    <3>1. CarryInv' /\ convRow'.frontier >= convRow.frontier
      BY <2>4, AdvanceKeeps, PublishKeeps
    <3>2. convRow' \in LifecycleRow  BY <3>1 DEF CarryInv, CarryTypes
    <3> QED  BY <2>1, <3>1, <3>2, GoesOn
  <2> QED  BY <1>5, <2>2, <2>3, <2>4
<1>6. ASSUME NEW s \in Sessions, FindOwned(s)
      PROVE  CarryInv' /\ convRow' = convRow
  <2>1. CarryInv'  BY <1>6, FindKeeps
  <2>2. convRow' = convRow  BY <1>6 DEF FindOwned
  <2> QED  BY <2>1, <2>2
<1>7. ASSUME PurgeOwned \/ GatewayDies
      PROVE  CarryInv' /\ convRow' = convRow
  <2>1. CarryInv'  BY <1>7, PurgeKeeps, GatewayDeathKeeps
  <2>2. convRow' = convRow  BY <1>7 DEF PurgeOwned, GatewayDies
  <2> QED  BY <2>1, <2>2
<1>8. ASSUME ClearRow
      PROVE  CarryInv' /\ TakenBack /\ (~Intrusion => Retriable)
  BY <1>8, ClearKeeps, GoesOn DEF Retriable
<1> QED  BY <1>1, <1>2, <1>3, <1>4, <1>5, <1>6, <1>7, <1>8, Unmoved DEF CarryNext

LEMMA CarryStutter ==
    ASSUME CarryInv, UNCHANGED carryVars
    PROVE  CarryInv' /\ TakenBack /\ Retriable
<1>1. CarryInv'
  BY DEF carryVars, CarryInv, CarryTypes, Alone, Forgetting, Busy
<1> QED  BY <1>1, Unmoved DEF carryVars

(* The frontier of the session that holds the conversation is taken back   *)
(* by nothing but the late end of the session finalized last, and then to  *)
(* what that end had read: not by a publication, a bind, a rollover, a     *)
(* boundary or an explicit /new, however the statements of different       *)
(* processes interleave and wherever processes die (finalize_session,      *)
(* bind_session, advance_frontier, clear_carry_for_explicit_new).          *)
THEOREM FrontierTakenBackByLateEnds == CarrySpec => OnlyLateEndsTakeBack
<1>1. CarryInv /\ [CarryNext]_carryVars => CarryInv' /\ [TakenBack]_carryVars
  BY CarryStep, CarryStutter
<1>2. CarrySpec => [][TakenBack]_carryVars
  BY <1>1, CarryInit_Inv, PTL DEF CarrySpec
<1> QED  BY <1>2 DEF OnlyLateEndsTakeBack, TakenBack

(* Wherever an explicit /new dies, a second one still finds every session   *)
(* that holds a summary the first had set out to forget, if no hook of     *)
(* the conversation runs while a /new does; the hooks may overlap each     *)
(* other (reset_explicit_new_carry).                                       *)
THEOREM ForgettingRetried ==
    ASSUME ~Intrusion
    PROVE  CarrySpec => ForgettingCanBeRetried
<1>1. CarryInv /\ [CarryNext]_carryVars => CarryInv' /\ [Retriable]_carryVars
  BY CarryStep, CarryStutter
<1>2. CarrySpec => [][Retriable]_carryVars
  BY <1>1, CarryInit_Inv, PTL DEF CarrySpec
<1> QED  BY <1>2 DEF ForgettingCanBeRetried, Retriable

-----------------------------------------------------------------------------
(***************************************************************************)
(* Auxiliary sessions: the records                                         *)
(***************************************************************************)
Tokens == (Frames \cup {Nobody}) \X Nat

Tables == [active     : SUBSET AllIds,
           lineage    : SUBSET AllIds,
           reused     : SUBSET AllIds,
           guarded    : SUBSET AllIds,
           generation : [AllIds -> Tokens],
           retired    : [AllIds -> SUBSET Tokens],
           expected   : [AllIds -> AllIds \cup {Nobody}],
           usage      : [AllIds -> Frames \cup {Nobody}]]

AgentRecords == [id : AllIds, parent : AllIds,
           phase : {"new", "live", "displaced", "leaving", "arriving", "done"},
           seen : BOOLEAN, fresh : Nat]

Boundaries == [old : {Main}] \cup
              [old : AllIds, by : Frames \cup {Nobody}, keep : BOOLEAN]

AuxiliaryTypeOK ==
    /\ caller \in [Frames -> AgentRecords]
    /\ fore \in AllIds
    /\ table \in Tables
    /\ crossing \in [Frames -> Boundaries]

(* An operation on one id leaves what is on record about the others.       *)
SameAt(t, r, x) ==
    /\ x \in r.active <=> x \in t.active
    /\ x \in r.guarded <=> x \in t.guarded
    /\ x \in r.reused <=> x \in t.reused
    /\ r.generation[x] = t.generation[x]
    /\ r.retired[x] = t.retired[x]
    /\ r.usage[x] = t.usage[x]

Elsewhere(t, r, s) == \A x \in AllIds \ {s} : SameAt(t, r, x)

(* A token that an id has or had is not forgotten.                         *)
Remembers(t, r, s) ==
    \A k \in Tokens \ {NoToken} : k \in t.retired[s] \cup {t.generation[s]}
                                    => k \in r.retired[s] \cup {r.generation[s]}

(* The size on record for an id was reported by the object that has it.    *)
OwnUsage(t, s) ==
    t.generation[s] # NoToken => t.usage[s] \in {Nobody, t.generation[s][1]}

Sound(t, r, s) ==
    /\ r \in Tables
    /\ Elsewhere(t, r, s)
    /\ Remembers(t, r, s)
    /\ OwnUsage(t, s) => OwnUsage(r, s)

LEMMA NoTokenType == NoToken \in Tokens
  BY DEF NoToken, Tokens

LEMMA EmptiedType ==
  ASSUME NEW t \in Tables, NEW s \in AllIds
  PROVE  /\ Emptied(t, s) \in Tables
         /\ Emptied(t, s).active = t.active
         /\ Emptied(t, s).lineage = t.lineage
         /\ Emptied(t, s).reused = t.reused
         /\ Emptied(t, s).guarded = t.guarded \ {s}
         /\ Emptied(t, s).retired = t.retired
         /\ Emptied(t, s).generation = [t.generation EXCEPT ![s] = NoToken]
         /\ Emptied(t, s).usage = [t.usage EXCEPT ![s] = Nobody]
         /\ Emptied(t, s).expected = [t.expected EXCEPT ![s] = Nobody]
  BY NoTokenType DEF Emptied, Tables

LEMMA RetireType ==
  ASSUME NEW t \in Tables, NEW s \in AllIds, NEW g \in Tokens
  PROVE  /\ Retire(t, s, g) \in Tables
         /\ Retire(t, s, g).active = t.active
         /\ Retire(t, s, g).lineage = t.lineage
         /\ Retire(t, s, g).reused = t.reused
         /\ Retire(t, s, g).guarded = t.guarded
         /\ Retire(t, s, g).generation = t.generation
         /\ Retire(t, s, g).usage = t.usage
         /\ Retire(t, s, g).expected = t.expected
         /\ Retire(t, s, g).retired =
               IF g = NoToken THEN t.retired
               ELSE [t.retired EXCEPT ![s] = @ \cup {g}]
  BY DEF Retire, Tables

LEMMA NamedType ==
  ASSUME NEW t \in Tables, NEW s \in AllIds
  PROVE  /\ Named(t, s) \in Tables
         /\ Named(t, s).active = t.active \cup {s}
         /\ Named(t, s).lineage = t.lineage \cup {s}
         /\ Named(t, s).reused = t.reused \ {s}
         /\ Named(t, s).guarded = t.guarded
         /\ Named(t, s).generation = t.generation
         /\ Named(t, s).retired = t.retired
         /\ Named(t, s).usage = t.usage
         /\ Named(t, s).expected = t.expected
  BY DEF Named, Tables

(* The id is emptied and the token that had it is retired.                 *)
LEMMA Vacated ==
  ASSUME NEW t \in Tables, NEW s \in AllIds, NEW g \in Tokens,
         t.generation[s] \in {g, NoToken}
  PROVE  /\ Sound(t, Emptied(Retire(t, s, g), s), s)
         /\ Emptied(Retire(t, s, g), s).generation[s] = NoToken
         /\ Emptied(Retire(t, s, g), s).usage[s] = Nobody
         /\ Emptied(Retire(t, s, g), s).reused = t.reused
<1> DEFINE q == Retire(t, s, g)
           r == Emptied(q, s)
<1>1. q \in Tables /\ q.generation = t.generation /\ q.active = t.active
      /\ q.guarded = t.guarded /\ q.reused = t.reused /\ q.usage = t.usage
      /\ q.retired = IF g = NoToken THEN t.retired
                     ELSE [t.retired EXCEPT ![s] = @ \cup {g}]
  BY RetireType
<1>2. r \in Tables /\ r.active = q.active /\ r.reused = q.reused
      /\ r.guarded = q.guarded \ {s} /\ r.retired = q.retired
      /\ r.generation = [q.generation EXCEPT ![s] = NoToken]
      /\ r.usage = [q.usage EXCEPT ![s] = Nobody]
  BY <1>1, EmptiedType
<1> HIDE DEF q, r
<1>3. Elsewhere(t, r, s)
  BY <1>1, <1>2 DEF Elsewhere, SameAt, Tables
<1>4. Remembers(t, r, s)
  BY <1>1, <1>2 DEF Remembers, Tables
<1>5. OwnUsage(r, s)
  BY <1>1, <1>2 DEF OwnUsage, Tables
<1>6. r.generation[s] = NoToken /\ r.usage[s] = Nobody /\ r.reused = t.reused
  BY <1>1, <1>2 DEF Tables
<1>7. QED
  BY <1>2, <1>3, <1>4, <1>5, <1>6 DEF Sound, r, q

(* A start with the caller seen leaves the id to it.                       *)
LEMMA RegisteredSound ==
  ASSUME NEW t \in Tables, NEW s \in AllIds, NEW g \in Tokens
  PROVE  /\ Sound(t, Registered(t, s, g), s)
         /\ s \in Registered(t, s, g).active
         /\ g # NoToken => Registered(t, s, g).generation[s] = g
         /\ g # NoToken /\ t.generation[s] = g =>
               /\ Registered(t, s, g).usage[s] = t.usage[s]
               /\ s \in Registered(t, s, g).guarded <=> s \in t.guarded
         /\ g # NoToken /\ t.generation[s] # g /\ s \in t.active
               => s \in Registered(t, s, g).guarded
<1> DEFINE k == t.generation[s]
           now == Named(t, s)
           q == Retire(now, s, k)
           e == Emptied(q, s)
           r == Registered(t, s, g)
<1>0. k \in Tokens
  BY DEF Tables
<1>1. now \in Tables /\ now.active = t.active \cup {s} /\ now.reused = t.reused \ {s}
      /\ now.guarded = t.guarded /\ now.generation = t.generation
      /\ now.retired = t.retired /\ now.usage = t.usage /\ now.expected = t.expected
  BY NamedType
<1> HIDE DEF now, k
<1>2. q \in Tables /\ q.active = now.active /\ q.reused = now.reused
      /\ q.guarded = now.guarded /\ q.generation = now.generation
      /\ q.usage = now.usage
      /\ q.retired = IF k = NoToken THEN now.retired
                     ELSE [now.retired EXCEPT ![s] = @ \cup {k}]
  BY <1>0, <1>1, RetireType
<1> HIDE DEF q
<1>3. e \in Tables /\ e.active = q.active /\ e.reused = q.reused
      /\ e.guarded = q.guarded \ {s} /\ e.retired = q.retired
      /\ e.generation = [q.generation EXCEPT ![s] = NoToken]
      /\ e.usage = [q.usage EXCEPT ![s] = Nobody]
  BY <1>2, EmptiedType
<1> HIDE DEF e
<1>4. CASE g # NoToken /\ k = g
  <2>1. r = [now EXCEPT !.expected[s] = Nobody]
    BY <1>4 DEF Registered, now, k
  <2>2. r \in Tables /\ r.active = now.active /\ r.reused = now.reused
        /\ r.guarded = now.guarded /\ r.generation = now.generation
        /\ r.usage = now.usage /\ r.retired = now.retired
    BY <1>1, <2>1 DEF Tables
  <2> HIDE DEF r
  <2>3. Elsewhere(t, r, s) /\ Remembers(t, r, s) /\ (OwnUsage(t, s) => OwnUsage(r, s))
    BY <1>1, <2>2 DEF Elsewhere, SameAt, Remembers, OwnUsage, Tables
  <2>4. QED
    BY <1>1, <1>4, <2>2, <2>3 DEF Sound, r, k
<1>5. CASE g # NoToken /\ k # g
  <2> DEFINE known == s \in t.active \/ Used(t, s) \/ Held(t, s)
         guard == IF known THEN e.guarded \cup {s} ELSE t.guarded
  <2>1. r = [e EXCEPT !.generation[s] = g, !.guarded = guard]
    BY <1>5 DEF Registered, now, k, q, e
  <2>a. guard \in SUBSET AllIds
    BY <1>1, <1>2, <1>3 DEF Tables
  <2>b. guard \ {s} = t.guarded \ {s} /\ (known => s \in guard)
    BY <1>1, <1>2, <1>3 DEF Tables
  <2> HIDE DEF known, guard
  <2>c. PICK h \in [AllIds -> Tokens] : h = [e.generation EXCEPT ![s] = g]
    BY <1>3 DEF Tables
  <2>d. r = [e EXCEPT !.generation = h, !.guarded = guard]
    BY <1>3, <2>1, <2>c DEF Tables
  <2>2. r \in Tables /\ r.active = e.active /\ r.reused = e.reused
        /\ r.guarded = guard /\ r.generation = h
        /\ r.usage = e.usage /\ r.retired = e.retired
    BY <1>3, <2>a, <2>d DEF Tables
  <2> HIDE DEF r
  <2>3. Elsewhere(t, r, s)
    BY <1>1, <1>2, <1>3, <2>b, <2>c, <2>2 DEF Elsewhere, SameAt, Tables
  <2>4. Remembers(t, r, s)
    BY <1>1, <1>2, <1>3, <2>c, <2>2 DEF Remembers, Tables, k
  <2>5. OwnUsage(r, s) /\ r.generation[s] = g
    BY <1>1, <1>2, <1>3, <2>c, <2>2 DEF OwnUsage, Tables
  <2>6. s \in t.active => s \in r.guarded
    BY <2>b, <2>2 DEF known
  <2>7. QED
    BY <1>1, <1>2, <1>3, <1>5, <2>2, <2>3, <2>4, <2>5, <2>6 DEF Sound, r, k
<1>6. CASE g = NoToken /\ Held(t, s) /\ s \in t.active
  <2>1. r = now
    BY <1>6 DEF Registered, now
  <2>2. Elsewhere(t, now, s) /\ Remembers(t, now, s) /\ (OwnUsage(t, s) => OwnUsage(now, s))
    BY <1>1 DEF Elsewhere, SameAt, Remembers, OwnUsage, Tables
  <2>3. QED
    BY <1>1, <1>6, <2>1, <2>2 DEF Sound
<1>7. CASE g = NoToken /\ ~(Held(t, s) /\ s \in t.active)
  <2>1. r = e
    BY <1>7 DEF Registered, now, k, q, e
  <2>2. Elsewhere(t, e, s)
    BY <1>1, <1>2, <1>3 DEF Elsewhere, SameAt, Tables
  <2>3. Remembers(t, e, s)
    BY <1>1, <1>2, <1>3 DEF Remembers, Tables, k
  <2>4. OwnUsage(e, s)
    BY <1>1, <1>2, <1>3 DEF OwnUsage, Tables
  <2>5. QED
    BY <1>1, <1>2, <1>3, <1>7, <2>1, <2>2, <2>3, <2>4 DEF Sound
<1>8. QED
  BY <1>4, <1>5, <1>6, <1>7

(* An id that has a holder is taken away by an end of that holder only, or *)
(* by an unseen end when none may be late.                                 *)
LEMMA DeactivatedSound ==
  ASSUME NEW t \in Tables, NEW s \in AllIds, NEW g \in Tokens,
         NEW p \in AllIds \cup {Nobody}
  PROVE  /\ Sound(t, Deactivated(t, s, g, p), s)
         /\ t.generation[s] # NoToken /\ g # NoToken /\ t.generation[s] # g
               => Deactivated(t, s, g, p) = t
         /\ t.generation[s] # NoToken /\ s \in t.guarded /\ t.usage[s] = Nobody
               /\ t.generation[s] # g
               => Deactivated(t, s, g, p) = t
<1> DEFINE k == IF Held(t, s) THEN t.generation[s] ELSE g
           v == Emptied(Retire(t, s, k), s)
           r == Deactivated(t, s, g, p)
<1>1. k \in Tokens /\ t.generation[s] \in {k, NoToken}
  BY DEF Held, Tables
<1>2. CASE IgnoresEnd(t, s, g, p)
  <2>1. Sound(t, t, s)
    BY DEF Sound, Elsewhere, SameAt, Remembers
  <2>2. QED
    BY <1>2, <2>1 DEF Deactivated
<1>3. CASE ~IgnoresEnd(t, s, g, p)
  <2>1. Sound(t, v, s)
    BY <1>1, Vacated
  <2>2. r = [v EXCEPT !.active = @ \ {s}]
    BY <1>3 DEF Deactivated
  <2> HIDE DEF v
  <2>3. r \in Tables /\ r.active = v.active \ {s} /\ r.reused = v.reused
        /\ r.guarded = v.guarded /\ r.generation = v.generation
        /\ r.usage = v.usage /\ r.retired = v.retired
    BY <2>1, <2>2 DEF Tables, Sound
  <2> HIDE DEF r
  <2>4. Sound(t, r, s)
    BY <2>1, <2>3 DEF Sound, Elsewhere, SameAt, Remembers, OwnUsage, Tables
  <2>5. QED
    BY <1>3, <2>4 DEF IgnoresEnd, Held, Used, r
<1>4. QED
  BY <1>2, <1>3

LEMMA UnmarkedSound ==
  ASSUME NEW t \in Tables, NEW s \in AllIds
  PROVE  Sound(t, Unmarked(t, s), s)
<1> DEFINE v == Emptied(Retire(t, s, t.generation[s]), s)
           r == Unmarked(t, s)
           taken == IF s \in t.lineage THEN v.reused \cup {s} ELSE v.reused
<1>1. Sound(t, v, s)
  BY Vacated DEF Tables
<1>2. r = [v EXCEPT !.active = @ \ {s}, !.reused = taken]
  BY DEF Unmarked
<1> HIDE DEF v
<1>a. taken \in SUBSET AllIds /\ taken \ {s} = v.reused \ {s}
  BY <1>1 DEF Sound, Tables
<1> HIDE DEF taken
<1>3. r \in Tables /\ r.active = v.active \ {s}
      /\ r.reused = taken
      /\ r.guarded = v.guarded /\ r.generation = v.generation
      /\ r.usage = v.usage /\ r.retired = v.retired
  BY <1>1, <1>a, <1>2 DEF Tables, Sound
<1> HIDE DEF r
<1>4. QED
  BY <1>1, <1>a, <1>3 DEF Sound, Elsewhere, SameAt, Remembers, OwnUsage, Tables, r

LEMMA LeftBehindSound ==
  ASSUME NEW t \in Tables, NEW s \in AllIds
  PROVE  Sound(t, LeftBehind(t, s), s)
<1> DEFINE v == Emptied(Retire(t, s, t.generation[s]), s)
           r == LeftBehind(t, s)
<1>1. Sound(t, v, s)
  BY Vacated DEF Tables
<1>2. r = [v EXCEPT !.active = @ \ {s}]
  BY DEF LeftBehind
<1> HIDE DEF v
<1>3. r \in Tables /\ r.active = v.active \ {s} /\ r.reused = v.reused
      /\ r.guarded = v.guarded /\ r.generation = v.generation
      /\ r.usage = v.usage /\ r.retired = v.retired
  BY <1>1, <1>2 DEF Tables, Sound
<1> HIDE DEF r
<1>4. QED
  BY <1>1, <1>3 DEF Sound, Elsewhere, SameAt, Remembers, OwnUsage, Tables, r

(* An id that is taken by a caller that is seen becomes that caller's, and *)
(* an end of the holder it is taken from is expected to be late.           *)
LEMMA TakenOverSound ==
  ASSUME NEW t \in Tables, NEW old \in AllIds, NEW new \in AllIds, NEW g \in Tokens,
         NEW was \in BOOLEAN
  PROVE  /\ Sound(t, TakenOver(t, old, new, g, was), new)
         /\ g # NoToken =>
              /\ new \in TakenOver(t, old, new, g, was).active
              /\ TakenOver(t, old, new, g, was).generation[new] = g
              /\ t.generation[new] \notin {g, NoToken} =>
                    new \in TakenOver(t, old, new, g, was).guarded
                            \cup TakenOver(t, old, new, g, was).reused
<1> DEFINE r == TakenOver(t, old, new, g, was)
           prev == t.generation[new]
           running  == new \in t.active \cup t.guarded \/ Used(t, new) \/ Held(t, new)
           guarded  == new \in t.guarded
           expected == t.expected[new]
           stranger == g = NoToken /\ ~was /\ old # expected
           replaces == /\ Held(t, new)
                       /\ IF g # NoToken THEN prev # g
                          ELSE guarded /\ (~Used(t, new) \/ expected \in {Nobody, old})
           doubtful == \/ replaces \/ guarded
                       \/ ~Held(t, new) /\ running
           gone     == IF replaces THEN prev ELSE NoToken
           now      == Retire(t, new, gone)
           ignores  == /\ Held(t, new) /\ stranger
                       /\ t.retired[old] # {} \/ (guarded /\ Used(t, new) /\ expected # Nobody)
<1>1. prev \in Tokens /\ gone \in Tokens /\ expected \in AllIds \cup {Nobody}
  BY NoTokenType DEF Tables
<1>a. r = IF ignores THEN [t EXCEPT !.lineage = @ \cup {new}]
          ELSE IF new \in t.reused /\ (g = NoToken \/ prev # g)
          THEN [Emptied(Retire(t, new, prev), new) EXCEPT
                   !.active = @ \cup {new}, !.lineage = @ \cup {new},
                   !.generation[new] = g,
                   !.expected[new] = IF g = NoToken THEN old ELSE Nobody]
          ELSE [Named(now, new) EXCEPT
                   !.usage[new] = Nobody,
                   !.guarded = IF doubtful THEN @ \cup {new} ELSE @ \ {new},
                   !.expected[new] = IF g # NoToken THEN Nobody
                                     ELSE IF doubtful THEN old ELSE @,
                   !.generation[new] = IF g # NoToken THEN g
                                       ELSE IF replaces THEN NoToken ELSE @]
  BY DEF TakenOver
<1> HIDE DEF r
<1>2. CASE ignores
  <2>1. r = [t EXCEPT !.lineage = @ \cup {new}]
    BY <1>2, <1>a
  <2>2. r \in Tables /\ r.active = t.active /\ r.reused = t.reused
        /\ r.guarded = t.guarded /\ r.generation = t.generation
        /\ r.usage = t.usage /\ r.retired = t.retired
    BY <2>1 DEF Tables
  <2>3. g = NoToken
    BY <1>2
  <2>4. Sound(t, r, new)
    BY <2>2 DEF Sound, Elsewhere, SameAt, Remembers, OwnUsage
  <2>5. QED
    BY <2>3, <2>4 DEF r
<1>3. CASE ~ignores /\ new \in t.reused /\ (g = NoToken \/ prev # g)
  <2> DEFINE v == Emptied(Retire(t, new, prev), new)
             awaited == IF g = NoToken THEN old ELSE Nobody
  <2>1. Sound(t, v, new)
    BY <1>1, Vacated
  <2>2. v.reused = t.reused /\ v.usage[new] = Nobody /\ v.generation[new] = NoToken
    BY <1>1, Vacated
  <2>3. r = [v EXCEPT !.active = @ \cup {new}, !.lineage = @ \cup {new},
                      !.generation[new] = g, !.expected[new] = awaited]
    BY <1>3, <1>a
  <2>c. awaited \in AllIds \cup {Nobody}
    OBVIOUS
  <2> HIDE DEF v, awaited
  <2>4. PICK h \in [AllIds -> Tokens] : h = [v.generation EXCEPT ![new] = g]
    BY <2>1 DEF Sound, Tables
  <2>5. PICK e \in [AllIds -> AllIds \cup {Nobody}] :
           e = [v.expected EXCEPT ![new] = awaited]
    BY <2>1, <2>c DEF Sound, Tables
  <2>a. PICK act \in SUBSET AllIds : act = v.active \cup {new}
    BY <2>1 DEF Sound, Tables
  <2>b. PICK lin \in SUBSET AllIds : lin = v.lineage \cup {new}
    BY <2>1 DEF Sound, Tables
  <2>6. r = [v EXCEPT !.active = act, !.lineage = lin, !.generation = h, !.expected = e]
    BY <2>1, <2>3, <2>4, <2>5, <2>a, <2>b DEF Sound, Tables
  <2>7. r \in Tables /\ r.active = act /\ r.reused = v.reused
        /\ r.guarded = v.guarded /\ r.generation = h
        /\ r.usage = v.usage /\ r.retired = v.retired
    BY <2>1, <2>6 DEF Sound, Tables
  <2> HIDE DEF prev
  <2>9. Elsewhere(t, r, new)
    BY <2>1, <2>4, <2>7, <2>a DEF Sound, Elsewhere, SameAt, Tables
  <2>10. Remembers(t, r, new)
    BY <2>1, <2>2, <2>4, <2>7 DEF Remembers, Sound
  <2>11. OwnUsage(r, new)
    BY <2>2, <2>7 DEF OwnUsage
  <2>12. QED
    BY <1>3, <2>1, <2>2, <2>4, <2>7, <2>9, <2>10, <2>11, <2>a DEF Sound, r, Tables
<1>4. CASE ~ignores /\ ~(new \in t.reused /\ (g = NoToken \/ prev # g))
  <2> DEFINE v == Named(now, new)
             guard == IF doubtful THEN v.guarded \cup {new} ELSE v.guarded \ {new}
             awaited == IF g # NoToken THEN Nobody
                        ELSE IF doubtful THEN old ELSE v.expected[new]
             token == IF g # NoToken THEN g
                      ELSE IF replaces THEN NoToken ELSE v.generation[new]
  <2>1. now \in Tables /\ now.active = t.active /\ now.reused = t.reused
        /\ now.guarded = t.guarded /\ now.generation = t.generation
        /\ now.usage = t.usage /\ now.expected = t.expected
        /\ now.retired = IF gone = NoToken THEN t.retired
                         ELSE [t.retired EXCEPT ![new] = @ \cup {gone}]
    BY <1>1, RetireType
  <2>2. v \in Tables /\ v.active = now.active \cup {new} /\ v.reused = now.reused \ {new}
        /\ v.guarded = now.guarded /\ v.generation = now.generation
        /\ v.retired = now.retired /\ v.usage = now.usage /\ v.expected = now.expected
    <3> HIDE DEF now
    <3>1. PICK u \in Tables : u = now  BY <2>1
    <3> QED  BY <3>1, NamedType
  <2>3. r = [v EXCEPT !.usage[new] = Nobody, !.guarded = guard,
                      !.expected[new] = awaited, !.generation[new] = token]
    BY <1>4, <1>a, <2>2 DEF Tables
  <2>4. guard \in SUBSET AllIds /\ awaited \in AllIds \cup {Nobody} /\ token \in Tokens
    BY <2>2, NoTokenType DEF Tables
  <2>5. guard \ {new} = v.guarded \ {new} /\ (doubtful => new \in guard)
    OBVIOUS
  <2>6. token = prev \/ (replaces /\ gone = prev) \/ prev = NoToken \/ prev = g
    BY <2>1, <2>2 DEF Held
  <2>7. g # NoToken => token = g /\ (prev \notin {g, NoToken} => doubtful)
    BY DEF Held
  <2> HIDE DEF v, now, guard, awaited, token, doubtful, replaces, gone, prev, ignores
  <2>8. PICK h \in [AllIds -> Tokens] : h = [v.generation EXCEPT ![new] = token]
    BY <2>2, <2>4 DEF Tables
  <2>9. PICK e \in [AllIds -> AllIds \cup {Nobody}] :
           e = [v.expected EXCEPT ![new] = awaited]
    BY <2>2, <2>4 DEF Tables
  <2>10. PICK u \in [AllIds -> Frames \cup {Nobody}] : u = [v.usage EXCEPT ![new] = Nobody]
    BY <2>2 DEF Tables
  <2>11. r = [v EXCEPT !.usage = u, !.guarded = guard, !.expected = e, !.generation = h]
    BY <2>2, <2>3, <2>8, <2>9, <2>10 DEF Tables
  <2>12. r \in Tables /\ r.active = v.active /\ r.reused = v.reused
         /\ r.guarded = guard /\ r.generation = h
         /\ r.usage = u /\ r.retired = v.retired
    BY <2>2, <2>4, <2>11 DEF Tables
  <2>13. Elsewhere(t, r, new)
    BY <2>1, <2>2, <2>5, <2>8, <2>10, <2>12 DEF Elsewhere, SameAt, Tables
  <2>14. t.retired[new] \subseteq r.retired[new] /\ (gone # NoToken => gone \in r.retired[new])
    BY <2>1, <2>2, <2>12 DEF Tables
  <2>15. r.generation[new] = token
    BY <2>2, <2>8, <2>12 DEF Tables
  <2>16. Remembers(t, r, new)
    BY <2>6, <2>7, <2>14, <2>15 DEF Remembers, prev
  <2>17. OwnUsage(r, new)
    BY <2>2, <2>10, <2>12 DEF OwnUsage, Tables
  <2>18. QED
    BY <2>1, <2>2, <2>5, <2>7, <2>12, <2>13, <2>15, <2>16, <2>17 DEF Sound, r, prev
<1>5. QED
  BY <1>2, <1>3, <1>4

-----------------------------------------------------------------------------
(***************************************************************************)
(* Auxiliary sessions: the invariant                                       *)
(*                                                                         *)
(* It is kept for every id by itself.  Whoever has an id by its agent       *)
(* object has it in the tables, and an operation that would take it away   *)
(* is one the tables refuse: a start or an end with another object's token *)
(* because that token is retired or not the id's, an end without the       *)
(* object because the id is guarded until its holder has reported usage.   *)
(***************************************************************************)
Current(f) == caller[f].phase \in {"live", "leaving", "arriving"}
Awaited(s) == \E n \in Frames : OnId(n, s) /\ caller[n].phase = "arriving"

(* An id is of one agent at a time, and agents it displaced wait for their *)
(* ends while there is one.                                                *)
OneCurrent(s) ==
    \A f, o \in Frames : OnId(f, s) /\ OnId(o, s) /\ Current(f) /\ Current(o) => f = o

DisplacedByCurrent(s) ==
    \A o \in Frames : OnId(o, s) /\ caller[o].phase = "displaced"
                        => \E f \in Frames : OnId(f, s) /\ Current(f)

(* What a hook has seen is the id's generation or is retired.              *)
SeenRemembered(s) ==
    \A f \in Frames : OnId(f, s) /\ caller[f].seen /\ caller[f].phase # "arriving"
                        => Token(f) \in table.retired[s] \cup {table.generation[s]}

(* The id is the live agent's, or still the displaced one's while a       *)
(* compression brings the next.                                            *)
HolderHolds(s) ==
    \A f \in Frames :
       /\ OnId(f, s) /\ caller[f].seen
       /\ caller[f].phase = "live" \/ (caller[f].phase = "displaced" /\ Awaited(s))
       => s \in table.active /\ table.generation[s] = Token(f)

(* While the end of a displaced agent may come without it on the stack,    *)
(* the tables expect it to.                                                *)
LateEndExpected(s) ==
    \A f, o \in Frames :
       /\ OnId(f, s) /\ caller[f].phase = "live" /\ caller[f].seen
       /\ OnId(o, s) /\ caller[o].phase = "displaced" /\ caller[o].seen
       => s \in table.guarded \cup table.reused \/ Used(table, s)

IdInv(s) == /\ OneCurrent(s) /\ DisplacedByCurrent(s) /\ SeenRemembered(s)
            /\ HolderHolds(s) /\ LateEndExpected(s) /\ OwnUsage(table, s)

(* A compression under way has an agent that leaves, and is one of a kind. *)
LeavingToArrive ==
    \A n \in Frames : caller[n].phase = "arriving" =>
       /\ \E f \in Frames : caller[f].phase = "leaving" /\ caller[f].id = crossing[n].old
       /\ \A m \in Frames : caller[m].phase = "arriving" /\ crossing[m].old = crossing[n].old
                             => m = n
       /\ caller[n].seen => crossing[n].by = n

AuxiliaryInv == AuxiliaryTypeOK /\ (\A s \in AllIds : IdInv(s)) /\ LeavingToArrive

LEMMA TokenOfAgent ==
  ASSUME AuxiliaryTypeOK, NEW f \in Frames
  PROVE  Token(f) \in Tokens \ {NoToken}
  BY AuxiliaryAssumption DEF AuxiliaryTypeOK, Token, Tokens, NoToken, AgentRecords

-----------------------------------------------------------------------------
(***************************************************************************)
(* Auxiliary sessions: steps                                               *)
(***************************************************************************)
(* What happens to the agents and the records of one id does not disturb   *)
(* the others.                                                             *)
LEMMA OtherId ==
  ASSUME AuxiliaryTypeOK, NEW x \in AllIds, IdInv(x), SameAt(table, table', x),
         \A o \in Frames : caller'[o].id = x /\ caller'[o].phase # "new"
                              => caller'[o] = caller[o],
         \A o \in Frames : OnId(o, x) => caller'[o] = caller[o]
  PROVE  IdInv(x)'
<1>1. \A o \in Frames : OnId(o, x)' <=> OnId(o, x)
  BY DEF OnId
<1>2. \A o \in Frames : OnId(o, x) => caller'[o] = caller[o] /\ Token(o)' = Token(o)
                                      /\ (Current(o)' <=> Current(o))
  BY DEF Token, Current
<1>3. Awaited(x)' <=> Awaited(x)
  BY <1>1, <1>2 DEF Awaited
<1>4. OneCurrent(x)' /\ DisplacedByCurrent(x)'
  BY <1>1, <1>2 DEF IdInv, OneCurrent, DisplacedByCurrent
<1>5. SeenRemembered(x)'
  BY <1>1, <1>2 DEF IdInv, SeenRemembered, SameAt
<1>6. HolderHolds(x)'
  BY <1>1, <1>2, <1>3 DEF IdInv, HolderHolds, SameAt
<1>7. LateEndExpected(x)' /\ OwnUsage(table, x)'
  BY <1>1, <1>2 DEF IdInv, LateEndExpected, OwnUsage, SameAt, Used
<1>8. QED
  BY <1>4, <1>5, <1>6, <1>7 DEF IdInv

LEMMA AgentAgain ==
  ASSUME NEW a \in AgentRecords, NEW n \in Nat
  PROVE  \E me \in AgentRecords : /\ me = [a EXCEPT !.fresh = n, !.phase = "live"]
                            /\ me.phase = "live" /\ me.id = a.id /\ me.fresh = n
                            /\ me.seen = a.seen
<1> DEFINE me == [a EXCEPT !.fresh = n, !.phase = "live"]
<1>1. me.phase = "live" /\ me.id = a.id /\ me.fresh = n /\ me.seen = a.seen
  BY DEF AgentRecords
<1>2. me \in AgentRecords
  BY DEF AgentRecords
<1>3. QED
  BY <1>1, <1>2

LEMMA AgentSeen ==
  ASSUME NEW a \in AgentRecords
  PROVE  \E me \in AgentRecords : /\ me = [a EXCEPT !.seen = TRUE]
                            /\ me.phase = a.phase /\ me.id = a.id /\ me.fresh = a.fresh
                            /\ me.seen
<1> DEFINE me == [a EXCEPT !.seen = TRUE]
<1>1. me.phase = a.phase /\ me.id = a.id /\ me.fresh = a.fresh /\ me.seen
  BY DEF AgentRecords
<1>2. me \in AgentRecords
  BY DEF AgentRecords
<1>3. QED
  BY <1>1, <1>2

LEMMA AgentLeaves ==
  ASSUME NEW a \in AgentRecords
  PROVE  \E me \in AgentRecords : /\ me = [a EXCEPT !.phase = "leaving"]
                            /\ me.id = a.id /\ me.phase = "leaving"
                            /\ me.seen = a.seen /\ me.fresh = a.fresh
<1> DEFINE me == [a EXCEPT !.phase = "leaving"]
<1>1. me.phase = "leaving" /\ me.seen = a.seen /\ me.id = a.id /\ me.fresh = a.fresh
  BY DEF AgentRecords
<1>2. me \in AgentRecords
  BY DEF AgentRecords
<1>3. QED
  BY <1>1, <1>2

LEMMA AuxiliaryStutter ==
  ASSUME AuxiliaryInv, UNCHANGED auxiliaryVars
  PROVE  AuxiliaryInv'
<1>1. caller' = caller /\ fore' = fore /\ table' = table /\ crossing' = crossing
  BY DEF auxiliaryVars
<1>2. AuxiliaryTypeOK /\ AuxiliaryTypeOK'
  BY <1>1 DEF AuxiliaryInv, AuxiliaryTypeOK
<1>3. ASSUME NEW x \in AllIds PROVE IdInv(x)'
  <2>1. SameAt(table, table', x)
    BY <1>1 DEF SameAt
  <2>2. QED
    BY <1>1, <1>2, <2>1, OtherId DEF AuxiliaryInv
<1>4. LeavingToArrive'
  BY <1>1 DEF AuxiliaryInv, LeavingToArrive, OnId
<1>5. QED
  BY <1>2, <1>3, <1>4 DEF AuxiliaryInv

LEMMA Displaced ==
  ASSUME AuxiliaryTypeOK, NEW s \in AllIds, NEW o \in Frames
  PROVE  /\ Displacing(s)[o] \in AgentRecords
         /\ Displacing(s)[o].id = caller[o].id
         /\ Displacing(s)[o].parent = caller[o].parent
         /\ Displacing(s)[o].seen = caller[o].seen
         /\ Displacing(s)[o].fresh = caller[o].fresh
         /\ ~OnId(o, s) => Displacing(s)[o] = caller[o]
         /\ OnId(o, s) => Displacing(s)[o].phase =
               IF caller[o].phase = "live" THEN "displaced"
               ELSE IF caller[o].phase = "displaced" THEN "done" ELSE caller[o].phase
<1>1. caller[o] \in AgentRecords
  BY DEF AuxiliaryTypeOK
<1>2. CASE OnId(o, s) /\ caller[o].phase = "live"
  <2>1. Displacing(s)[o] = [caller[o] EXCEPT !.phase = "displaced"]
    BY <1>2 DEF Displacing
  <2>2. QED
    BY <1>1, <1>2, <2>1 DEF AgentRecords
<1>3. CASE OnId(o, s) /\ caller[o].phase = "displaced"
  <2>1. Displacing(s)[o] = [caller[o] EXCEPT !.phase = "done"]
    BY <1>3 DEF Displacing
  <2>2. QED
    BY <1>1, <1>3, <2>1 DEF AgentRecords
<1>4. CASE ~(OnId(o, s) /\ caller[o].phase \in {"live", "displaced"})
  <2>1. Displacing(s)[o] = caller[o]
    BY <1>4 DEF Displacing
  <2>2. QED
    BY <1>1, <1>4, <2>1
<1>5. QED
  BY <1>2, <1>3, <1>4

LEMMA SpawnStep ==
  ASSUME AuxiliaryInv, NEW f \in Frames, NEW s \in Ids, NEW p \in AllIds,
         NEW seen \in BOOLEAN, Spawn(f, s, p, seen)
  PROVE  AuxiliaryInv'
<1> DEFINE g == IF seen THEN <<f, 0>> ELSE NoToken
           me == [id |-> s, parent |-> p, phase |-> "live", seen |-> seen, fresh |-> 0]
<1>1. AuxiliaryTypeOK /\ s \in AllIds /\ g \in Tokens /\ table \in Tables
  BY DEF AuxiliaryInv, AuxiliaryTypeOK, AllIds, Tokens, NoToken
<1>2. me \in AgentRecords /\ me.phase = "live" /\ me.id = s /\ me.seen = seen /\ me.fresh = 0
  BY <1>1 DEF AgentRecords
<1>3. caller' = [Displacing(s) EXCEPT ![f] = me] /\ table' = Registered(table, s, g)
  BY DEF Spawn
<1> HIDE DEF me
<1>4. Displacing(s) \in [Frames -> AgentRecords]
  BY <1>1, Displaced DEF Displacing
<1>5. caller' \in [Frames -> AgentRecords] /\ caller'[f] = me
      /\ \A o \in Frames \ {f} : caller'[o] = Displacing(s)[o]
  BY <1>2, <1>3, <1>4
<1>6. \A o \in Frames \ {f} :
         /\ caller'[o].id = caller[o].id /\ caller'[o].seen = caller[o].seen
         /\ Token(o)' = Token(o)
         /\ ~OnId(o, s) => caller'[o] = caller[o]
         /\ OnId(o, s) => caller'[o].phase =
               IF caller[o].phase = "live" THEN "displaced"
               ELSE IF caller[o].phase = "displaced" THEN "done" ELSE caller[o].phase
  BY <1>1, <1>5, Displaced DEF Token
<1>7. caller[f].phase = "new" /\ Settled(s) /\ fore' = fore /\ crossing' = crossing
  BY DEF Spawn
<1>8. Sound(table, table', s) /\ (g # NoToken => s \in table'.active /\ table'.generation[s] = g)
      /\ (g # NoToken /\ table.generation[s] # g /\ s \in table.active => s \in table'.guarded)
  BY <1>1, <1>3, RegisteredSound
<1>9. Token(f)' = <<f, 0>> /\ (seen => g = <<f, 0>> /\ g # NoToken)
  BY <1>2, <1>5, AuxiliaryAssumption DEF Token, NoToken
<1> HIDE DEF g
<1>10. \A o \in Frames \ {f} : OnId(o, s)' <=> OnId(o, s)
  BY <1>6 DEF OnId
<1>11. \A o \in Frames : OnId(o, s)' /\ Current(o)' => o = f
  BY <1>6, <1>7, <1>10 DEF Current, Settled
<1>12. IdInv(s)
  BY <1>1 DEF AuxiliaryInv
<1>13. IdInv(s)'
  <2>1. OneCurrent(s)' /\ DisplacedByCurrent(s)'
    BY <1>2, <1>5, <1>11 DEF OneCurrent, DisplacedByCurrent, OnId, Current
  <2>2. SeenRemembered(s)'
    <3> SUFFICES ASSUME NEW o \in Frames, OnId(o, s)', caller'[o].seen, caller'[o].phase # "arriving"
                 PROVE  Token(o)' \in table'.retired[s] \cup {table'.generation[s]}
      BY DEF SeenRemembered
    <3>1. CASE o = f
      BY <1>2, <1>5, <1>8, <1>9, <3>1
    <3>2. CASE o # f
      <4>1. Token(o) \in table.retired[s] \cup {table.generation[s]}
        BY <1>6, <1>7, <1>10, <1>12, <3>2 DEF IdInv, SeenRemembered, Settled
      <4>2. Token(o) \in Tokens \ {NoToken}
        BY <1>1, TokenOfAgent
      <4>3. QED
        BY <1>6, <1>8, <3>2, <4>1, <4>2 DEF Sound, Remembers
    <3>3. QED
      BY <3>1, <3>2
  <2>3. HolderHolds(s)'
    BY <1>2, <1>5, <1>8, <1>9, <1>11 DEF HolderHolds, Awaited, Current
  <2>4. LateEndExpected(s)'
    <3> SUFFICES ASSUME NEW h \in Frames, OnId(h, s)', caller'[h].phase = "live", caller'[h].seen,
                        NEW o \in Frames, OnId(o, s)', caller'[o].phase = "displaced", caller'[o].seen
                 PROVE  s \in table'.guarded
      BY DEF LateEndExpected
    <3>1. h = f /\ seen /\ o # f
      BY <1>2, <1>5, <1>11 DEF Current
    <3>2. s \in table.active /\ table.generation[s] = Token(o)
      BY <1>6, <1>10, <1>12, <3>1 DEF IdInv, HolderHolds
    <3>3. QED
      BY <1>8, <1>9, <3>1, <3>2 DEF Token
  <2>5. OwnUsage(table, s)'
    BY <1>8, <1>12 DEF IdInv, Sound
  <2>6. QED
    BY <2>1, <2>2, <2>3, <2>4, <2>5 DEF IdInv
<1>14. ASSUME NEW x \in AllIds \ {s} PROVE IdInv(x)'
  <2>1. SameAt(table, table', x)
    BY <1>8 DEF Sound, Elsewhere
  <2>2. \A o \in Frames : (caller'[o].id = x /\ caller'[o].phase # "new") \/ OnId(o, x)
                            => caller'[o] = caller[o]
    BY <1>2, <1>5, <1>6, <1>7 DEF OnId
  <2>3. QED
    BY <1>1, <2>1, <2>2, OtherId DEF AuxiliaryInv
<1>15. AuxiliaryTypeOK'
  BY <1>1, <1>5, <1>7, <1>8 DEF AuxiliaryTypeOK, Sound
<1>16. LeavingToArrive'
  BY <1>2, <1>5, <1>6, <1>7 DEF AuxiliaryInv, LeavingToArrive, OnId, Settled
<1>17. QED
  BY <1>13, <1>14, <1>15, <1>16 DEF AuxiliaryInv

LEMMA RestartStep ==
  ASSUME AuxiliaryInv, NEW f \in Frames, Restart(f)
  PROVE  AuxiliaryInv'
<1>1. PICK s \in AllIds : s = caller[f].id
  BY DEF AuxiliaryInv, AuxiliaryTypeOK, AgentRecords
<1> DEFINE refused == Refuses(table, s, Token(f))
           again == Retired(table, s, Token(f)) /\ ~refused
           late == \E o \in Frames \ {f} : OnId(o, s) /\ caller[o].phase = "live"
           g == IF again THEN <<f, caller[f].fresh + 1>> ELSE Token(f)
           n == IF again THEN caller[f].fresh + 1 ELSE caller[f].fresh
<1>2. AuxiliaryTypeOK /\ table \in Tables /\ caller[f] \in AgentRecords
  BY DEF AuxiliaryInv, AuxiliaryTypeOK
<1>3. /\ caller[f].phase \in {"live", "displaced", "done"} /\ caller[f].seen
      /\ Settled(s) /\ HolderSeen(s) /\ fore' = fore /\ crossing' = crossing
      /\ s \notin table.reused
      /\ caller' = IF late \/ refused THEN caller
                   ELSE [caller EXCEPT ![f].fresh = n, ![f].phase = "live"]
      /\ table' = IF refused THEN table ELSE Registered(table, s, g)
  BY <1>1, <1>2 DEF Restart, AuxiliaryTypeOK
<1>4. OnId(f, s) /\ IdInv(s)
  BY <1>1, <1>3 DEF OnId, AuxiliaryInv
<1>5. n \in Nat /\ g = <<f, n>> /\ g \in Tokens \ {NoToken}
  BY <1>2, AuxiliaryAssumption DEF Token, Tokens, NoToken, AgentRecords
<1>6. CASE refused
  <2>1. caller' = caller /\ table' = table
    BY <1>3, <1>6
  <2>2. QED
    BY <1>3, <2>1, AuxiliaryStutter DEF auxiliaryVars
<1>7. ~refused => ~late
  <2> SUFFICES ASSUME late PROVE refused
    OBVIOUS
  <2>1. PICK o \in Frames \ {f} : OnId(o, s) /\ caller[o].phase = "live"
    OBVIOUS
  <2>2. caller[o].seen
    BY <1>3, <2>1 DEF HolderSeen
  <2>3. table.generation[s] = Token(o)
    BY <1>4, <2>1, <2>2 DEF IdInv, HolderHolds
  <2>4. Token(f) # Token(o)
    BY DEF Token
  <2>5. Token(f) \in table.retired[s] \cup {table.generation[s]}
    BY <1>3, <1>4 DEF IdInv, SeenRemembered
  <2>6. QED
    BY <1>2, <2>3, <2>4, <2>5, TokenOfAgent DEF Refuses, Retired, Held
<1>8. CASE ~refused
  <2>1. caller' = [caller EXCEPT ![f].fresh = n, ![f].phase = "live"]
        /\ table' = Registered(table, s, g)
    BY <1>3, <1>7, <1>8
  <2>2. again => table.generation[s] # g \/ table.generation[s] = g
    OBVIOUS
  <2>a. ~again => g = Token(f)
    OBVIOUS
  <2>b. ~late
    BY <1>7, <1>8
  <2> HIDE DEF refused, again, g, n
  <2>c. PICK me \in AgentRecords : /\ me = [caller[f] EXCEPT !.fresh = n, !.phase = "live"]
                             /\ me.phase = "live" /\ me.id = s /\ me.fresh = n
                             /\ me.seen = caller[f].seen
    BY ZenonT(30), <1>1, <1>2, <1>5, AgentAgain
  <2>d. caller' = [caller EXCEPT ![f] = me]
    BY <1>2, <2>1, <2>c DEF AuxiliaryTypeOK
  <2>3. caller' \in [Frames -> AgentRecords] /\ caller'[f].phase = "live" /\ caller'[f].id = s
        /\ caller'[f].seen /\ caller'[f].fresh = n
        /\ \A o \in Frames \ {f} : caller'[o] = caller[o]
    BY <1>2, <1>3, <2>c, <2>d DEF AuxiliaryTypeOK
  <2>4. /\ Sound(table, table', s) /\ s \in table'.active /\ table'.generation[s] = g
        /\ table.generation[s] = g =>
              /\ table'.usage[s] = table.usage[s]
              /\ s \in table'.guarded <=> s \in table.guarded
        /\ table.generation[s] # g /\ s \in table.active => s \in table'.guarded
    BY <1>2, <1>5, <2>1, RegisteredSound
  <2>5. \A o \in Frames \ {f} : OnId(o, s) => caller[o].phase \in {"new", "displaced", "done"}
    BY <1>2, <1>3, <2>b DEF Settled, AuxiliaryTypeOK, AgentRecords
  <2>6. Token(f)' = g
    BY <1>5, <2>3 DEF Token
  <2>7. \A o \in Frames : OnId(o, s)' <=> OnId(o, s)
    BY <1>4, <2>3 DEF OnId
  <2>8. \A o \in Frames \ {f} : Token(o)' = Token(o)
    BY <2>3 DEF Token
  <2>9. OneCurrent(s)' /\ DisplacedByCurrent(s)'
    BY <1>4, <2>3, <2>5, <2>7 DEF OneCurrent, DisplacedByCurrent, Current
  <2>10. SeenRemembered(s)'
    <3> SUFFICES ASSUME NEW o \in Frames, OnId(o, s), o # f, caller[o].seen,
                        caller[o].phase # "arriving"
                 PROVE  Token(o) \in table'.retired[s] \cup {table'.generation[s]}
      BY <2>3, <2>4, <2>6, <2>7, <2>8 DEF SeenRemembered
    <3>1. Token(o) \in table.retired[s] \cup {table.generation[s]}
      BY <1>4 DEF IdInv, SeenRemembered
    <3>2. QED
      BY <1>2, <2>4, <3>1, TokenOfAgent DEF Sound, Remembers
  <2>11. HolderHolds(s)'
    BY <2>3, <2>4, <2>5, <2>6, <2>7 DEF HolderHolds, Awaited, OnId
  <2>12. LateEndExpected(s)'
    <3> SUFFICES ASSUME NEW o \in Frames, OnId(o, s), o # f, caller[o].phase = "displaced",
                        caller[o].seen
                 PROVE  s \in table'.guarded \/ Used(table', s)
      BY <2>3, <2>5, <2>7 DEF LateEndExpected
    <3>1. PICK h \in Frames : OnId(h, s) /\ Current(h)
      BY <1>4 DEF IdInv, DisplacedByCurrent
    <3>2. caller[f].phase = "live"
      BY <1>3, <2>5, <3>1 DEF Current
    <3>3. s \in table.guarded \cup table.reused \/ Used(table, s)
      BY <1>3, <1>4, <3>2 DEF IdInv, LateEndExpected
    <3>4. s \in table.active
      BY <1>3, <1>4, <3>2 DEF IdInv, HolderHolds
    <3>5. QED
      BY <1>3, <2>4, <3>3, <3>4 DEF Used
  <2>13. OwnUsage(table, s)'
    BY <1>4, <2>4 DEF IdInv, Sound
  <2>14. ASSUME NEW x \in AllIds \ {s} PROVE IdInv(x)'
    <3>1. SameAt(table, table', x)
      BY <2>4 DEF Sound, Elsewhere
    <3>2. \A o \in Frames : (caller'[o].id = x /\ caller'[o].phase # "new") \/ OnId(o, x)
                              => caller'[o] = caller[o]
      BY <1>1, <2>3 DEF OnId
    <3>3. QED
      BY <1>2, <3>1, <3>2, OtherId DEF AuxiliaryInv
  <2>15. AuxiliaryTypeOK'
    BY <1>2, <1>3, <2>3, <2>4 DEF AuxiliaryTypeOK, Sound
  <2>16. LeavingToArrive'
    BY <1>3, <2>3 DEF AuxiliaryInv, LeavingToArrive, OnId
  <2>17. QED
    BY <2>9, <2>10, <2>11, <2>12, <2>13, <2>14, <2>15, <2>16 DEF AuxiliaryInv, IdInv
<1>9. QED
  BY <1>6, <1>8

LEMMA ReportStep ==
  ASSUME AuxiliaryInv, NEW f \in Frames, Report(f)
  PROVE  AuxiliaryInv'
<1>1. PICK s \in AllIds : s = caller[f].id
  BY DEF AuxiliaryInv, AuxiliaryTypeOK, AgentRecords
<1> DEFINE guard == IF ~Held(table, s) /\ Used(table, s) THEN table.guarded \cup {s}
                    ELSE table.guarded
           g == Token(f)
<1>2. AuxiliaryTypeOK /\ table \in Tables /\ caller[f] \in AgentRecords /\ g \in Tokens \ {NoToken}
  BY TokenOfAgent DEF AuxiliaryInv, AuxiliaryTypeOK
<1>3. /\ caller[f].phase \notin {"new", "arriving"} /\ s \in table.active
      /\ table.generation[s] \in {g, NoToken} /\ fore' = fore /\ crossing' = crossing
      /\ caller' = [caller EXCEPT ![f].seen = TRUE]
      /\ table' = [table EXCEPT !.generation[s] = g, !.usage[s] = f, !.guarded = guard]
  BY <1>1, <1>2 DEF Report, Held
<1>4. OnId(f, s) /\ IdInv(s)
  BY <1>1, <1>3 DEF OnId, AuxiliaryInv
<1>5. guard \in SUBSET AllIds /\ guard \ {s} = table.guarded \ {s}
  BY <1>2 DEF Tables
<1> HIDE DEF guard
<1>6. PICK h \in [AllIds -> Tokens] : h = [table.generation EXCEPT ![s] = g]
  BY <1>2 DEF Tables
<1>7. PICK u \in [AllIds -> Frames \cup {Nobody}] : u = [table.usage EXCEPT ![s] = f]
  BY <1>2 DEF Tables
<1>8. table' = [table EXCEPT !.generation = h, !.usage = u, !.guarded = guard]
  BY <1>2, <1>3, <1>6, <1>7 DEF Tables
<1>9. table' \in Tables /\ table'.active = table.active /\ table'.reused = table.reused
      /\ table'.guarded = guard /\ table'.generation = h
      /\ table'.usage = u /\ table'.retired = table.retired
  BY <1>2, <1>5, <1>8 DEF Tables
<1>10. \A x \in AllIds \ {s} : SameAt(table, table', x)
  BY <1>2, <1>5, <1>6, <1>7, <1>9 DEF SameAt, Tables
<1>11. table'.generation[s] = g /\ table'.usage[s] = f
  BY <1>2, <1>6, <1>7, <1>9 DEF Tables
<1>12. caller' \in [Frames -> AgentRecords] /\ caller'[f].seen /\ caller'[f].phase = caller[f].phase
       /\ caller'[f].id = s /\ caller'[f].fresh = caller[f].fresh
       /\ \A o \in Frames \ {f} : caller'[o] = caller[o]
  <2>1. PICK me \in AgentRecords : /\ me = [caller[f] EXCEPT !.seen = TRUE]
                             /\ me.phase = caller[f].phase /\ me.id = caller[f].id
                             /\ me.fresh = caller[f].fresh /\ me.seen
    BY <1>2, AgentSeen
  <2>2. caller' = [caller EXCEPT ![f] = me]
    BY <1>2, <1>3, <2>1 DEF AuxiliaryTypeOK
  <2>3. QED
    BY <1>1, <1>2, <2>1, <2>2 DEF AuxiliaryTypeOK
<1>13. \A o \in Frames : Token(o)' = Token(o) /\ (OnId(o, s)' <=> OnId(o, s))
                         /\ caller'[o].phase = caller[o].phase
  BY <1>1, <1>12 DEF Token, OnId
<1>14. OneCurrent(s)' /\ DisplacedByCurrent(s)'
  BY <1>4, <1>13 DEF IdInv, OneCurrent, DisplacedByCurrent, Current
<1>15. SeenRemembered(s)'
  <2> SUFFICES ASSUME NEW o \in Frames, OnId(o, s), o # f, caller[o].seen,
                      caller[o].phase # "arriving"
               PROVE  Token(o) \in table'.retired[s] \cup {table'.generation[s]}
    BY <1>11, <1>12, <1>13 DEF SeenRemembered
  <2>1. Token(o) \in table.retired[s] \cup {table.generation[s]}
    BY <1>4 DEF IdInv, SeenRemembered
  <2>2. QED
    BY <1>2, <1>3, <1>9, <1>11, <2>1, TokenOfAgent
<1>16. HolderHolds(s)'
  <2> SUFFICES ASSUME NEW o \in Frames, OnId(o, s), caller'[o].seen,
                      caller[o].phase = "live" \/ (caller[o].phase = "displaced" /\ Awaited(s))
               PROVE  o = f
    BY <1>3, <1>9, <1>11, <1>13 DEF HolderHolds, Awaited
  <2> SUFFICES ASSUME o # f PROVE FALSE
    OBVIOUS
  <2>1. table.generation[s] = Token(o)
    BY <1>4, <1>12 DEF IdInv, HolderHolds
  <2>2. QED
    BY <1>2, <1>3, <2>1, TokenOfAgent DEF Token
<1>17. LateEndExpected(s)' /\ OwnUsage(table, s)'
  BY <1>11, AuxiliaryAssumption DEF LateEndExpected, OwnUsage, Used, Token
<1>18. ASSUME NEW x \in AllIds \ {s} PROVE IdInv(x)'
  <2>1. SameAt(table, table', x)
    BY <1>10
  <2>2. \A o \in Frames : (caller'[o].id = x /\ caller'[o].phase # "new") \/ OnId(o, x)
                            => caller'[o] = caller[o]
    BY <1>1, <1>12 DEF OnId
  <2>3. QED
    BY <1>2, <2>1, <2>2, OtherId DEF AuxiliaryInv
<1>19. AuxiliaryTypeOK'
  BY <1>2, <1>3, <1>9, <1>12 DEF AuxiliaryTypeOK
<1>20. LeavingToArrive'
  BY <1>3, <1>12, <1>13 DEF AuxiliaryInv, LeavingToArrive, OnId
<1>21. QED
  BY <1>14, <1>15, <1>16, <1>17, <1>18, <1>19, <1>20 DEF AuxiliaryInv, IdInv

LEMMA AgentOver ==
  ASSUME AuxiliaryTypeOK, NEW f \in Frames, NEW o \in Frames
  PROVE  /\ Over(f)[o] \in AgentRecords
         /\ Over(f)[o].id = caller[o].id
         /\ Over(f)[o].seen = caller[o].seen
         /\ Over(f)[o].fresh = caller[o].fresh
         /\ Over(f)[o].phase =
               IF \/ o = f
                  \/ /\ caller[f].phase = "live" /\ OnId(o, caller[f].id)
                     /\ caller[o].phase = "displaced"
               THEN "done" ELSE caller[o].phase
         /\ caller[o].id # caller[f].id => Over(f)[o] = caller[o]
<1>1. caller[o] \in AgentRecords
  BY DEF AuxiliaryTypeOK
<1>2. CASE \/ o = f
           \/ /\ caller[f].phase = "live" /\ OnId(o, caller[f].id)
              /\ caller[o].phase = "displaced"
  <2>1. Over(f)[o] = [caller[o] EXCEPT !.phase = "done"]
    BY <1>2 DEF Over
  <2>2. QED
    BY <1>1, <1>2, <2>1 DEF AgentRecords, OnId
<1>3. CASE ~ \/ o = f
             \/ /\ caller[f].phase = "live" /\ OnId(o, caller[f].id)
                /\ caller[o].phase = "displaced"
  <2>1. Over(f)[o] = caller[o]
    BY <1>3 DEF Over
  <2>2. QED
    BY <1>1, <1>3, <2>1
<1>4. QED
  BY <1>2, <1>3

Holder(h, s) == /\ OnId(h, s) /\ caller[h].seen
                /\ caller[h].phase = "live" \/ (caller[h].phase = "displaced" /\ Awaited(s))

(* An end leaves the records of the id alone if another agent has it.      *)
LEMMA EndStep ==
  ASSUME AuxiliaryInv, NEW f \in Frames, NEW s \in AllIds, s = caller[f].id,
         caller[f].phase \in {"live", "displaced", "done"},
         caller' = Over(f), fore' = fore, crossing' = crossing,
         Sound(table, table', s),
         \A h \in Frames \ {f} : Holder(h, s) => table' = table
  PROVE  AuxiliaryInv'
<1>1. AuxiliaryTypeOK /\ OnId(f, s) /\ IdInv(s)
  BY DEF AuxiliaryInv, OnId
<1>2. \A o \in Frames :
        /\ caller'[o] \in AgentRecords
        /\ caller'[o].id = caller[o].id
        /\ caller'[o].seen = caller[o].seen
        /\ caller'[o].fresh = caller[o].fresh
        /\ caller'[o].phase =
              IF o = f \/ (caller[f].phase = "live" /\ OnId(o, s) /\ caller[o].phase = "displaced")
              THEN "done" ELSE caller[o].phase
        /\ caller[o].id # s => caller'[o] = caller[o]
  BY <1>1, AgentOver
<1>3. \A o \in Frames : Token(o)' = Token(o) /\ (OnId(o, s)' <=> OnId(o, s))
  BY <1>2 DEF Token, OnId
<1>4. \A o \in Frames : caller'[o].phase \in {"live", "leaving", "arriving", "displaced"}
                          => o # f /\ caller'[o].phase = caller[o].phase
  BY <1>2
<1>5. OneCurrent(s)'
  BY <1>1, <1>3, <1>4 DEF IdInv, OneCurrent, Current
<1>6. DisplacedByCurrent(s)'
  <2> SUFFICES ASSUME NEW o \in Frames, OnId(o, s), caller'[o].phase = "displaced"
               PROVE  \E h \in Frames : OnId(h, s)' /\ Current(h)'
    BY <1>3 DEF DisplacedByCurrent
  <2>1. caller[o].phase = "displaced" /\ caller[f].phase # "live"
    BY <1>2, <1>4
  <2>2. PICK h \in Frames : OnId(h, s) /\ Current(h)
    BY <1>1, <2>1 DEF IdInv, DisplacedByCurrent
  <2>3. caller'[h].phase = caller[h].phase
    BY <1>2, <2>1, <2>2 DEF Current
  <2>4. QED
    BY <1>3, <2>2, <2>3 DEF Current
<1>7. SeenRemembered(s)'
  <2> SUFFICES ASSUME NEW o \in Frames, OnId(o, s), caller[o].seen, caller'[o].phase # "arriving"
               PROVE  Token(o) \in table'.retired[s] \cup {table'.generation[s]}
    BY <1>2, <1>3 DEF SeenRemembered
  <2>1. caller[o].phase # "arriving"
    BY <1>2
  <2>2. Token(o) \in table.retired[s] \cup {table.generation[s]}
    BY <1>1, <2>1 DEF IdInv, SeenRemembered
  <2>3. QED
    BY <1>1, <2>2, TokenOfAgent DEF Sound, Remembers
<1>8. Awaited(s)' => Awaited(s)
  BY <1>3, <1>4 DEF Awaited
<1>9. HolderHolds(s)'
  <2> SUFFICES ASSUME NEW h \in Frames, OnId(h, s), caller[h].seen,
                      caller'[h].phase = "live" \/ (caller'[h].phase = "displaced" /\ Awaited(s))
               PROVE  s \in table'.active /\ table'.generation[s] = Token(h)
    BY <1>2, <1>3, <1>8 DEF HolderHolds
  <2>1. h # f /\ Holder(h, s)
    BY <1>4 DEF Holder
  <2>2. QED
    BY <1>1, <2>1 DEF IdInv, HolderHolds, Holder
<1>10. LateEndExpected(s)'
  <2> SUFFICES ASSUME NEW h \in Frames, OnId(h, s), caller'[h].phase = "live", caller[h].seen,
                      NEW o \in Frames, OnId(o, s), caller'[o].phase = "displaced", caller[o].seen
               PROVE  s \in table'.guarded \cup table'.reused \/ Used(table', s)
    BY <1>2, <1>3 DEF LateEndExpected
  <2>1. h # f /\ Holder(h, s) /\ caller[o].phase = "displaced" /\ caller[h].phase = "live"
    BY <1>4 DEF Holder
  <2>2. QED
    BY <1>1, <2>1 DEF IdInv, LateEndExpected
<1>11. OwnUsage(table, s)'
  BY <1>1 DEF IdInv, Sound
<1>12. ASSUME NEW x \in AllIds \ {s} PROVE IdInv(x)'
  <2>1. SameAt(table, table', x)
    BY DEF Sound, Elsewhere
  <2>2. \A o \in Frames : (caller'[o].id = x /\ caller'[o].phase # "new") \/ OnId(o, x)
                            => caller'[o] = caller[o]
    BY <1>2 DEF OnId
  <2>3. QED
    BY <1>1, <2>1, <2>2, OtherId DEF AuxiliaryInv
<1>13. caller' \in [Frames -> AgentRecords]
  BY <1>2 DEF Over
<1>14. AuxiliaryTypeOK'
  BY <1>1, <1>13 DEF AuxiliaryTypeOK, Sound
<1>15. LeavingToArrive'
  <2>1. \A o \in Frames : caller'[o].phase = "arriving" <=> caller[o].phase = "arriving"
    BY <1>2
  <2>2. \A o \in Frames : caller'[o].phase = "leaving" <=> caller[o].phase = "leaving"
    BY <1>2
  <2>3. QED
    BY <1>2, <2>1, <2>2 DEF AuxiliaryInv, LeavingToArrive, OnId
<1>16. QED
  BY <1>5, <1>6, <1>7, <1>9, <1>10, <1>11, <1>12, <1>14, <1>15 DEF AuxiliaryInv, IdInv

LEMMA EndSeenStep ==
  ASSUME AuxiliaryInv, NEW f \in Frames, EndSeen(f)
  PROVE  AuxiliaryInv'
<1>1. PICK s \in AllIds : s = caller[f].id
  BY DEF AuxiliaryInv, AuxiliaryTypeOK, AgentRecords
<1>2. AuxiliaryTypeOK /\ table \in Tables /\ IdInv(s)
  BY DEF AuxiliaryInv, AuxiliaryTypeOK
<1>3. PICK p \in AllIds : p = caller[f].parent
  BY <1>2 DEF AuxiliaryTypeOK, AgentRecords
<1>4. /\ caller[f].phase \in {"live", "displaced", "done"}
      /\ caller' = Over(f) /\ fore' = fore /\ crossing' = crossing
      /\ table' = table \/ table' = Deactivated(table, s, Token(f), p)
  BY <1>1, <1>3 DEF EndSeen
<1>5. Token(f) \in Tokens \ {NoToken}
  BY <1>2, TokenOfAgent
<1>6. Sound(table, table', s)
  BY <1>2, <1>4, <1>5, DeactivatedSound DEF Sound, Elsewhere, SameAt, Remembers
<1>7. ASSUME NEW h \in Frames \ {f}, Holder(h, s) PROVE table' = table
  <2>1. table.generation[s] = Token(h) /\ Token(h) # Token(f) /\ Token(h) # NoToken
    BY <1>2, <1>7, TokenOfAgent DEF IdInv, HolderHolds, Holder, Token
  <2>2. QED
    BY <1>2, <1>4, <1>5, <2>1, DeactivatedSound
<1>8. QED
  BY <1>1, <1>4, <1>6, <1>7, EndStep

LEMMA EndUnseenStep ==
  ASSUME AuxiliaryInv, NEW f \in Frames, EndUnseen(f)
  PROVE  AuxiliaryInv'
<1>1. PICK s \in AllIds : s = caller[f].id
  BY DEF AuxiliaryInv, AuxiliaryTypeOK, AgentRecords
<1>2. AuxiliaryTypeOK /\ table \in Tables /\ IdInv(s)
  BY DEF AuxiliaryInv, AuxiliaryTypeOK
<1>3. /\ caller[f].phase \in {"live", "displaced"}
      /\ caller[f].phase = "displaced" => caller[f].seen /\ ~Used(table, s) /\ s \notin table.reused
      /\ caller' = Over(f) /\ fore' = fore /\ crossing' = crossing
      /\ table' = table \/ table' = Deactivated(table, s, NoToken, Nobody)
  BY <1>1 DEF EndUnseen
<1>4. OnId(f, s)
  BY <1>1, <1>3 DEF OnId
<1>5. Sound(table, table', s)
  BY <1>2, <1>3, NoTokenType, DeactivatedSound DEF Sound, Elsewhere, SameAt, Remembers
<1>6. ASSUME NEW h \in Frames \ {f}, Holder(h, s) PROVE table' = table
  <2>1. table.generation[s] = Token(h) /\ Token(h) # Token(f) /\ Token(h) # NoToken
    BY <1>2, <1>6, TokenOfAgent DEF IdInv, HolderHolds, Holder, Token
  <2>2. caller[f].phase = "displaced"
    BY <1>2, <1>3, <1>4, <1>6 DEF IdInv, OneCurrent, Current, Holder, Awaited
  <2>3. caller[h].phase = "live"
    BY <1>2, <1>3, <1>4, <1>6, <2>1, <2>2 DEF IdInv, HolderHolds, Holder
  <2>4. s \in table.guarded /\ table.usage[s] = Nobody
    BY <1>2, <1>3, <1>4, <1>6, <2>2, <2>3 DEF IdInv, LateEndExpected, Holder, Used
  <2>5. QED
    BY <1>2, <1>3, <2>1, <2>4, NoTokenType, DeactivatedSound
<1>7. QED
  BY <1>1, <1>3, <1>5, <1>6, EndStep

LEMMA ForegroundStep ==
  ASSUME AuxiliaryInv, NEW s \in AllIds, Foreground(s)
  PROVE  AuxiliaryInv'
<1>1. AuxiliaryTypeOK /\ table \in Tables /\ IdInv(s)
  BY DEF AuxiliaryInv, AuxiliaryTypeOK
<1>2. fore' = s /\ Settled(s) /\ crossing' = crossing /\ Sound(table, table', s)
  BY <1>1, UnmarkedSound DEF Foreground
<1>3. ASSUME NEW o \in Frames
      PROVE  /\ caller'[o] \in AgentRecords
             /\ caller'[o].id = caller[o].id
             /\ caller'[o].seen = caller[o].seen
             /\ caller'[o].fresh = caller[o].fresh
             /\ OnId(o, s) => caller'[o].phase = "done"
             /\ ~OnId(o, s) => caller'[o] = caller[o]
  <2>1. caller[o] \in AgentRecords
    BY <1>1 DEF AuxiliaryTypeOK
  <2>2. caller'[o] = IF OnId(o, s) THEN [caller[o] EXCEPT !.phase = "done"] ELSE caller[o]
    BY DEF Foreground
  <2>3. QED
    BY <2>1, <2>2 DEF AgentRecords
<1>4. \A o \in Frames : Token(o)' = Token(o) /\ (OnId(o, s)' <=> OnId(o, s))
  BY <1>3 DEF Token, OnId
<1>5. SeenRemembered(s)'
  <2> SUFFICES ASSUME NEW o \in Frames, OnId(o, s), caller[o].seen
               PROVE  Token(o) \in table'.retired[s] \cup {table'.generation[s]}
    BY <1>3, <1>4 DEF SeenRemembered
  <2>1. Token(o) \in table.retired[s] \cup {table.generation[s]}
    BY <1>1, <1>2 DEF IdInv, SeenRemembered, Settled
  <2>2. QED
    BY <1>1, <1>2, <2>1, TokenOfAgent DEF Sound, Remembers
<1>6. IdInv(s)'
  BY <1>1, <1>2, <1>3, <1>4, <1>5
     DEF IdInv, OneCurrent, DisplacedByCurrent, HolderHolds, LateEndExpected, Current, Sound
<1>7. ASSUME NEW x \in AllIds \ {s} PROVE IdInv(x)'
  <2>1. SameAt(table, table', x)
    BY <1>2 DEF Sound, Elsewhere
  <2>2. \A o \in Frames : (caller'[o].id = x /\ caller'[o].phase # "new") \/ OnId(o, x)
                            => caller'[o] = caller[o]
    BY <1>3 DEF OnId
  <2>3. QED
    BY <1>1, <2>1, <2>2, OtherId DEF AuxiliaryInv
<1>8. AuxiliaryTypeOK'
  <2>1. caller' \in [Frames -> AgentRecords]
    BY <1>3 DEF Foreground
  <2>2. QED
    BY <1>1, <1>2, <2>1 DEF AuxiliaryTypeOK, Sound
<1>9. LeavingToArrive'
  <2>1. \A o \in Frames : caller'[o].phase = "arriving" <=> caller[o].phase = "arriving"
    BY <1>2, <1>3 DEF Settled
  <2>2. \A o \in Frames : caller'[o].phase = "leaving" <=> caller[o].phase = "leaving"
    BY <1>2, <1>3 DEF Settled
  <2>3. QED
    BY <1>2, <1>3, <2>1, <2>2 DEF AuxiliaryInv, LeavingToArrive, OnId
<1>10. QED
  BY <1>6, <1>7, <1>8, <1>9 DEF AuxiliaryInv

LEMMA ContinueAsStep ==
  ASSUME AuxiliaryInv, NEW f \in Frames, NEW n \in Frames, NEW new \in Ids,
         NEW c \in Frames \cup {Nobody}, ContinueAs(f, n, new, c)
  PROVE  AuxiliaryInv'
<1>1. PICK old \in AllIds : old = caller[f].id
  BY DEF AuxiliaryInv, AuxiliaryTypeOK, AgentRecords
<1>2. AuxiliaryTypeOK /\ new \in AllIds /\ IdInv(old) /\ IdInv(new)
  BY <1>1 DEF AuxiliaryInv, AllIds
<1>3. PICK keep \in BOOLEAN :
         /\ caller[f].phase = "live" /\ caller[n].phase = "new" /\ f # n /\ new # old
         /\ Settled(new) /\ fore' = fore /\ table' = table
         /\ crossing' = [crossing EXCEPT ![n] = [old |-> old, by |-> c, keep |-> keep]]
         /\ caller' = [Displacing(new) EXCEPT
                         ![f].phase = "leaving",
                         ![n] = [id |-> new, parent |-> old, phase |-> "arriving",
                                 seen |-> c = n, fresh |-> 0]]
  BY <1>1 DEF ContinueAs
<1>4. PICK seen : seen = (c = n)
  OBVIOUS
<1>a. seen \in BOOLEAN
  BY <1>4
<1>b. PICK me : me = [id |-> new, parent |-> old, phase |-> "arriving",
                      seen |-> seen, fresh |-> 0]
  OBVIOUS
<1>5. me \in AgentRecords /\ me.id = new /\ me.phase = "arriving" /\ (me.seen => c = n)
  BY <1>2, <1>4, <1>a, <1>b DEF AgentRecords
<1>6. Displacing(new) \in [Frames -> AgentRecords] /\ Displacing(new)[f] = caller[f]
  BY <1>1, <1>2, <1>3, Displaced DEF Displacing, OnId
<1>7. PICK him \in AgentRecords : /\ him = [caller[f] EXCEPT !.phase = "leaving"]
                            /\ him.id = old /\ him.phase = "leaving"
                            /\ him.seen = caller[f].seen /\ him.fresh = caller[f].fresh
  BY <1>1, <1>2, AgentLeaves DEF AuxiliaryTypeOK
<1>8. caller' = [Displacing(new) EXCEPT ![f] = him, ![n] = me]
  BY <1>3, <1>4, <1>b, <1>6, <1>7
<1>9. caller' \in [Frames -> AgentRecords] /\ caller'[f] = him /\ caller'[n] = me
      /\ \A o \in Frames \ {f, n} : caller'[o] = Displacing(new)[o]
  BY <1>3, <1>5, <1>6, <1>8
<1>10. \A o \in Frames \ {f, n} :
         /\ caller'[o].id = caller[o].id /\ caller'[o].seen = caller[o].seen
         /\ Token(o)' = Token(o)
         /\ ~OnId(o, new) => caller'[o] = caller[o]
         /\ OnId(o, new) => caller'[o].phase =
               IF caller[o].phase = "live" THEN "displaced"
               ELSE IF caller[o].phase = "displaced" THEN "done" ELSE caller[o].phase
  BY <1>2, <1>9, Displaced DEF Token
<1>11. \A o \in Frames \ {f, n} : OnId(o, new)' <=> OnId(o, new)
  BY <1>10 DEF OnId
<1>12. ~OnId(f, new)' /\ ~OnId(f, new)
  BY <1>1, <1>3, <1>7, <1>9 DEF OnId
<1>13. \A o \in Frames : OnId(o, new)' /\ Current(o)' => o = n
  BY <1>3, <1>10, <1>11, <1>12 DEF Current, Settled
<1>14. IdInv(new)'
  <2>1. OneCurrent(new)' /\ DisplacedByCurrent(new)'
    BY <1>5, <1>9, <1>13 DEF OneCurrent, DisplacedByCurrent, OnId, Current
  <2>2. SeenRemembered(new)'
    <3> SUFFICES ASSUME NEW o \in Frames, OnId(o, new)', caller'[o].seen,
                        caller'[o].phase # "arriving"
                 PROVE  Token(o)' \in table'.retired[new] \cup {table'.generation[new]}
      BY DEF SeenRemembered
    <3>1. o \notin {f, n} /\ OnId(o, new)
      BY <1>5, <1>9, <1>11, <1>12
    <3>2. QED
      BY <1>2, <1>3, <1>10, <3>1 DEF IdInv, SeenRemembered, Settled
  <2>3. HolderHolds(new)'
    <3> SUFFICES ASSUME NEW o \in Frames, OnId(o, new)', caller'[o].seen,
                        caller'[o].phase \in {"live", "displaced"}
                 PROVE  new \in table'.active /\ table'.generation[new] = Token(o)'
      BY DEF HolderHolds
    <3>1. o \notin {f, n} /\ OnId(o, new) /\ caller[o].phase = "live" /\ caller[o].seen
      BY <1>5, <1>9, <1>10, <1>11, <1>12, <1>13 DEF Current
    <3>2. QED
      BY <1>2, <1>3, <1>10, <3>1 DEF IdInv, HolderHolds
  <2>4. LateEndExpected(new)'
    BY <1>5, <1>9, <1>13 DEF LateEndExpected, Current
  <2>5. OwnUsage(table, new)'
    BY <1>2, <1>3 DEF IdInv, OwnUsage
  <2>6. QED
    BY <2>1, <2>2, <2>3, <2>4, <2>5 DEF IdInv
<1>15. OnId(f, old) /\ Current(f) /\ OnId(f, old)' /\ Current(f)'
  BY <1>1, <1>3, <1>7, <1>9 DEF OnId, Current
<1>16. \A o \in Frames \ {f} : /\ OnId(o, old)' <=> OnId(o, old)
                               /\ OnId(o, old) => caller'[o] = caller[o]
  BY <1>3, <1>5, <1>9, <1>10 DEF OnId
<1>17. \A o \in Frames \ {f} : OnId(o, old) => ~Current(o)
  BY <1>2, <1>15 DEF IdInv, OneCurrent
<1>18. IdInv(old)'
  <2>a. \A o \in Frames : OnId(o, old)' /\ caller'[o].phase \in {"live", "leaving", "arriving"}
                            => o = f
    BY <1>16, <1>17 DEF Current
  <2>b. caller'[f].phase = "leaving"
    BY <1>7, <1>9
  <2>1. OneCurrent(old)' /\ DisplacedByCurrent(old)' /\ LateEndExpected(old)'
    BY <1>15, <2>a, <2>b DEF OneCurrent, DisplacedByCurrent, LateEndExpected, Current
  <2>2. SeenRemembered(old)'
    <3> SUFFICES ASSUME NEW o \in Frames, OnId(o, old)', caller'[o].seen,
                        caller'[o].phase # "arriving"
                 PROVE  Token(o)' \in table'.retired[old] \cup {table'.generation[old]}
      BY DEF SeenRemembered
    <3>1. Token(o)' = Token(o) /\ OnId(o, old) /\ caller[o].seen /\ caller[o].phase # "arriving"
      BY <1>3, <1>7, <1>9, <1>15, <1>16 DEF Token
    <3>2. QED
      BY <1>2, <1>3, <3>1 DEF IdInv, SeenRemembered
  <2>3. HolderHolds(old)'
    BY <2>a, <2>b DEF HolderHolds, Awaited
  <2>4. OwnUsage(table, old)'
    BY <1>2, <1>3 DEF IdInv, OwnUsage
  <2>5. QED
    BY <2>1, <2>2, <2>3, <2>4 DEF IdInv
<1>19. ASSUME NEW x \in AllIds \ {old, new} PROVE IdInv(x)'
  <2>1. SameAt(table, table', x)
    BY <1>3 DEF SameAt
  <2>2. \A o \in Frames : (caller'[o].id = x /\ caller'[o].phase # "new") \/ OnId(o, x)
                            => caller'[o] = caller[o]
    <3>1. caller'[f].id = old /\ caller'[n].id = new /\ ~OnId(f, x) /\ ~OnId(n, x)
      BY <1>1, <1>3, <1>5, <1>7, <1>9 DEF OnId
    <3>2. \A o \in Frames \ {f, n} : caller'[o].id = x \/ OnId(o, x) => caller'[o] = caller[o]
      BY <1>10 DEF OnId
    <3>3. QED
      BY <3>1, <3>2
  <2>3. QED
    BY <1>2, <2>1, <2>2, OtherId DEF AuxiliaryInv
<1>20. crossing' \in [Frames -> Boundaries] /\ crossing'[n].old = old /\ crossing'[n].by = c
       /\ \A o \in Frames \ {n} : crossing'[o] = crossing[o]
  <2>1. PICK b : b = [old |-> old, by |-> c, keep |-> keep]
    OBVIOUS
  <2>2. b.old = old /\ b.by = c
    BY <2>1
  <2>3. b \in [old : AllIds, by : Frames \cup {Nobody}, keep : BOOLEAN]
    BY <2>1
  <2>4. b \in Boundaries
    BY <2>3 DEF Boundaries
  <2>5. QED
    BY <1>2, <1>3, <2>1, <2>2, <2>4 DEF AuxiliaryTypeOK
<1>21. AuxiliaryTypeOK'
  BY <1>2, <1>3, <1>9, <1>20 DEF AuxiliaryTypeOK
<1>22. LeavingToArrive'
  <2>1. \A m \in Frames \ {n} : caller'[m].phase = "arriving"
                                  => caller[m].phase = "arriving" /\ caller'[m].seen = caller[m].seen
    BY <1>7, <1>9, <1>10
  <2>2. \A m \in Frames : caller[m].phase = "leaving"
                           => caller'[m].phase = "leaving" /\ caller'[m].id = caller[m].id
    BY <1>3, <1>9, <1>10
  <2>3. \A m \in Frames : caller[m].phase = "arriving" => crossing[m].old # old
    BY <1>3, <1>15, <1>17 DEF AuxiliaryInv, LeavingToArrive, Current, OnId
  <2> SUFFICES ASSUME NEW m \in Frames, caller'[m].phase = "arriving"
               PROVE  /\ \E l \in Frames : caller'[l].phase = "leaving" /\ caller'[l].id = crossing'[m].old
                      /\ \A k \in Frames : caller'[k].phase = "arriving"
                                           /\ crossing'[k].old = crossing'[m].old => k = m
                      /\ caller'[m].seen => crossing'[m].by = m
    BY DEF LeavingToArrive
  <2>4. CASE m = n
    <3>1. caller'[f].phase = "leaving" /\ caller'[f].id = crossing'[m].old
      BY <1>7, <1>9, <1>20, <2>4
    <3>2. \A k \in Frames : caller'[k].phase = "arriving" /\ crossing'[k].old = crossing'[m].old
                              => k = m
      BY <1>20, <2>1, <2>3, <2>4
    <3>3. caller'[m].seen => crossing'[m].by = m
      BY <1>5, <1>9, <1>20, <2>4
    <3>4. QED
      BY <3>1, <3>2, <3>3
  <2>5. CASE m # n
    <3>1. crossing'[m] = crossing[m] /\ caller[m].phase = "arriving"
          /\ (caller'[m].seen => caller[m].seen)
      BY <1>20, <2>1, <2>5
    <3>2. \A k \in Frames : caller'[k].phase = "arriving" /\ crossing'[k].old = crossing[m].old
                              => k = m
      BY <1>20, <2>1, <2>3, <3>1 DEF AuxiliaryInv, LeavingToArrive
    <3>3. \E l \in Frames : caller'[l].phase = "leaving" /\ caller'[l].id = crossing[m].old
      BY <2>2, <3>1 DEF AuxiliaryInv, LeavingToArrive
    <3>4. QED
      BY <3>1, <3>2, <3>3 DEF AuxiliaryInv, LeavingToArrive
  <2>6. QED
    BY <2>4, <2>5
<1>23. QED
  BY <1>14, <1>18, <1>19, <1>21, <1>22 DEF AuxiliaryInv

LEMMA ArriveStep ==
  ASSUME AuxiliaryInv, NEW n \in Frames, Arrive(n)
  PROVE  AuxiliaryInv'
<1>1. AuxiliaryTypeOK /\ table \in Tables /\ caller[n] \in AgentRecords /\ caller[n].phase = "arriving"
  BY DEF AuxiliaryInv, AuxiliaryTypeOK, Arrive
<1>2. PICK old \in AllIds : old = crossing[n].old
  BY <1>1 DEF AuxiliaryTypeOK, Boundaries, AllIds
<1>3. PICK new \in AllIds : new = caller[n].id
  BY <1>1 DEF AgentRecords
<1>4. PICK l \in Frames : OnId(l, old) /\ caller[l].phase = "leaving"
  BY <1>1, <1>2 DEF AuxiliaryInv, LeavingToArrive, OnId
<1>5. IdInv(old) /\ IdInv(new) /\ OnId(n, new)
  BY <1>1, <1>3 DEF AuxiliaryInv, OnId
<1>6. old # new
  BY <1>1, <1>3, <1>4, <1>5 DEF IdInv, OneCurrent, Current
<1>7. PICK left \in Tables : Sound(table, left, old)
                             /\ left = IF crossing[n].keep THEN table ELSE LeftBehind(table, old)
  BY <1>1, LeftBehindSound DEF Sound, Elsewhere, SameAt, Remembers
<1>8. PICK g \in Tokens : g = IF crossing[n].by = n THEN Token(n) ELSE NoToken
  BY <1>1, TokenOfAgent, NoTokenType
<1>9. PICK was : was = (old \in table.active)
  OBVIOUS
<1>a. was \in BOOLEAN
  BY <1>9
<1>10. /\ table' = TakenOver(left, old, new, g, was)
       /\ fore' = fore /\ crossing' = [crossing EXCEPT ![n] = NoBoundary]
  BY <1>2, <1>3, <1>7, <1>8, <1>9 DEF Arrive
<1>11. /\ Sound(left, table', new)
       /\ g # NoToken =>
            /\ new \in table'.active /\ table'.generation[new] = g
            /\ left.generation[new] \notin {g, NoToken} => new \in table'.guarded \cup table'.reused
  BY <1>10, <1>a, TakenOverSound
<1>12. caller[n].seen => g = Token(n) /\ g # NoToken
  BY <1>1, <1>8, TokenOfAgent DEF AuxiliaryInv, LeavingToArrive
<1>13. SameAt(table, left, new) /\ SameAt(left, table', old)
       /\ \A x \in AllIds \ {old, new} : SameAt(table, table', x)
  BY <1>6, <1>7, <1>11 DEF Sound, Elsewhere, SameAt
<1>14. ASSUME NEW o \in Frames
       PROVE  /\ caller'[o] \in AgentRecords
              /\ caller'[o].id = caller[o].id
              /\ caller'[o].seen = caller[o].seen
              /\ caller'[o].fresh = caller[o].fresh
              /\ caller'[o].phase = IF caller[o].phase \in {"leaving", "displaced"} /\ caller[o].id = old
                                    THEN "done"
                                    ELSE IF o = n THEN "live" ELSE caller[o].phase
              /\ caller[o].id \notin {old, new} => caller'[o] = caller[o]
  <2>1. caller[o] \in AgentRecords
    BY <1>1 DEF AuxiliaryTypeOK
  <2>2. caller'[o] = IF caller[o].phase \in {"leaving", "displaced"} /\ caller[o].id = old
                     THEN [caller[o] EXCEPT !.phase = "done"]
                     ELSE IF o = n THEN [caller[o] EXCEPT !.phase = "live"]
                     ELSE caller[o]
    BY <1>2 DEF Arrive
  <2>3. QED
    BY <1>3, <2>1, <2>2 DEF AgentRecords
<1>15. \A o \in Frames : /\ Token(o)' = Token(o)
                         /\ OnId(o, new)' <=> OnId(o, new)
                         /\ OnId(o, old)' <=> OnId(o, old)
  BY <1>1, <1>14 DEF Token, OnId
<1>16. \A o \in Frames : OnId(o, new) => caller'[o].phase = IF o = n THEN "live" ELSE caller[o].phase
  BY <1>6, <1>14 DEF OnId
<1>17. \A o \in Frames \ {n} : OnId(o, new) => ~Current(o)
  BY <1>1, <1>5 DEF IdInv, OneCurrent, Current
<1>18. \A o \in Frames : OnId(o, old) => caller'[o].phase \notin {"live", "leaving", "arriving", "displaced"}
  <2> SUFFICES ASSUME NEW o \in Frames, OnId(o, old)
               PROVE  caller'[o].phase \notin {"live", "leaving", "arriving", "displaced"}
    OBVIOUS
  <2>1. CASE o = l
    BY <1>4, <1>14, <2>1 DEF OnId
  <2>2. CASE o # l
    <3>1. ~Current(o) /\ o # n
      BY <1>4, <1>5, <1>1, <2>2 DEF IdInv, OneCurrent, Current
    <3>2. QED
      BY <1>14, <3>1 DEF OnId, Current
  <2>3. QED
    BY <2>1, <2>2
<1>19. IdInv(new)'
  <2>1. OneCurrent(new)' /\ DisplacedByCurrent(new)'
    BY <1>5, <1>15, <1>16, <1>17 DEF OneCurrent, DisplacedByCurrent, Current
  <2>2. SeenRemembered(new)'
    <3> SUFFICES ASSUME NEW o \in Frames, OnId(o, new), caller[o].seen
                 PROVE  Token(o) \in table'.retired[new] \cup {table'.generation[new]}
      BY <1>14, <1>15 DEF SeenRemembered
    <3>1. CASE o = n
      BY <1>11, <1>12, <3>1
    <3>2. CASE o # n
      <4>1. Token(o) \in table.retired[new] \cup {table.generation[new]}
        BY <1>5, <1>17, <3>2 DEF IdInv, SeenRemembered, Current
      <4>2. Token(o) \in left.retired[new] \cup {left.generation[new]}
        BY <1>13, <4>1 DEF SameAt
      <4>3. QED
        BY <1>1, <1>11, <4>2, TokenOfAgent DEF Sound, Remembers
    <3>3. QED
      BY <3>1, <3>2
  <2>3. HolderHolds(new)'
    <3> SUFFICES ASSUME NEW o \in Frames, OnId(o, new), caller[o].seen,
                        caller'[o].phase = "live" \/ (caller'[o].phase = "displaced" /\ Awaited(new)')
                 PROVE  new \in table'.active /\ table'.generation[new] = Token(o)
      BY <1>14, <1>15 DEF HolderHolds
    <3>1. o = n
      BY <1>15, <1>16, <1>17 DEF Awaited, Current
    <3>2. QED
      BY <1>11, <1>12, <3>1
  <2>4. LateEndExpected(new)'
    <3> SUFFICES ASSUME NEW h \in Frames, OnId(h, new), caller'[h].phase = "live", caller[h].seen,
                        NEW o \in Frames, OnId(o, new), caller'[o].phase = "displaced", caller[o].seen
                 PROVE  new \in table'.guarded \cup table'.reused
      BY <1>14, <1>15 DEF LateEndExpected
    <3>1. h = n /\ o # n /\ caller[o].phase = "displaced"
      BY <1>16, <1>17 DEF Current
    <3>2. table.generation[new] = Token(o)
      BY <1>1, <1>5, <3>1 DEF IdInv, HolderHolds, Awaited
    <3>3. Token(o) \notin {Token(n), NoToken}
      BY <1>1, <3>1, TokenOfAgent DEF Token
    <3>4. QED
      BY <1>11, <1>12, <1>13, <3>1, <3>2, <3>3 DEF SameAt
  <2>5. OwnUsage(table, new)'
    BY <1>5, <1>11, <1>13 DEF IdInv, Sound, SameAt, OwnUsage
  <2>6. QED
    BY <2>1, <2>2, <2>3, <2>4, <2>5 DEF IdInv
<1>20. IdInv(old)'
  <2>1. OneCurrent(old)' /\ DisplacedByCurrent(old)' /\ HolderHolds(old)' /\ LateEndExpected(old)'
    BY <1>15, <1>18 DEF OneCurrent, DisplacedByCurrent, HolderHolds, LateEndExpected, Current
  <2>2. SeenRemembered(old)'
    <3> SUFFICES ASSUME NEW o \in Frames, OnId(o, old), caller[o].seen
                 PROVE  Token(o) \in table'.retired[old] \cup {table'.generation[old]}
      BY <1>14, <1>15 DEF SeenRemembered
    <3>1. caller[o].phase # "arriving"
      BY <1>4, <1>5 DEF IdInv, OneCurrent, Current
    <3>2. Token(o) \in table.retired[old] \cup {table.generation[old]}
      BY <1>5, <3>1 DEF IdInv, SeenRemembered
    <3>3. Token(o) \in left.retired[old] \cup {left.generation[old]}
      BY <1>1, <1>7, <3>2, TokenOfAgent DEF Sound, Remembers
    <3>4. QED
      BY <1>13, <3>3 DEF SameAt
  <2>3. OwnUsage(table, old)'
    BY <1>5, <1>7, <1>13 DEF IdInv, Sound, SameAt, OwnUsage
  <2>4. QED
    BY <2>1, <2>2, <2>3 DEF IdInv
<1>21. ASSUME NEW x \in AllIds \ {old, new} PROVE IdInv(x)'
  <2>1. SameAt(table, table', x)
    BY <1>13
  <2>2. \A o \in Frames : (caller'[o].id = x /\ caller'[o].phase # "new") \/ OnId(o, x)
                            => caller'[o] = caller[o]
    BY <1>14 DEF OnId
  <2>3. QED
    BY <1>1, <2>1, <2>2, OtherId DEF AuxiliaryInv
<1>22. crossing' \in [Frames -> Boundaries] /\ \A o \in Frames \ {n} : crossing'[o] = crossing[o]
  BY <1>1, <1>10 DEF AuxiliaryTypeOK, NoBoundary, Boundaries
<1>23. AuxiliaryTypeOK'
  <2>1. caller' \in [Frames -> AgentRecords]
    BY <1>14 DEF Arrive
  <2>2. QED
    BY <1>1, <1>10, <1>11, <1>22, <2>1 DEF AuxiliaryTypeOK, Sound
<1>24. LeavingToArrive'
  <2>1. \A m \in Frames : caller'[m].phase = "arriving" => caller[m].phase = "arriving" /\ m # n
    BY <1>14
  <2> SUFFICES ASSUME NEW m \in Frames, caller'[m].phase = "arriving"
               PROVE  /\ \E k \in Frames : caller'[k].phase = "leaving" /\ caller'[k].id = crossing'[m].old
                      /\ \A k \in Frames : caller'[k].phase = "arriving"
                                           /\ crossing'[k].old = crossing'[m].old => k = m
                      /\ caller'[m].seen => crossing'[m].by = m
    BY DEF LeavingToArrive
  <2>2. crossing[m].old # old /\ crossing'[m] = crossing[m]
    BY <1>1, <1>2, <1>22, <2>1 DEF AuxiliaryInv, LeavingToArrive
  <2>3. PICK k \in Frames : caller[k].phase = "leaving" /\ caller[k].id = crossing[m].old
    BY <2>1 DEF AuxiliaryInv, LeavingToArrive
  <2>4. caller'[k].phase = "leaving" /\ caller'[k].id = crossing[m].old
    BY <1>1, <1>14, <2>2, <2>3
  <2>5. \A j \in Frames : caller'[j].phase = "arriving" /\ crossing'[j].old = crossing'[m].old
                            => j = m
    BY <1>22, <2>1, <2>2 DEF AuxiliaryInv, LeavingToArrive
  <2>6. QED
    BY <1>14, <2>1, <2>2, <2>4, <2>5 DEF AuxiliaryInv, LeavingToArrive
<1>25. QED
  BY <1>19, <1>20, <1>21, <1>23, <1>24 DEF AuxiliaryInv

LEMMA AuxiliaryInit_Inv == AuxiliaryInit => AuxiliaryInv
<1> SUFFICES ASSUME AuxiliaryInit PROVE AuxiliaryInv
  OBVIOUS
<1>1. \A f \in Frames : caller[f] = NotStarted /\ caller[f].phase = "new"
  BY DEF AuxiliaryInit, NotStarted
<1>2. caller \in [Frames -> AgentRecords]
  BY DEF AuxiliaryInit, NotStarted, AgentRecords, AllIds
<1>3. table \in Tables /\ table.generation = [s \in AllIds |-> NoToken]
  BY NoTokenType DEF AuxiliaryInit, Tables
<1>4. crossing \in [Frames -> Boundaries] /\ fore \in AllIds
  BY DEF AuxiliaryInit, NoBoundary, Boundaries, AllIds
<1>5. ASSUME NEW s \in AllIds PROVE IdInv(s)
  BY <1>1, <1>3 DEF IdInv, OneCurrent, DisplacedByCurrent, SeenRemembered, HolderHolds,
       LateEndExpected, OwnUsage, OnId
<1>6. LeavingToArrive
  BY <1>1 DEF LeavingToArrive
<1>7. QED
  BY <1>2, <1>3, <1>4, <1>5, <1>6 DEF AuxiliaryInv, AuxiliaryTypeOK

LEMMA AuxiliaryStep == AuxiliaryInv /\ [AuxiliaryNext]_auxiliaryVars => AuxiliaryInv'
<1> SUFFICES ASSUME AuxiliaryInv, [AuxiliaryNext]_auxiliaryVars PROVE AuxiliaryInv'
  OBVIOUS
<1>1. CASE UNCHANGED auxiliaryVars
  BY <1>1, AuxiliaryStutter
<1>2. ASSUME NEW f \in Frames, Restart(f) \/ Report(f) \/ EndSeen(f) \/ EndUnseen(f) \/ Arrive(f)
      PROVE  AuxiliaryInv'
  BY <1>2, RestartStep, ReportStep, EndSeenStep, EndUnseenStep, ArriveStep
<1>3. ASSUME NEW f \in Frames, NEW s \in Ids, NEW p \in AllIds, NEW seen \in BOOLEAN,
             Spawn(f, s, p, seen)
      PROVE  AuxiliaryInv'
  BY <1>3, SpawnStep
<1>4. ASSUME NEW f \in Frames, NEW n \in Frames, NEW s \in Ids, NEW c \in Frames \cup {Nobody},
             ContinueAs(f, n, s, c)
      PROVE  AuxiliaryInv'
  BY <1>4, ContinueAsStep
<1>5. ASSUME NEW s \in AllIds, Foreground(s) PROVE AuxiliaryInv'
  BY <1>5, ForegroundStep
<1>6. QED
  BY <1>1, <1>2, <1>3, <1>4, <1>5 DEF AuxiliaryNext

LEMMA KeptApart == AuxiliaryInv => AgentsKeptApart
<1> SUFFICES ASSUME AuxiliaryInv PROVE AgentsKeptApart
  OBVIOUS
<1>1. ASSUME NEW f \in Frames, caller[f].phase # "new" PROVE Seen(f) \in {Nobody, f}
  <2>1. PICK s \in AllIds : s = caller[f].id
    BY DEF AuxiliaryInv, AuxiliaryTypeOK, AgentRecords
  <2>2. OwnUsage(table, s) /\ Token(f) # NoToken
    BY <2>1, TokenOfAgent DEF AuxiliaryInv, IdInv
  <2>3. CASE s \in table.active /\ table.generation[s] = Token(f)
    BY <2>1, <2>2, <2>3 DEF Seen, OwnUsage, Token
  <2>4. CASE ~(s \in table.active /\ table.generation[s] = Token(f))
    BY <2>1, <2>4 DEF Seen
  <2>5. QED
    BY <2>3, <2>4
<1>2. ASSUME NEW f \in Frames, caller[f].phase = "live", caller[f].seen
      PROVE  /\ caller[f].id \in table.active /\ Recognised(f)
             /\ table.generation[caller[f].id] = Token(f)
  <2>1. PICK s \in AllIds : s = caller[f].id
    BY DEF AuxiliaryInv, AuxiliaryTypeOK, AgentRecords
  <2>2. QED
    BY <1>2, <2>1 DEF AuxiliaryInv, IdInv, HolderHolds, OnId, Recognised
<1>3. QED
  BY <1>1, <1>2 DEF AgentsKeptApart, ReadsOwnUsage, HolderKeepsItsId

(* No agent is taken for another one or for the conversation: it decides   *)
(* by the size it reported itself, and one that was started and seen keeps *)
(* its id whatever late calls of others arrive, for any number of agents,  *)
(* ids and restarts (aux_session.py).                                      *)
THEOREM AgentsAreKeptApart == AuxiliarySpec => []AgentsKeptApart
<1>1. AuxiliarySpec => []AuxiliaryInv
  BY AuxiliaryInit_Inv, AuxiliaryStep, PTL DEF AuxiliarySpec
<1>2. QED
  BY <1>1, KeptApart, PTL
=============================================================================
