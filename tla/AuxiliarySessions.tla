--------------------------- MODULE AuxiliarySessions ---------------------------
(***************************************************************************)
(* Subagents and background reviews run inside the host with sessions of   *)
(* their own, in threads of their own, and call the one engine, which has  *)
(* to keep them apart from the conversation and from each other.  It knows *)
(* them by the agent object on the caller's stack: an object gets a token  *)
(* once, and the session's generation is the token of the object that      *)
(* holds it.  The host reuses session ids, calls late, calls without the   *)
(* agent on the stack, continues an agent under a new id, and takes an     *)
(* agent's id for the conversation.                                        *)
(*                                                                         *)
(* Of late calls the host is assumed to make those the tables can tell     *)
(* apart: calls about one id come one after the other, an end without the  *)
(* agent is late by one holder of the id at most and never for an object   *)
(* or a holder no hook has seen, for an id the conversation had, or after  *)
(* the holder has reported usage, and a start without the agent is for an  *)
(* id no object had.                                                       *)
(*                                                                         *)
(* Left out: the markers of a thread for agents whose own marks appear     *)
(* only after their start, the host's database of sessions, the native     *)
(* compressor a bypassed session may get, and the change of profile that   *)
(* empties all tables.  An object that continues under a new id counts as  *)
(* a new one, since every table is keyed by the id.                        *)
(***************************************************************************)
EXTENDS Naturals, FiniteSets

CONSTANTS Frames,   \* agent objects
          Ids,      \* session ids that agents get
          Main,     \* the conversation's own session
          Nobody,
          MaxFresh  \* bounds the new tokens of one object

ASSUME AuxiliaryAssumption == Nobody \notin Frames

AllIds == Ids \cup {Main}
NoToken == <<Nobody, 0>>

VARIABLES caller,   \* the agent objects
          fore,     \* _session_id
          table,    \* what the engine has on record about sessions
          crossing  \* of each object: the boundary that makes it a continuation

auxiliaryVars == <<caller, fore, table, crossing>>

NotStarted == [id |-> Main, parent |-> Main, phase |-> "new", seen |-> FALSE, fresh |-> 0]
NoBoundary == [old |-> Main]

AuxiliaryInit ==
    /\ caller = [f \in Frames |-> NotStarted]
    /\ fore = Main
    /\ table = [active     |-> {},  \* _auxiliary_session_ids
                lineage    |-> {},  \* ids that ever were auxiliary
                reused     |-> {},  \* of these, ids the conversation took
                guarded    |-> {},  \* ids whose next unseen end may be a late one
                generation |-> [s \in AllIds |-> NoToken],
                retired    |-> [s \in AllIds |-> {}],
                expected   |-> [s \in AllIds |-> Nobody],  \* handoff parents
                usage      |-> [s \in AllIds |-> Nobody]]  \* who reported the tokens
    /\ crossing = [f \in Frames |-> NoBoundary]

-----------------------------------------------------------------------------
(* Who calls.  An object stands on its caller's stack, or nobody does.     *)

Token(f) == <<f, caller[f].fresh>>
Generation(c, s) == IF c # Nobody /\ caller[c].id = s THEN Token(c) ELSE NoToken

\* A call is taken for an auxiliary one if the tables know the id or its parent.
Recognised(f) == \/ caller[f].id \in table.active \cup table.lineage
                 \/ caller[f].parent \in table.lineage \cup {fore}

Retired(t, s, g) == g # NoToken /\ g \in t.retired[s]

Retire(t, s, g) == IF g = NoToken THEN t ELSE [t EXCEPT !.retired[s] = @ \cup {g}]

\* What every operation that takes an id away forgets about it.
Emptied(t, s) == [t EXCEPT !.usage[s] = Nobody, !.generation[s] = NoToken,
                           !.guarded = @ \ {s}, !.expected[s] = Nobody]

Held(t, s) == t.generation[s] # NoToken
Used(t, s) == t.usage[s] # Nobody

-----------------------------------------------------------------------------
(* What the engine does with its tables.                                   *)

\* A deliberate bug: a late start of a displaced agent is let in.
RefusesNobody(t, s, g) == FALSE

Refuses(t, s, g) ==
    /\ Retired(t, s, g)
    /\ IF Held(t, s) THEN t.generation[s] # g ELSE s \in t.active

Named(t, s) == [t EXCEPT !.active = @ \cup {s}, !.lineage = @ \cup {s}, !.reused = @ \ {s}]

Registered(t, s, g) ==
    LET known == s \in t.active \/ Used(t, s) \/ Held(t, s)
        now   == Named(t, s)
    IN  CASE g # NoToken /\ t.generation[s] = g -> [now EXCEPT !.expected[s] = Nobody]
          [] g # NoToken /\ t.generation[s] # g ->
                [Emptied(Retire(now, s, t.generation[s]), s) EXCEPT
                    !.generation[s] = g,
                    !.guarded = IF known THEN @ \cup {s} ELSE t.guarded]
          [] g = NoToken /\ Held(t, s) /\ s \in t.active -> now
          [] OTHER -> Emptied(Retire(now, s, t.generation[s]), s)

IgnoresEnd(t, s, g, parent) ==
    \/ Retired(t, s, g)
    \/ /\ ~Held(t, s) /\ s \in t.guarded
       /\ \/ g = NoToken /\ ~Used(t, s)
          \/ Nobody \notin {t.expected[s], parent} /\ parent # t.expected[s]
    \/ /\ Held(t, s) /\ t.generation[s] # g
       /\ g # NoToken \/ (s \in t.guarded /\ ~Used(t, s))

Deactivated(t, s, g, parent) ==
    IF IgnoresEnd(t, s, g, parent) THEN t
    ELSE [Emptied(Retire(t, s, IF Held(t, s) THEN t.generation[s] ELSE g), s)
             EXCEPT !.active = @ \ {s}]

Unmarked(t, s) ==
    [Emptied(Retire(t, s, t.generation[s]), s) EXCEPT
        !.active = @ \ {s},
        !.reused = IF s \in t.lineage THEN @ \cup {s} ELSE @]

\* The first half of a handoff: the id that is left.
LeftBehind(t, old) ==
    [Emptied(Retire(t, old, t.generation[old]), old) EXCEPT !.active = @ \ {old}]

\* The second half: the id that is taken.  g is the caller's, if it is seen.
TakenOver(t, old, new, g, oldWasActive) ==
    LET prev     == t.generation[new]
        running  == new \in t.active \cup t.guarded \/ Used(t, new) \/ Held(t, new)
        guarded  == new \in t.guarded
        expected == t.expected[new]
        stranger == g = NoToken /\ ~oldWasActive /\ old # expected
        replaces == /\ Held(t, new)
                    /\ IF g # NoToken THEN prev # g
                       ELSE guarded /\ (~Used(t, new) \/ expected \in {Nobody, old})
        doubtful == \/ replaces \/ guarded
                    \/ ~Held(t, new) /\ running
        now      == Retire(t, new, IF replaces THEN prev ELSE NoToken)
        ignores  == /\ Held(t, new) /\ stranger
                    /\ t.retired[old] # {} \/ (guarded /\ Used(t, new) /\ expected # Nobody)
    IN  IF ignores THEN [t EXCEPT !.lineage = @ \cup {new}]
        ELSE IF new \in t.reused /\ (g = NoToken \/ prev # g)
        THEN [Emptied(Retire(t, new, prev), new) EXCEPT
                 !.active = @ \cup {new}, !.lineage = @ \cup {new},
                 !.generation[new] = g,
                 !.expected[new] = IF g = NoToken THEN old ELSE Nobody]
        ELSE [Named(now, new) EXCEPT
                 !.usage[new] = Nobody,
                 !.guarded = IF doubtful THEN @ \cup {new} ELSE @ \ {new},
                 !.expected[new] = IF g # NoToken THEN Nobody
                                   ELSE IF doubtful THEN old ELSE @,
                 !.generation[new] = IF g # NoToken THEN g
                                     ELSE IF replaces THEN NoToken ELSE @]

-----------------------------------------------------------------------------
(* The host: agents start, report, end and go on under another id; each    *)
(* call is made by the agent object or by the host without it.             *)

OnId(f, s) == caller[f].phase # "new" /\ caller[f].id = s

\* No boundary is under way on the id: the host makes its calls about one
\* id one after the other.
Settled(s) == \A f \in Frames : OnId(f, s) => caller[f].phase \notin {"leaving", "arriving"}

HolderSeen(s) == \A f \in Frames : OnId(f, s) /\ caller[f].phase = "live" => caller[f].seen

\* A new object takes the id over from those that have it: an end of the last
\* one may still come, those of the earlier ones have.
Displacing(s) == [f \in Frames |->
                     CASE OnId(f, s) /\ caller[f].phase = "live" ->
                             [caller[f] EXCEPT !.phase = "displaced"]
                       [] OnId(f, s) /\ caller[f].phase = "displaced" ->
                             [caller[f] EXCEPT !.phase = "done"]
                       [] OTHER -> caller[f]]

\* Its parent is the conversation or an agent on record, so that it is taken
\* for an agent; without it on the stack the host names an active parent.
Spawn(f, s, p, seen) ==
    /\ caller[f].phase = "new"
    /\ s \in Ids \ (table.reused \cup {fore}) /\ p # s
    /\ p \in IF seen THEN table.lineage \cup {fore} ELSE table.active
    /\ Settled(s)
    /\ seen \/ \A o \in Frames : ~OnId(o, s)
    /\ caller' = [Displacing(s) EXCEPT ![f] = [id |-> s, parent |-> p, phase |-> "live",
                                              seen |-> seen, fresh |-> 0]]
    /\ table' = Registered(table, s, IF seen THEN <<f, 0>> ELSE NoToken)
    /\ UNCHANGED <<fore, crossing>>

\* An object starts again: late, and to be turned away, if another has its id
\* now, and as a new generation if it had ended.
Restart(f) ==
    LET s == caller[f].id
        refused == Refuses(table, s, Token(f))
        again   == Retired(table, s, Token(f)) /\ ~refused
        late    == \E o \in Frames \ {f} : OnId(o, s) /\ caller[o].phase = "live"
    IN  /\ caller[f].phase \in {"live", "displaced", "done"} /\ caller[f].seen
        /\ s \notin table.reused \cup {fore} /\ Settled(s)
        /\ HolderSeen(s)
        /\ again => caller[f].fresh < MaxFresh
        /\ caller' = IF late \/ refused THEN caller
                    ELSE [caller EXCEPT ![f].fresh = IF again THEN @ + 1 ELSE @,
                                       ![f].phase = "live"]
        /\ table' = IF refused THEN table
                    ELSE Registered(table, s, IF again THEN <<f, caller[f].fresh + 1>> ELSE Token(f))
        /\ UNCHANGED <<fore, crossing>>

\* update_from_response
Report(f) ==
    LET s == caller[f].id
        adopts == ~Held(table, s)
    IN  /\ caller[f].phase \notin {"new", "arriving"} /\ Recognised(f)
        /\ s \in table.active /\ ~Retired(table, s, Token(f))
        /\ IF adopts THEN table.expected[s] \in {Nobody, caller[f].parent}
           ELSE table.generation[s] = Token(f)
        /\ table' = [table EXCEPT !.generation[s] = Token(f), !.usage[s] = f,
                        !.guarded = IF adopts /\ Used(table, s) THEN @ \cup {s} ELSE @]
        /\ caller' = [caller EXCEPT ![f].seen = TRUE]
        /\ UNCHANGED <<fore, crossing>>

\* With the agent that has an id end those it displaced.
Over(f) == [o \in Frames |->
               IF \/ o = f
                  \/ /\ caller[f].phase = "live" /\ OnId(o, caller[f].id)
                     /\ caller[o].phase = "displaced"
               THEN [caller[o] EXCEPT !.phase = "done"] ELSE caller[o]]

\* A late end may come, or come again, at any time.
EndSeen(f) ==
    /\ caller[f].phase \in {"live", "displaced"} \/ (caller[f].phase = "done" /\ caller[f].seen)
    /\ table' = IF caller[f].id = fore THEN table
                ELSE Deactivated(table, caller[f].id, Token(f), caller[f].parent)
    /\ caller' = Over(f)
    /\ UNCHANGED <<fore, crossing>>

\* The host ends the session without its agent on the stack.  For an object
\* that was displaced it does so before the next one has reported usage.
EndUnseen(f) ==
    LET s == caller[f].id IN
    /\ caller[f].phase \in {"live", "displaced"} /\ s # fore
    /\ caller[f].phase = "displaced" =>
          caller[f].seen /\ HolderSeen(s) /\ ~Used(table, s) /\ s \notin table.reused
    /\ table' = IF s \in table.active \/ s \notin table.reused
                THEN Deactivated(table, s, NoToken, Nobody) ELSE table
    /\ caller' = Over(f)
    /\ UNCHANGED <<fore, crossing>>

\* A compression continues f as the object n under the id `new'; the call is
\* made by either of them, or by neither.  It looks at the tables twice.
ContinueAs(f, n, new, c) ==
    LET old == caller[f].id
        og == Generation(c, old)
        cont == c = n
        stale == \/ Retired(table, old, og)
                 \/ Held(table, old) /\ og # NoToken /\ table.generation[old] # og
        keep == \/ old = fore
                \/ /\ Held(table, old) /\ og = NoToken /\ table.retired[old] # {}
                   /\ old \notin table.guarded /\ ~cont
        heard == \/ og # NoToken
                 \/ cont
                 \/ old # fore /\ old \notin table.reused
    IN  /\ caller[f].phase = "live" /\ caller[n].phase = "new"
        /\ new \in Ids \ {old, fore} /\ c \in {f, n, Nobody}
    /\ Settled(new)
        /\ old \in table.lineage
        /\ ~stale /\ heard
        /\ crossing' = [crossing EXCEPT ![n] = [old |-> old, by |-> c, keep |-> keep]]
        /\ caller' = [Displacing(new) EXCEPT
                        ![f].phase = "leaving",
                        ![n] = [id |-> new, parent |-> old, phase |-> "arriving",
                                seen |-> c = n, fresh |-> 0]]
        /\ UNCHANGED <<fore, table>>

Arrive(n) ==
    LET old == crossing[n].old
        new == caller[n].id
        g == IF crossing[n].by = n THEN Token(n) ELSE NoToken
        left == IF crossing[n].keep THEN table ELSE LeftBehind(table, old)
    IN  /\ caller[n].phase = "arriving"
        /\ table' = TakenOver(left, old, new, g, old \in table.active)
        /\ caller' = [f \in Frames |-> IF caller[f].phase \in {"leaving", "displaced"} /\ caller[f].id = old
                                      THEN [caller[f] EXCEPT !.phase = "done"]
                                      ELSE IF f = n THEN [caller[f] EXCEPT !.phase = "live"]
                                      ELSE caller[f]]
        /\ crossing' = [crossing EXCEPT ![n] = NoBoundary]
        /\ UNCHANGED fore

\* The conversation goes on under an id, perhaps one that an agent had.
Foreground(s) ==
    /\ s # fore /\ fore' = s
    /\ Settled(s)
    /\ table' = Unmarked(table, s)
    /\ caller' = [f \in Frames |-> IF OnId(f, s) THEN [caller[f] EXCEPT !.phase = "done"]
                                  ELSE caller[f]]
    /\ UNCHANGED crossing

AuxiliaryNext ==
    \/ \E f \in Frames : Restart(f) \/ Report(f) \/ EndSeen(f) \/ EndUnseen(f) \/ Arrive(f)
    \/ \E f \in Frames, s \in Ids, p \in AllIds, seen \in BOOLEAN : Spawn(f, s, p, seen)
    \/ \E f, n \in Frames, s \in Ids, c \in Frames \cup {Nobody} : ContinueAs(f, n, s, c)
    \/ \E s \in AllIds : Foreground(s)

AuxiliarySpec == AuxiliaryInit /\ [][AuxiliaryNext]_auxiliaryVars

-----------------------------------------------------------------------------
\* _current_auxiliary_prompt_tokens
Seen(f) == LET s == caller[f].id IN
           IF s \in table.active /\ table.generation[s] = Token(f) THEN table.usage[s] ELSE Nobody

(* An agent decides on a compression by the size it reported itself, not   *)
(* by what an earlier, later or late agent of the same id reported         *)
(* (should_compress without an argument).                                  *)
ReadsOwnUsage == \A f \in Frames : caller[f].phase # "new" => Seen(f) \in {Nobody, f}

(* An agent that was started, was seen by a hook, and was neither ended,   *)
(* displaced nor continued keeps its id: the id stays active under its     *)
(* token, and its calls stay out of the conversation, whatever late        *)
(* callbacks of other agents arrive and wherever the conversation goes.    *)
HolderKeepsItsId ==
    \A f \in Frames : caller[f].phase = "live" /\ caller[f].seen =>
        /\ caller[f].id \in table.active /\ Recognised(f)
        /\ table.generation[caller[f].id] = Token(f)

(* What the tables are for: no agent is taken for another one or for the   *)
(* conversation (aux_session.py).                                          *)
AgentsKeptApart == ReadsOwnUsage /\ HolderKeepsItsId
=============================================================================
