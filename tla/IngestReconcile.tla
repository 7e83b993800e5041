---------------------------- MODULE IngestReconcile ----------------------------
(***************************************************************************)
(* How the turns a host hands over become rows of the message store:       *)
(* LCMEngine._ingest_messages with its in-memory cursor, the              *)
(* reconciliation of that cursor after a restart, the alignment of         *)
(* replayed batches, and the store's guard against replays.                *)
(*                                                                         *)
(* A turn is known to the code by what it says and by its source time;     *)
(* its number in `said' exists only here.  Left out: ignore patterns,      *)
(* quarantine placeholders, persisted-output markers, and the stale        *)
(* snapshots of sessions longer than the window the tail is read from.     *)
(***************************************************************************)
EXTENDS Integers, SequencesExt, FiniteSetsExt

CONSTANTS Workers,    \* engines bound to the one session
          System,     \* the system prompt
          Users,      \* what user turns may say
          Tools,      \* tool results, each of a tool call of its own
          Internal,   \* assistant turns that active cleanup removes
          MaxTurns, MaxTime, MaxReloads, MaxRewrites,
          Window,     \* _DEDUPE_REPLAY_WINDOW_SECONDS
          FreshTail,  \* fresh_tail_count
          Stamps      \* whether the host gives reloaded turns their source times

Texts == {System} \cup Users \cup Tools \cup Internal
Summary == "summary"        \* the compaction note or a summary message
Objective == "objective"    \* the preserved-objective banner
Cleared == "cleared"        \* what a rewritten tool row says
Scaffold == {Summary, Objective}
NoTime == 0
NoCall == "none"

(* Scaffolding and cleared rows are marked, so that no turn reads like them; *)
(* cleanup removes assistant turns only.                                    *)
ASSUME IngestAssumption ==
    /\ Texts \cap {Summary, Objective, Cleared} = {}
    /\ System \notin Internal
    /\ NoCall \notin Tools
    /\ Stamps \subseteq BOOLEAN

VARIABLES said,      \* the turns of the conversation, in order, with their times
          now,
          rows,      \* the stored rows of the session
          list,      \* the active messages the host of each worker holds
          cursor,    \* _ingest_cursor
          needs,     \* _ingest_cursor_needs_reconcile
          pending,   \* a batch decided about and not yet appended
          handed,    \* turns whose ingest returned
          stamped,   \* whether reloaded turns carry their source times
          reloads,   \* how the lists of restarted workers came about
          rewrites

ingestVars == <<said, now, rows, list, cursor, needs, pending, handed,
                reloads, rewrites, stamped>>

(* A message of the host: its text, its turn and its source time, if any. *)
Scaffolding(t) == [text |-> t, turn |-> 0, at |-> NoTime]
Row == [text : Texts \cup {Cleared}, call : Tools \cup {NoCall}, turn : 1..MaxTurns,
        time : 1..MaxTime]

IsScaffold(m) == m.text \in Scaffold
TextsOf(ms) == [i \in DOMAIN ms |-> ms[i].text]
CallOf(m) == IF m.text \in Tools THEN m.text ELSE NoCall

(* The messages of ms at the positions S, in their order. *)
Rank(S, i) == Cardinality({j \in S : j <= i})
Pick(ms, S) == [k \in 1..Cardinality(S) |-> ms[CHOOSE i \in S : Rank(S, i) = k]]

Real(ms) == Pick(ms, {i \in DOMAIN ms : ~IsScaffold(ms[i])})
Idle == [busy |-> FALSE, batch |-> <<>>, guard |-> FALSE]

-----------------------------------------------------------------------------
(* Where the replayed prefix of a batch ends. *)

(* The stored tail as active cleanup would show it. *)
Sanitized(tail) == Pick(tail, {i \in DOMAIN tail : tail[i] \notin Internal})

FullReplay(p, tail) ==
    LET clean == Sanitized(tail)
    IN /\ IsSuffix(p, clean)
       /\ Len(p) >= Len(clean)
       /\ System \in ToSet(p) \/ (Len(clean) > 1 /\ clean = tail)

RawFullReplayFromHead(ms, c, p, tail) ==
    /\ IsPrefix(tail, p)
    /\ \A i \in 1..c : ~IsScaffold(ms[i])
    /\ Len(tail) > 1

RawFullReplay(ms, c, p, tail) ==
    /\ IsSuffix(p, tail)
    /\ \A i \in 1..c : ~IsScaffold(ms[i])
    /\ c >= Len(tail)
    /\ Len(tail) > 1

ObjectiveReplay(ms, c, p, tail) ==
    /\ IsSuffix(p, Sanitized(tail))
    /\ \E i \in 1..c : ms[i].text = Objective
    /\ ToSet(p) \cap Users = {}

CleanupReplay(ms, c, p, tail) ==
    /\ IsSuffix(p, tail)
    /\ \E i \in 1..c : IsScaffold(ms[i])
    /\ c < Len(ms)
    /\ Len(p) >= Max({1, Min({FreshTail, Len(tail)})})
    /\ ToSet(p) \cap Internal # {}

ProvesReplay(ms, c, tail) ==
    LET p == TextsOf(Real(SubSeq(ms, 1, c)))
    IN \/ p = <<>>
       \/ FullReplay(p, tail)
       \/ RawFullReplay(ms, c, p, tail)
       \/ ObjectiveReplay(ms, c, p, tail)
       \/ CleanupReplay(ms, c, p, tail)

FindCursor(ms, tail) == Max({c \in 0..Len(ms) : ProvesReplay(ms, c, tail)})

(* A compacted context that comes back with store-only rows between its turns. *)
WindowCursor(ms, tail) ==
    LET turns == {i \in DOMAIN ms : ~IsScaffold(ms[i]) /\ ms[i].text # System}
        first == Min(turns)
        tried == {i \in first..Len(ms) : ~IsScaffold(ms[i])}
        anchors == {j \in DOMAIN tail : tail[j] = ms[first].text}
        Stored(t) == Cardinality({j \in Max(anchors)..Len(tail) : tail[j] = t})
        Used(t, i) == Cardinality({j \in tried : j <= i /\ ms[j].text = t})
        replayed == {i \in tried : \A j \in tried :
                        j <= i => Used(ms[j].text, j) <= Stored(ms[j].text)}
    IN IF /\ turns # {}
          /\ \E i \in 1..(first - 1) : ms[i].text = Summary
          /\ anchors # {}
       THEN Max(replayed)
       ELSE 0

-----------------------------------------------------------------------------
(* Alignment: is the batch a replay although the stored rows were rewritten? *)

KeyOfRow(r) == <<r.text, r.call>>
KeyOfMsg(m) == <<m.text, CallOf(m)>>
KeysOf(stored) == {KeyOfRow(stored[i]) : i \in DOMAIN stored}
Copies(k, stored) == {i \in DOMAIN stored : KeyOfRow(stored[i]) = k}
SourceTime(k, stored) == Max({stored[i].time : i \in Copies(k, stored)})
Rewritten(k) == k[1] = Cleared

(* A later source time says that an equal message is new work. *)
NotFresh(m, k, stored) == m.at = NoTime \/ m.at <= SourceTime(k, stored)

Exact(ms, k, stored) ==
    {i \in DOMAIN ms : KeyOfMsg(ms[i]) = k /\ NotFresh(ms[i], k, stored)}
ByCall(ms, k, stored) ==
    LET same == {i \in DOMAIN ms : CallOf(ms[i]) = k[2] /\ NotFresh(ms[i], k, stored)}
    IN IF Rewritten(k) /\ same # {} THEN {Min(same)} ELSE {}
Carried(ms, k, stored) == Exact(ms, k, stored) \cup ByCall(ms, k, stored)

(* The messages of the batch that replay a stored turn. *)
Mask(ms, stored) == UNION {Carried(ms, k, stored) : k \in KeysOf(stored)}

(* The turns the batch reaches, and those of them it carries. *)
Span(ms, stored) ==
    {k \in KeysOf(stored) : Max(Copies(k, stored)) > Len(stored) - Len(ms)}
Covered(ms, stored) == {k \in Span(ms, stored) : Carried(ms, k, stored) # {}}

InOrder(ms, stored) ==
    LET Masked(k) == {i \in Mask(ms, stored) : KeyOfMsg(ms[i]) = k}
        placed == {k \in Covered(ms, stored) : Masked(k) # {}}
    IN \A k, l \in placed :
          Min(Copies(k, stored)) < Min(Copies(l, stored))
             => Min(Masked(k)) <= Min(Masked(l))

Gate(ms, covered, span, mask, inOrder) ==
    /\ Len(ms) >= 3
    /\ span # {}
    /\ 10 * Cardinality(covered) >= 9 * Cardinality(span)
    /\ 4 * Cardinality(mask) >= 3 * Len(ms)
    /\ inOrder

IsReplay(ms, stored) ==
    Gate(ms, Covered(ms, stored), Span(ms, stored), Mask(ms, stored), InOrder(ms, stored))

Shift(S, d) == {i + d : i \in S}
After(S, c) == {i \in S : i > c}

-----------------------------------------------------------------------------
(* What reconciliation decides: a cursor, the positions to leave out, and *)
(* whether the guard of the store is to arbitrate.                         *)

Verdict(c, out, deferred) == [cursor |-> c, out |-> out, deferred |-> deferred]

(* Past a scaffold the turns count as replayed only when the alignment says so. *)
ScaffoldMask(ms, c, stored) ==
    LET rest == SubSeq(ms, c + 1, Len(ms))
        mask == Mask(ms, stored)
    IN IF IsReplay(rest, stored) THEN Shift(Mask(rest, stored), c)
       ELSE IF Gate(rest, Covered(ms, stored), Span(ms, stored),
                    Shift(After(mask, c), -c), InOrder(ms, stored))
            THEN mask ELSE {}

Reconcile(ms, stored) ==
    LET tail == TextsOf(stored)
        c == FindCursor(ms, tail)
        w == WindowCursor(ms, tail)
        onlyScaffold == Real(SubSeq(ms, 1, c)) = <<>>
    IN IF stored = <<>> \/ ms = <<>> THEN Verdict(0, {}, FALSE)
       ELSE IF onlyScaffold /\ w > c THEN Verdict(w, {}, FALSE)
       ELSE IF c > 0 /\ ~onlyScaffold THEN Verdict(c, Mask(ms, stored), FALSE)
       ELSE IF c > 0 THEN Verdict(c, ScaffoldMask(ms, c, stored), FALSE)
       ELSE IF IsReplay(ms, stored) THEN Verdict(0, Mask(ms, stored), TRUE)
       ELSE Verdict(0, {}, FALSE)

(* The cursor of a worker that never had to reconcile. *)
Continue(ms, c, stored) ==
    IF c = 0 /\ Len(ms) >= 3 /\ stored # <<>> /\ IsReplay(ms, stored)
    THEN Verdict(0, Mask(ms, stored), TRUE)
    ELSE Verdict(Min({c, Len(ms)}), {}, FALSE)

-----------------------------------------------------------------------------
(* The guard of the store: the same message around the same source time. *)
IsDuplicateReplay(m, stored) ==
    /\ m.at # NoTime
    /\ \E i \in DOMAIN stored :
          /\ stored[i].text = m.text
          /\ stored[i].call = CallOf(m)
          /\ stored[i].time \in (m.at - Window)..(m.at + Window)

(* The messages of a batch that go to the store. *)
Kept(ms, v, ran, stored) ==
    {i \in DOMAIN ms :
       /\ i > v.cursor
       /\ ~ /\ i \in v.out
            /\ (ran /\ ~v.deferred) \/ ~IsDuplicateReplay(ms[i], stored)}

RowOf(m) == [text |-> m.text, call |-> CallOf(m), turn |-> m.turn,
             time |-> IF m.at = NoTime THEN now ELSE m.at]

(* The rows after one transaction has appended messages ms. *)
Appended(ms, guard) ==
    LET after[i \in 0..Len(ms)] ==
            IF i = 0 THEN rows
            ELSE LET before == after[i - 1]
                 IN  IF guard /\ IsDuplicateReplay(ms[i], before) THEN before
                     ELSE Append(before, RowOf(ms[i]))
    IN  after[Len(ms)]

-----------------------------------------------------------------------------
IngestInit ==
    /\ said = <<>> /\ now = 1 /\ rows = <<>>
    /\ list = [w \in Workers |-> <<>>]
    /\ cursor = [w \in Workers |-> 0]
    /\ needs = [w \in Workers |-> FALSE]
    /\ pending = [w \in Workers |-> Idle]
    /\ handed = {} /\ reloads = <<>> /\ rewrites = 0
    /\ stamped \in Stamps

(* A genuine turn reaches the list of one worker; live turns carry no time. *)
Speak(w, t) ==
    /\ Len(said) < MaxTurns
    /\ ~pending[w].busy
    /\ list[w] # <<>> \/ said = <<>>
    /\ (t = System) => said = <<>>
    /\ t \in Tools => \A i \in DOMAIN said : said[i].text # t
    /\ said' = Append(said, [text |-> t, at |-> now])
    /\ list' = [list EXCEPT ![w] =
                  Append(@, [text |-> t, turn |-> Len(said) + 1, at |-> NoTime])]
    /\ UNCHANGED <<now, rows, cursor, needs, pending, handed, reloads,
                   rewrites, stamped>>

Tick == /\ now < MaxTime
        /\ now' = now + 1
        /\ UNCHANGED <<said, rows, list, cursor, needs, pending, handed,
                       reloads, rewrites, stamped>>

(* Ingest decides from what the store holds at that time ... *)
Decide(w) ==
    /\ ~pending[w].busy
    /\ LET ms == list[w]
           v == IF needs[w] THEN Reconcile(ms, rows) ELSE Continue(ms, cursor[w], rows)
           kept == Kept(ms, v, needs[w], rows)
       IN /\ ms # <<>>
          /\ v.cursor < Len(ms) \/ needs[w]
          /\ pending' = [pending EXCEPT ![w] =
                [busy |-> TRUE, batch |-> Pick(ms, kept),
                 guard |-> v.deferred \/ ~needs[w]]]
    /\ needs' = [needs EXCEPT ![w] = FALSE]
    /\ UNCHANGED <<said, now, rows, list, cursor, handed, reloads, rewrites,
                   stamped>>

(* ... and appends in one write transaction. *)
AppendBatch(w) ==
    /\ pending[w].busy
    /\ rows' = Appended(pending[w].batch, pending[w].guard)
    /\ cursor' = [cursor EXCEPT ![w] = Len(list[w])]
    /\ handed' = handed \cup ({list[w][i].turn : i \in DOMAIN list[w]} \ {0})
    /\ pending' = [pending EXCEPT ![w] = Idle]
    /\ UNCHANGED <<said, now, list, needs, reloads, rewrites, stamped>>

(* compress returns scaffolding and the end of the list, cleaned. *)
Compress(w, head, k) ==
    /\ ~pending[w].busy /\ ~needs[w]
    /\ cursor[w] = Len(list[w])
    /\ k < Len(list[w])
    /\ LET cut == SubSeq(list[w], Len(list[w]) - k + 1, Len(list[w]))
           stays == {i \in DOMAIN cut : cut[i].text \notin Scaffold \cup Internal}
           short == head \o Pick(cut, stays)
       IN /\ Len(short) < Len(list[w])
          /\ list' = [list EXCEPT ![w] = short]
          /\ cursor' = [cursor EXCEPT ![w] = Len(short)]
    /\ UNCHANGED <<said, now, rows, needs, pending, handed, reloads, rewrites,
                   stamped>>

(* A worker process starts over on a list the host reloaded; the one before it
   may still have a batch to append.                                        *)
Stamped(ms) == [i \in DOMAIN ms |->
                  IF stamped /\ ms[i].turn # 0
                  THEN [ms[i] EXCEPT !.at = said[ms[i].turn].at]
                  ELSE [ms[i] EXCEPT !.at = NoTime]]
Transcript(i, j) ==
    [k \in 1..(j - i + 1) |-> [text |-> said[i + k - 1].text, turn |-> i + k - 1,
                               at |-> NoTime]]

ReloadUnreconciled(w, ms, kind) ==
    /\ Len(reloads) < MaxReloads /\ ~pending[w].busy
    /\ reloads' = Append(reloads, kind)
    /\ list' = [u \in Workers |-> IF u = w THEN Stamped(ms)
                                  ELSE IF pending[u].busy THEN list[u] ELSE <<>>]
    /\ cursor' = [cursor EXCEPT ![w] = 0]
    /\ needs' = [needs EXCEPT ![w] = FALSE]
    /\ UNCHANGED <<said, now, rows, pending, handed, rewrites, stamped>>

Reload(w, ms, kind) ==
    /\ Len(reloads) < MaxReloads
    /\ ~pending[w].busy
    /\ reloads' = Append(reloads, IF \E u \in Workers : pending[u].busy
                                  THEN "overlap" ELSE kind)
    /\ list' = [u \in Workers |-> IF u = w THEN Stamped(ms)
                                  ELSE IF pending[u].busy THEN list[u] ELSE <<>>]
    /\ cursor' = [cursor EXCEPT ![w] = 0]
    /\ needs' = [needs EXCEPT ![w] = rows # <<>>]
    /\ UNCHANGED <<said, now, rows, pending, handed, rewrites, stamped>>

ReloadWhole(w) == Reload(w, Transcript(1, Len(said)), "whole")
ReloadCompacted(w) ==
    \E u \in Workers : /\ \E i \in DOMAIN list[u] : IsScaffold(list[u][i])
                       /\ Reload(w, list[u], "compacted")
ReloadDelta(w) ==
    \E i \in DOMAIN said :
        /\ handed = 1..(i - 1)
        /\ Reload(w, Transcript(i, Len(said)), "delta")

(* A stored tool row is rewritten, and what it said is out of reach. *)
Rewrite(i) ==
    /\ rewrites < MaxRewrites
    /\ rows[i].text \in Tools
    /\ rows' = [rows EXCEPT ![i].text = Cleared]
    /\ rewrites' = rewrites + 1
    /\ UNCHANGED <<said, now, list, cursor, needs, pending, handed, reloads,
                   stamped>>

Heads == {<<Scaffolding(Summary)>>, <<Scaffolding(Summary), Scaffolding(Objective)>>}

IngestNext ==
    \/ \E w \in Workers :
          \/ \E t \in Texts : Speak(w, t)
          \/ Decide(w)
          \/ AppendBatch(w)
          \/ \E h \in Heads, k \in 0..MaxTurns : Compress(w, h, k)
          \/ ReloadWhole(w)
          \/ ReloadCompacted(w)
          \/ ReloadDelta(w)
    \/ \E i \in DOMAIN rows : Rewrite(i)
    \/ Tick

IngestSpec == IngestInit /\ [][IngestNext]_ingestVars
-----------------------------------------------------------------------------
(* Whatever was handed over can be read back: a turn is left out only when   *)
(* the store holds a row that was made of an equal turn.  A cursor that is    *)
(* too far, a mask that is too wide or a batch taken for a replay of          *)
(* something else would lose text for good.                                   *)
HandedIsKept ==
    \A i \in handed : \E r \in DOMAIN rows : said[rows[r].turn].text = said[i].text

(* Restarts, compactions, deltas and cleaned contexts neither lose nor repeat *)
(* a turn, and keep the order, as long as the code can tell the turns apart:  *)
(* the conversation opens with its system prompt, no two turns say the same,  *)
(* no stored row was rewritten, and no two processes served it at once.       *)
TurnsCanBeTold ==
    /\ said # <<>> /\ said[1].text = System
    /\ \A i, j \in DOMAIN said : said[i].text = said[j].text => i = j
    /\ rewrites = 0
    /\ "overlap" \notin ToSet(reloads)
ToldTurnsStoredOnce ==
    TurnsCanBeTold => /\ handed \subseteq {rows[r].turn : r \in DOMAIN rows}
                      /\ \A r \in 1..(Len(rows) - 1) : rows[r].turn < rows[r + 1].turn

(* What the feature overview says: "LCM persists every message".              *)
EveryMessagePersisted == handed \subseteq {rows[r].turn : r \in DOMAIN rows}
=============================================================================
