----------------------------- MODULE Sanitation -------------------------------
(***************************************************************************)
(* Some compressions only have to clean the active context, without the    *)
(* model.  A preflight proves it for a list of messages and leaves a       *)
(* handoff; the host turns it into a claim, or an older host just calls    *)
(* compress.  Other turns, auxiliary calls and session hooks come in       *)
(* between, from other threads.  Each action that holds the claim lock is  *)
(* one step; what runs outside it is a step of its own.                    *)
(***************************************************************************)
EXTENDS Naturals

CONSTANTS Turns,     \* threads of the host that call one engine
          Lists,     \* message lists, as their digests
          Bindings,  \* session ids
          MaxEvents  \* bounds attempts and revisions together

VARIABLES bound,     \* the session the engine is bound to
          revision,  \* counts the ingests that changed the active context
          attempt,   \* the host's number of the compression attempt
          handoff,   \* what the last preflight proved
          claim,     \* the claim that was made of it, at most one in an attempt
          turn,      \* what each thread is doing
          proof,     \* a ghost: the proof that stands, and whether another turn came in
          decision    \* a ghost: how this step decided a compression, if it did

sanitationVars ==
    <<bound, revision, attempt, handoff, claim, turn, proof, decision>>

NoProof == [none |-> TRUE]
Resting == [at |-> "rest"]

SanitationInit == /\ bound \in Bindings
                  /\ revision = 0 /\ attempt = 0
                  /\ handoff = NoProof /\ claim = NoProof /\ proof = NoProof
                  /\ turn = [t \in Turns |-> Resting]
                  /\ decision = NoProof

MoreEvents == revision + attempt < MaxEvents

ProofDropped == handoff' = NoProof /\ claim' = NoProof

\* An ingest stores rows or refreshes the active context, or does neither; a
\* list that describes something else changes nothing.
Ingested(changes) ==
    /\ changes => MoreEvents
    /\ revision' = IF changes THEN revision + 1 ELSE revision

NoDecision == decision' = NoProof

At(t, s) == turn' = [turn EXCEPT ![t] = s]

\* Another turn's step of its own attempt, or its binding of the engine.
Crowded(t) == IF proof # NoProof /\ proof.by # t THEN [proof EXCEPT !.alone = FALSE] ELSE proof

-----------------------------------------------------------------------------
Preflight(t, l) ==
    /\ turn[t].at = "rest"
    /\ \E changes, proves \in BOOLEAN :
          /\ Ingested(changes)
          /\ handoff' = IF proves
                        THEN [session |-> bound, list |-> l,
                              attempt |-> attempt, revision |-> revision']
                        ELSE NoProof
          /\ proof' = IF proves
                      THEN [by |-> t, list |-> l, session |-> bound, alone |-> TRUE]
                      ELSE NoProof
    /\ claim' = NoProof
    /\ At(t, [at |-> "asked"])
    /\ NoDecision /\ UNCHANGED <<bound, attempt>>

\* The host numbers its attempt before it prepares.
Number(t) ==
    /\ turn[t].at = "asked" /\ MoreEvents
    /\ attempt' = attempt + 1
    /\ At(t, [at |-> "numbered", attempt |-> attempt + 1, session |-> bound])
    /\ proof' = Crowded(t)
    /\ NoDecision /\ UNCHANGED <<bound, revision, handoff, claim>>

SameContext(h) == h.session = bound
CurrentContext(h) == h.session = bound /\ h.revision = revision

GrantsClaim(t, l) ==
    /\ handoff # NoProof /\ CurrentContext(handoff)
    /\ handoff.list = l
    /\ turn[t].attempt \in {handoff.attempt, handoff.attempt + 1}
    /\ turn[t].attempt = attempt

\* Whatever it answers, the handoff and an earlier claim are gone; only a call
\* for another session leaves them.
Prepare(t, l) ==
    /\ turn[t].at = "numbered"
    /\ \/ /\ turn[t].session # bound
          /\ At(t, [at |-> "ready", token |-> 0])
          /\ UNCHANGED <<handoff, claim>>
       \/ /\ turn[t].session = bound /\ GrantsClaim(t, l)
          /\ claim' = [of |-> handoff, attempt |-> attempt]
          /\ handoff' = NoProof
          /\ At(t, [at |-> "ready", token |-> attempt])
       \/ /\ turn[t].session = bound /\ ~GrantsClaim(t, l)
          /\ ProofDropped
          /\ At(t, [at |-> "ready", token |-> 0])
    /\ proof' = IF proof # NoProof /\ proof.list # l
                THEN [proof EXCEPT !.alone = FALSE] ELSE Crowded(t)
    /\ NoDecision /\ UNCHANGED <<bound, revision, attempt>>

\* With its claim, or, for a host that makes none, with the handoff itself.
ByClaim(token, l) ==
    /\ claim # NoProof /\ claim.attempt = token
    /\ CurrentContext(claim.of) /\ claim.of.list = l /\ claim.attempt = attempt

ByHandoff(token, l) ==
    /\ claim = NoProof /\ token = 0
    /\ handoff # NoProof
    /\ CurrentContext(handoff) /\ handoff.list = l /\ handoff.attempt = attempt

\* A claimed cleanup runs to its end under the lock; it gives up when there is
\* more to do than to clean, and the call goes on outside the lock.
CompressTurn(t, l) ==
    /\ turn[t].at \in {"asked", "ready"}
    /\ \E force, applies, changes \in BOOLEAN :
          LET token == IF turn[t].at = "ready" THEN turn[t].token ELSE 0
              claimed == ~force /\ (ByClaim(token, l) \/ ByHandoff(token, l))
              cleans == claimed /\ applies
          IN  /\ decision' = [claimed |-> claimed, forced |-> force, list |-> l,
                             by |-> t, proof |-> proof, session |-> bound]
              /\ Ingested(claimed /\ changes)
              /\ At(t, IF cleans THEN Resting ELSE [at |-> "outside"])
    /\ ProofDropped
    /\ proof' = NoProof
    /\ UNCHANGED <<bound, attempt>>

\* A compression on behalf of an auxiliary session leaves the foreground alone.
AuxiliaryCompress(t) ==
    /\ \/ turn[t].at = "rest" /\ At(t, [at |-> "aside"])
       \/ turn[t].at = "aside" /\ At(t, Resting)
    /\ NoDecision /\ UNCHANGED <<bound, revision, attempt, handoff, claim, proof>>

\* The rest of a compression, and the last flush of a session, ingest without
\* the lock.
RunOutside(t) ==
    /\ turn[t].at = "outside"
    /\ \E changes \in BOOLEAN :
          /\ Ingested(changes)
          /\ proof' = IF changes THEN NoProof ELSE proof
    /\ At(t, Resting)
    /\ NoDecision /\ UNCHANGED <<bound, attempt, handoff, claim>>

\* A turn or a tool call ingests, under the lock.
IngestTurn(t) ==
    /\ turn[t].at = "rest" /\ Ingested(TRUE)
    /\ proof' = NoProof
    /\ NoDecision /\ UNCHANGED <<bound, attempt, handoff, claim, turn>>

\* The end of the bound session drops the proof first and flushes later.
HookEnd(t) ==
    /\ turn[t].at = "rest"
    /\ ProofDropped
    /\ proof' = NoProof
    /\ At(t, [at |-> "outside"])
    /\ NoDecision /\ UNCHANGED <<bound, revision, attempt>>

\* A session starts, or is reset; the engine is bound to it some time after.
HookStart(t, s) ==
    /\ turn[t].at = "rest"
    /\ ProofDropped
    /\ proof' = NoProof
    /\ At(t, [at |-> "binding", session |-> s])
    /\ NoDecision /\ UNCHANGED <<bound, revision, attempt>>

Bind(t) ==
    /\ turn[t].at = "binding"
    /\ bound' = turn[t].session
    /\ At(t, Resting)
    /\ proof' = Crowded(t)
    /\ NoDecision /\ UNCHANGED <<revision, attempt, handoff, claim>>

SanitationNext ==
    \E t \in Turns :
        \/ \E l \in Lists : Preflight(t, l) \/ Prepare(t, l) \/ CompressTurn(t, l)
        \/ Number(t) \/ AuxiliaryCompress(t) \/ RunOutside(t) \/ IngestTurn(t)
        \/ HookEnd(t) \/ Bind(t)
        \/ \E s \in Bindings : HookStart(t, s)

-----------------------------------------------------------------------------
\* A compression skips the model only on a proof that still stands: for these
\* messages and this session, used for the first time, with no change of the
\* active context, end, start or reset since.  And a turn whose proof stands and
\* which no other turn crossed gets what it was promised, whatever auxiliary
\* sessions did.
SanitisesExactly ==
    decision # NoProof =>
        LET stands == /\ decision.proof # NoProof
                      /\ decision.proof.list = decision.list
                      /\ decision.proof.session = decision.session
        IN  /\ decision.claimed => stands
            /\ stands /\ decision.proof.alone /\ decision.proof.by = decision.by
               /\ ~decision.forced => decision.claimed
=============================================================================
