--------------------------- MODULE ModelCalls_proofs ----------------------------
(***************************************************************************)
(* When the model is called: a compression that skips it does so on a      *)
(* proof that stands, for any number of threads, message lists and         *)
(* sessions; and no window of time sees more calls than the spend guard    *)
(* allows, for any number of threads and any chain of routes.              *)
(***************************************************************************)
EXTENDS Sanitation, Escalation, SequenceTheorems, WellFoundedInduction, TLAPS

-----------------------------------------------------------------------------
(***************************************************************************)
(* A compression that skips the model                                      *)
(***************************************************************************)
SanitationSpec == SanitationInit /\ [][SanitationNext]_sanitationVars

Handoffs == [session : Bindings, list : Lists, attempt : Nat, revision : Nat]
Claims == [of : Handoffs, attempt : Nat]
Proofs == [by : Turns, list : Lists, session : Bindings, alone : BOOLEAN]
TurnStates ==
    [at : {"rest", "asked", "aside", "outside"}]
        \cup [at : {"numbered"}, attempt : Nat, session : Bindings]
        \cup [at : {"ready"}, token : Nat]
        \cup [at : {"binding"}, session : Bindings]

SanitationTypes ==
    /\ bound \in Bindings /\ revision \in Nat /\ attempt \in Nat
    /\ handoff \in Handoffs \cup {NoProof}
    /\ claim \in Claims \cup {NoProof}
    /\ proof \in Proofs \cup {NoProof}
    /\ turn \in [Turns -> TurnStates]

\* A record of the current revision is one of the proof that stands: an ingest
\* that drops the proof without dropping the record makes the record old.
Backed(h) ==
    /\ h.revision <= revision
    /\ h.revision = revision =>
         /\ proof # NoProof
         /\ proof.list = h.list /\ proof.session = h.session

RecordsAreBacked ==
    /\ handoff # NoProof => Backed(handoff)
    /\ claim # NoProof => Backed(claim.of)

\* The record is the one of a proof that nobody crossed.
Fits(h) == /\ h.list = proof.list /\ h.session = proof.session
           /\ h.revision = revision

\* What the thread of such a proof finds when it goes on.
Promised(s) ==
    \/ /\ s.at = "asked"
       /\ claim = NoProof /\ handoff # NoProof /\ Fits(handoff)
       /\ handoff.attempt = attempt
    \/ /\ s.at = "numbered" /\ s.attempt = attempt /\ s.session = bound
       /\ claim = NoProof /\ handoff # NoProof /\ Fits(handoff)
       /\ handoff.attempt + 1 = attempt
    \/ /\ s.at = "ready" /\ s.token = attempt
       /\ claim # NoProof /\ Fits(claim.of)
       /\ claim.attempt = attempt

AloneIsPromised ==
    proof # NoProof /\ proof.alone = TRUE =>
        /\ proof.session = bound
        /\ Promised(turn[proof.by])

SanitationInv == /\ SanitationTypes
                 /\ RecordsAreBacked
                 /\ AloneIsPromised
                 /\ SanitisesExactly

-----------------------------------------------------------------------------
LEMMA RecordsDiffer ==
    ASSUME NEW r, r \in Handoffs \cup Claims \cup Proofs
    PROVE  r # NoProof
<1>1. CASE r \in Handoffs
  <2>1. "list" \in DOMAIN r  BY <1>1 DEF Handoffs
  <2>2. "list" \notin DOMAIN NoProof  BY DEF NoProof
  <2> QED  BY <2>1, <2>2
<1>2. CASE r \in Claims
  <2>1. "of" \in DOMAIN r  BY <1>2 DEF Claims
  <2>2. "of" \notin DOMAIN NoProof  BY DEF NoProof
  <2> QED  BY <2>1, <2>2
<1>3. CASE r \in Proofs
  <2>1. "list" \in DOMAIN r  BY <1>3 DEF Proofs
  <2>2. "list" \notin DOMAIN NoProof  BY DEF NoProof
  <2> QED  BY <2>1, <2>2
<1> QED  BY <1>1, <1>2, <1>3

LEMMA InitInv == SanitationInit => SanitationInv
<1> SUFFICES ASSUME SanitationInit PROVE SanitationInv
  OBVIOUS
<1>1. SanitationTypes
  BY DEF SanitationInit, SanitationTypes, TurnStates, Resting
<1>2. RecordsAreBacked /\ AloneIsPromised /\ SanitisesExactly
  BY DEF SanitationInit, RecordsAreBacked, AloneIsPromised, SanitisesExactly
<1> QED  BY <1>1, <1>2 DEF SanitationInv

-----------------------------------------------------------------------------
(* A step of a thread that moves to a state of its own leaves the others.  *)
LEMMA TurnMoves ==
    ASSUME SanitationTypes, NEW t \in Turns, NEW s \in TurnStates, At(t, s)
    PROVE  /\ turn' \in [Turns -> TurnStates]
           /\ turn'[t] = s
           /\ \A u \in Turns \ {t} : turn'[u] = turn[u]
BY DEF SanitationTypes, At

LEMMA PreflightInv ==
    ASSUME SanitationInv, NEW t \in Turns, NEW l \in Lists, Preflight(t, l)
    PROVE  SanitationInv'
<1> USE DEF SanitationInv, Preflight
<1> PICK changes \in BOOLEAN, proves \in BOOLEAN :
      /\ Ingested(changes)
      /\ handoff' = IF proves
                    THEN [session |-> bound, list |-> l,
                          attempt |-> attempt, revision |-> revision']
                    ELSE NoProof
      /\ proof' = IF proves
                  THEN [by |-> t, list |-> l, session |-> bound, alone |-> TRUE]
                  ELSE NoProof
  OBVIOUS
<1>1. revision' \in Nat /\ bound' = bound /\ attempt' = attempt /\ claim' = NoProof
  BY DEF SanitationTypes, Ingested
<1>2. [at |-> "asked"] \in TurnStates  BY DEF TurnStates
<1>3. turn' \in [Turns -> TurnStates] /\ turn'[t] = [at |-> "asked"]
  BY <1>2, TurnMoves
<1>4. SanitationTypes'
  BY <1>1, <1>3 DEF SanitationTypes, Handoffs, Proofs
<1>5. CASE proves
  <2>1. /\ handoff' = [session |-> bound, list |-> l,
                       attempt |-> attempt, revision |-> revision']
        /\ proof' = [by |-> t, list |-> l, session |-> bound, alone |-> TRUE]
    BY <1>5
  <2>2. handoff' \in Handoffs /\ proof' \in Proofs
    BY <1>1, <2>1 DEF SanitationTypes, Handoffs, Proofs
  <2>3. handoff' # NoProof /\ proof' # NoProof  BY <2>2, RecordsDiffer
  <2>4. RecordsAreBacked'
    BY <1>1, <2>1, <2>3 DEF RecordsAreBacked, Backed
  <2>5. AloneIsPromised'
    BY <1>1, <1>3, <2>1, <2>3 DEF AloneIsPromised, Promised, Fits
  <2> QED  BY <1>4, <2>4, <2>5 DEF SanitisesExactly, NoDecision
<1>6. CASE ~proves
  BY <1>1, <1>4, <1>6
     DEF RecordsAreBacked, AloneIsPromised, SanitisesExactly, NoDecision
<1> QED  BY <1>5, <1>6

(* What Crowded makes of the proof. *)
LEMMA CrowdedProof ==
    ASSUME SanitationTypes, NEW t \in Turns
    PROVE  /\ Crowded(t) \in Proofs \cup {NoProof}
           /\ Crowded(t) = NoProof <=> proof = NoProof
           /\ proof # NoProof => /\ Crowded(t).list = proof.list
                                 /\ Crowded(t).session = proof.session
                                 /\ Crowded(t).by = proof.by
           /\ proof # NoProof /\ Crowded(t).alone = TRUE =>
                /\ proof.by = t /\ Crowded(t) = proof
<1>1. CASE proof = NoProof  BY <1>1 DEF Crowded
<1>2. CASE proof # NoProof /\ proof.by # t
  <2>1. proof \in Proofs  BY <1>2 DEF SanitationTypes
  <2>2. Crowded(t) = [proof EXCEPT !.alone = FALSE]  BY <1>2 DEF Crowded
  <2>3. /\ Crowded(t) \in Proofs
        /\ Crowded(t).list = proof.list /\ Crowded(t).session = proof.session
        /\ Crowded(t).by = proof.by /\ Crowded(t).alone = FALSE
    BY <2>1, <2>2 DEF Proofs
  <2> QED  BY <1>2, <2>3, RecordsDiffer
<1>3. CASE proof # NoProof /\ proof.by = t
  BY <1>3 DEF Crowded, SanitationTypes
<1> QED  BY <1>1, <1>2, <1>3

(* Steps that leave the records and the revision: the proof stays what it  *)
(* was, or loses only its promise.                                         *)
LEMMA BackedStays ==
    ASSUME SanitationInv, NEW t \in Turns, proof' = Crowded(t),
           revision' = revision, handoff' = handoff, claim' = claim
    PROVE  RecordsAreBacked'
<1>1. proof' = NoProof <=> proof = NoProof
  BY CrowdedProof DEF SanitationInv
<1>2. proof # NoProof => proof'.list = proof.list /\ proof'.session = proof.session
  BY CrowdedProof DEF SanitationInv
<1> QED  BY <1>1, <1>2 DEF SanitationInv, RecordsAreBacked, Backed

LEMMA NumberInv ==
    ASSUME SanitationInv, NEW t \in Turns, Number(t)
    PROVE  SanitationInv'
<1> USE DEF SanitationInv, Number
<1> DEFINE next == [at |-> "numbered", attempt |-> attempt + 1, session |-> bound]
<1>1. next \in TurnStates  BY DEF SanitationTypes, TurnStates
<1>2. turn' \in [Turns -> TurnStates] /\ turn'[t] = next
  BY <1>1, TurnMoves
<1>3. proof' \in Proofs \cup {NoProof}  BY CrowdedProof
<1>4. SanitationTypes'  BY <1>2, <1>3 DEF SanitationTypes
<1>5. RecordsAreBacked'  BY BackedStays
<1>6. AloneIsPromised'
  <2> SUFFICES ASSUME proof' # NoProof, proof'.alone = TRUE
               PROVE  proof'.session = bound' /\ Promised(turn[proof.by])'
    BY CrowdedProof DEF AloneIsPromised
  <2>1. proof # NoProof /\ proof.by = t /\ proof' = proof /\ proof.alone = TRUE
    BY CrowdedProof
  <2>2. Promised(turn[t]) /\ proof.session = bound
    BY <2>1 DEF AloneIsPromised
  <2>3. claim = NoProof /\ handoff # NoProof /\ Fits(handoff) /\ handoff.attempt = attempt
    BY <2>2 DEF Promised
  <2> QED  BY <1>2, <2>1, <2>2, <2>3 DEF Promised, Fits
<1> QED  BY <1>4, <1>5, <1>6 DEF SanitisesExactly, NoDecision

LEMMA BindInv ==
    ASSUME SanitationInv, NEW t \in Turns, Bind(t)
    PROVE  SanitationInv'
<1> USE DEF SanitationInv, Bind
<1>1. Resting \in TurnStates  BY DEF TurnStates, Resting
<1>2. turn' \in [Turns -> TurnStates]  BY <1>1, TurnMoves
<1>3. bound' \in Bindings  BY DEF SanitationTypes, TurnStates
<1>4. proof' \in Proofs \cup {NoProof}  BY CrowdedProof
<1>5. SanitationTypes'  BY <1>2, <1>3, <1>4 DEF SanitationTypes
<1>6. RecordsAreBacked'  BY BackedStays
<1>7. AloneIsPromised'
  <2> SUFFICES ASSUME proof' # NoProof, proof'.alone = TRUE PROVE FALSE
    BY DEF AloneIsPromised
  <2>1. proof # NoProof /\ proof.by = t /\ proof.alone = TRUE
    BY CrowdedProof
  <2> QED  BY <2>1 DEF AloneIsPromised, Promised
<1> QED  BY <1>5, <1>6, <1>7 DEF SanitisesExactly, NoDecision

LEMMA PrepareInv ==
    ASSUME SanitationInv, NEW t \in Turns, NEW l \in Lists, Prepare(t, l)
    PROVE  SanitationInv'
<1> USE DEF SanitationInv
<1> DEFINE refused == [at |-> "ready", token |-> 0]
           granted == [at |-> "ready", token |-> attempt]
           sameList == proof # NoProof => proof.list = l
<1>1. /\ turn[t].at = "numbered"
      /\ revision' = revision /\ attempt' = attempt /\ bound' = bound
      /\ decision' = NoProof
  BY DEF Prepare, NoDecision
<1>2. refused \in TurnStates /\ granted \in TurnStates
  BY DEF SanitationTypes, TurnStates
<1>3. /\ proof' \in Proofs \cup {NoProof}
      /\ proof' = NoProof <=> proof = NoProof
      /\ proof # NoProof => proof'.list = proof.list /\ proof'.session = proof.session
      /\ proof # NoProof /\ proof'.alone = TRUE =>
           proof.by = t /\ proof' = proof /\ proof.list = l
  <2>1. CASE proof # NoProof /\ proof.list # l
    <3>1. proof \in Proofs /\ proof' = [proof EXCEPT !.alone = FALSE]
      BY <2>1 DEF Prepare, SanitationTypes
    <3>2. /\ proof' \in Proofs /\ proof'.alone = FALSE
          /\ proof'.list = proof.list /\ proof'.session = proof.session
      BY <3>1 DEF Proofs
    <3> QED  BY <2>1, <3>2, RecordsDiffer
  <2>2. CASE ~(proof # NoProof /\ proof.list # l)
    <3>1. proof' = Crowded(t)  BY <2>2 DEF Prepare
    <3> QED  BY <2>2, <3>1, CrowdedProof
  <2> QED  BY <2>1, <2>2
<1>4. CASE turn[t].session # bound /\ At(t, refused) /\ UNCHANGED <<handoff, claim>>
  <2>1. turn' \in [Turns -> TurnStates]  BY <1>2, <1>4, TurnMoves
  <2>2. SanitationTypes'  BY <1>1, <1>3, <1>4, <2>1 DEF SanitationTypes
  <2>3. RecordsAreBacked'  BY <1>1, <1>3, <1>4 DEF RecordsAreBacked, Backed
  <2>4. AloneIsPromised'
    <3> SUFFICES ASSUME proof' # NoProof, proof'.alone = TRUE PROVE FALSE
      BY DEF AloneIsPromised
    <3>1. proof # NoProof /\ proof.by = t /\ proof.alone = TRUE  BY <1>3
    <3> QED  BY <1>1, <1>4, <3>1 DEF AloneIsPromised, Promised
  <2> QED  BY <1>1, <2>2, <2>3, <2>4 DEF SanitisesExactly
<1>5. CASE /\ turn[t].session = bound /\ GrantsClaim(t, l)
           /\ claim' = [of |-> handoff, attempt |-> attempt]
           /\ handoff' = NoProof /\ At(t, granted)
  <2>1. turn' \in [Turns -> TurnStates] /\ turn'[t] = granted
    BY <1>2, <1>5, TurnMoves
  <2>2. handoff \in Handoffs  BY <1>5 DEF GrantsClaim, SanitationTypes
  <2>3. claim' \in Claims  BY <1>5, <2>2 DEF Claims, SanitationTypes
  <2>4. claim' # NoProof  BY <2>3, RecordsDiffer
  <2>5. SanitationTypes'  BY <1>1, <1>3, <1>5, <2>1, <2>3 DEF SanitationTypes
  <2>6. RecordsAreBacked'
    BY <1>1, <1>3, <1>5, <2>4 DEF RecordsAreBacked, Backed, GrantsClaim
  <2>7. AloneIsPromised'
    <3> SUFFICES ASSUME proof' # NoProof, proof'.alone = TRUE
                 PROVE  proof'.session = bound' /\ Promised(turn[proof.by])'
      BY DEF AloneIsPromised
    <3>1. proof # NoProof /\ proof.by = t /\ proof.alone = TRUE /\ proof' = proof
      BY <1>3
    <3>2. proof.session = bound /\ Fits(handoff)
      BY <1>1, <3>1 DEF AloneIsPromised, Promised
    <3> QED  BY <1>1, <1>5, <2>1, <2>4, <3>1, <3>2 DEF Promised, Fits
  <2> QED  BY <1>1, <2>5, <2>6, <2>7 DEF SanitisesExactly
<1>6. CASE /\ turn[t].session = bound /\ ~GrantsClaim(t, l)
           /\ ProofDropped /\ At(t, refused)
  <2>1. turn' \in [Turns -> TurnStates]  BY <1>2, <1>6, TurnMoves
  <2>2. SanitationTypes'
    BY <1>1, <1>3, <1>6, <2>1 DEF SanitationTypes, ProofDropped
  <2>3. RecordsAreBacked'  BY <1>6 DEF RecordsAreBacked, ProofDropped
  <2>4. AloneIsPromised'
    <3> SUFFICES ASSUME proof' # NoProof, proof'.alone = TRUE PROVE FALSE
      BY DEF AloneIsPromised
    <3>1. proof # NoProof /\ proof.by = t /\ proof.alone = TRUE /\ proof.list = l
      BY <1>3
    <3>2. /\ proof.session = bound /\ turn[t].attempt = attempt
          /\ handoff # NoProof /\ Fits(handoff) /\ handoff.attempt + 1 = attempt
      BY <1>1, <3>1 DEF AloneIsPromised, Promised
    <3> QED  BY <1>6, <3>1, <3>2 DEF GrantsClaim, CurrentContext, Fits
  <2> QED  BY <1>1, <2>2, <2>3, <2>4 DEF SanitisesExactly
<1> QED  BY <1>4, <1>5, <1>6 DEF Prepare

LEMMA CompressTurnInv ==
    ASSUME SanitationInv, NEW t \in Turns, NEW l \in Lists, CompressTurn(t, l)
    PROVE  SanitationInv'
<1> USE DEF SanitationInv
<1> DEFINE token == IF turn[t].at = "ready" THEN turn[t].token ELSE 0
           proven == ByClaim(token, l) \/ ByHandoff(token, l)
           stands == proof # NoProof /\ proof.list = l /\ proof.session = bound
<1>1. PICK force \in BOOLEAN, applies \in BOOLEAN, changes \in BOOLEAN :
        /\ decision' = [claimed |-> ~force /\ proven, forced |-> force, list |-> l,
                        by |-> t, proof |-> proof, session |-> bound]
        /\ Ingested((~force /\ proven) /\ changes)
        /\ At(t, IF (~force /\ proven) /\ applies THEN Resting ELSE [at |-> "outside"])
  BY DEF CompressTurn
<1>2. /\ handoff' = NoProof /\ claim' = NoProof /\ proof' = NoProof
      /\ bound' = bound /\ attempt' = attempt /\ turn[t].at \in {"asked", "ready"}
  BY DEF CompressTurn, ProofDropped
<1>3. SanitationTypes'
  <2>1. revision' \in Nat  BY <1>1 DEF Ingested, SanitationTypes
  <2>2. Resting \in TurnStates /\ [at |-> "outside"] \in TurnStates
    BY DEF Resting, TurnStates
  <2>3. turn' \in [Turns -> TurnStates]  BY <1>1, <2>2 DEF At, SanitationTypes
  <2> QED  BY <1>2, <2>1, <2>3 DEF SanitationTypes
<1>4. RecordsAreBacked' /\ AloneIsPromised'
  BY <1>2 DEF RecordsAreBacked, AloneIsPromised
<1>5. proven => stands
  <2>1. CASE ByClaim(token, l)
    BY <2>1 DEF ByClaim, CurrentContext, RecordsAreBacked, Backed
  <2>2. CASE ByHandoff(token, l)
    BY <2>2 DEF ByHandoff, CurrentContext, RecordsAreBacked, Backed
  <2> QED  BY <2>1, <2>2
<1>6. stands /\ proof.alone = TRUE /\ proof.by = t => proven
  <2> SUFFICES ASSUME stands, proof.alone = TRUE, proof.by = t PROVE proven
    OBVIOUS
  <2>1. Promised(turn[t])  BY DEF AloneIsPromised
  <2>2. CASE turn[t].at = "asked"
    <3>1. /\ claim = NoProof /\ handoff # NoProof /\ Fits(handoff)
          /\ handoff.attempt = attempt
      BY <2>1, <2>2 DEF Promised
    <3> QED  BY <2>2, <3>1 DEF ByHandoff, CurrentContext, Fits
  <2>3. CASE turn[t].at = "ready"
    <3>1. /\ turn[t].token = attempt /\ claim # NoProof /\ Fits(claim.of)
          /\ claim.attempt = attempt
      BY <2>1, <2>3 DEF Promised
    <3> QED  BY <2>3, <3>1 DEF ByClaim, CurrentContext, Fits
  <2> QED  BY <1>2, <2>2, <2>3
<1>7. SanitisesExactly'
  <2>1. /\ decision'.claimed = (~force /\ proven) /\ decision'.forced = force
        /\ decision'.list = l /\ decision'.by = t
        /\ decision'.proof = proof /\ decision'.session = bound
    BY <1>1
  <2>2. proof # NoProof => proof.alone \in BOOLEAN
    BY DEF SanitationTypes, Proofs
  <2> QED  BY <1>5, <1>6, <2>1, <2>2, Zenon DEF SanitisesExactly
<1> QED  BY <1>3, <1>4, <1>7

(* What leaves bound, attempt and both records, and goes on from a state   *)
(* that no promise is about, keeps the proof or drops it with the records. *)
LEMMA AsideInv ==
    ASSUME SanitationInv, NEW t \in Turns, NEW s \in TurnStates,
           turn[t].at \notin {"asked", "numbered", "ready"},
           At(t, s) \/ UNCHANGED turn, bound' = bound, attempt' = attempt, NoDecision,
           \/ UNCHANGED <<revision, handoff, claim, proof>>
           \/ /\ revision' = revision + 1 /\ proof' = NoProof
              /\ UNCHANGED <<handoff, claim>>
           \/ /\ proof' = NoProof /\ ProofDropped /\ UNCHANGED revision
    PROVE  SanitationInv'
<1> USE DEF SanitationInv
<1>1. /\ turn' \in [Turns -> TurnStates]
      /\ \A u \in Turns \ {t} : turn'[u] = turn[u]
  BY TurnMoves DEF SanitationTypes
<1>2. SanitationTypes'  BY <1>1 DEF SanitationTypes, ProofDropped
<1>3. CASE UNCHANGED <<revision, handoff, claim, proof>>
  <2>1. RecordsAreBacked'  BY <1>3 DEF RecordsAreBacked, Backed
  <2>2. AloneIsPromised'
    <3> SUFFICES ASSUME proof # NoProof, proof.alone = TRUE
                 PROVE  proof.session = bound /\ Promised(turn[proof.by])'
      BY <1>3 DEF AloneIsPromised
    <3>1. proof.session = bound /\ Promised(turn[proof.by])
      BY DEF AloneIsPromised
    <3>2. proof.by \in Turns  BY DEF SanitationTypes, Proofs
    <3>3. proof.by # t  BY <3>1 DEF Promised
    <3> QED  BY <1>1, <1>3, <3>1, <3>2, <3>3 DEF Promised, Fits
  <2> QED  BY <1>2, <2>1, <2>2 DEF SanitisesExactly, NoDecision
<1>4. CASE /\ revision' = revision + 1 /\ proof' = NoProof
           /\ UNCHANGED <<handoff, claim>>
  <2>1. RecordsAreBacked'
    <3>1. handoff # NoProof => handoff.revision \in Nat
      BY DEF SanitationTypes, Handoffs
    <3>2. claim # NoProof => claim.of.revision \in Nat
      BY DEF SanitationTypes, Claims, Handoffs
    <3> QED  BY <1>4, <3>1, <3>2 DEF RecordsAreBacked, Backed, SanitationTypes
  <2> QED  BY <1>2, <1>4, <2>1 DEF AloneIsPromised, SanitisesExactly, NoDecision
<1>5. CASE proof' = NoProof /\ ProofDropped
  BY <1>2, <1>5 DEF RecordsAreBacked, AloneIsPromised, SanitisesExactly, NoDecision,
                    ProofDropped
<1> QED  BY <1>3, <1>4, <1>5

LEMMA StepInv == SanitationInv /\ [SanitationNext]_sanitationVars => SanitationInv'
<1> SUFFICES ASSUME SanitationInv, [SanitationNext]_sanitationVars PROVE SanitationInv'
  OBVIOUS
<1>1. ASSUME NEW t \in Turns, NEW l \in Lists,
             Preflight(t, l) \/ Prepare(t, l) \/ CompressTurn(t, l)
      PROVE  SanitationInv'
  BY <1>1, PreflightInv, PrepareInv, CompressTurnInv
<1>2. ASSUME NEW t \in Turns, Number(t) \/ Bind(t) PROVE SanitationInv'
  BY <1>2, NumberInv, BindInv
<1>3. Resting \in TurnStates /\ [at |-> "aside"] \in TurnStates
      /\ [at |-> "outside"] \in TurnStates
  BY DEF Resting, TurnStates
<1>4. ASSUME NEW t \in Turns, AuxiliaryCompress(t) PROVE SanitationInv'
  BY <1>3, <1>4, AsideInv DEF AuxiliaryCompress
<1>5. ASSUME NEW t \in Turns, RunOutside(t) PROVE SanitationInv'
  <2> PICK changes \in BOOLEAN :
        Ingested(changes) /\ proof' = IF changes THEN NoProof ELSE proof
    BY <1>5 DEF RunOutside
  <2> QED  BY <1>3, <1>5, AsideInv DEF RunOutside, Ingested
<1>6. ASSUME NEW t \in Turns, IngestTurn(t) PROVE SanitationInv'
  BY <1>3, <1>6, AsideInv DEF IngestTurn, Ingested
<1>7. ASSUME NEW t \in Turns, HookEnd(t) PROVE SanitationInv'
  BY <1>3, <1>7, AsideInv DEF HookEnd
<1>8. ASSUME NEW t \in Turns, NEW s \in Bindings, HookStart(t, s) PROVE SanitationInv'
  <2>1. [at |-> "binding", session |-> s] \in TurnStates  BY DEF TurnStates
  <2> QED  BY <1>8, <2>1, AsideInv DEF HookStart
<1>9. CASE UNCHANGED sanitationVars
  BY <1>9 DEF sanitationVars, SanitationInv, SanitationTypes, RecordsAreBacked, Backed,
              AloneIsPromised, Promised, Fits, SanitisesExactly
<1> QED  BY <1>1, <1>2, <1>4, <1>5, <1>6, <1>7, <1>8, <1>9 DEF SanitationNext

(* With any number of threads, hooks of a session and auxiliary calls in   *)
(* any order, a compression skips the model only on a proof that stands,   *)
(* and a turn that nobody crossed is not refused.                          *)
THEOREM ClaimsAreSound == SanitationSpec => []SanitisesExactly
<1>1. SanitationInv => SanitisesExactly  BY DEF SanitationInv
<1> QED  BY InitInv, StepInv, <1>1, PTL DEF SanitationSpec

-----------------------------------------------------------------------------
(***************************************************************************)
(* The spend guard                                                         *)
(***************************************************************************)
(* What the configuration has to be; the defaults are 600 and 1800 seconds *)
(* (summary_spend_window_seconds and summary_spend_backoff_seconds).       *)
Configured == /\ MaxCalls \in Nat \ {0}
              /\ WindowLength \in Nat /\ BackoffLength \in Nat
              /\ WindowLength < BackoffLength

Ordered(s) == \A i, j \in 1 .. Len(s) : i <= j => s[i] <= s[j]

(* The guard remembers the last calls that were made.  Those it does not   *)
(* remember are out of the window, or were made by the time it backed off.  *)
Remembers ==
    LET older == Len(made) - Len(recorded)
    IN  /\ older >= 0 /\ Len(recorded) < MaxCalls
        /\ \A i \in 1 .. Len(recorded) : recorded[i] = made[older + i]
        /\ \A n \in 1 .. older : \/ made[n] < tick - WindowLength
                                 \/ made[n] + BackoffLength <= backoff

GuardInv == /\ tick \in Nat /\ backoff \in Nat
            /\ recorded \in Seq(Nat) /\ made \in Seq(Nat)
            /\ Ordered(made) /\ \A n \in 1 .. Len(made) : made[n] <= tick
            /\ Remembers
            /\ BudgetKept

-----------------------------------------------------------------------------
LEMMA LeastNatural ==
    ASSUME NEW T \in SUBSET Nat, T # {}
    PROVE  \E n \in T : \A m \in T : n <= m
<1>1. PICK n \in T : \A m \in T : ~(<<m, n>> \in OpToRel(<, Nat))
  BY NatLessThanWellFounded, WFMin
<1>2. \A m \in T : ~(m < n)  BY <1>1 DEF OpToRel
<1> QED  BY <1>2

(* The calls that are out of the window come before those that are in it.  *)
LEMMA FirstInWindow ==
    ASSUME NEW s \in Seq(Nat), Ordered(s), NEW t \in Int
    PROVE  \E k \in 0 .. Len(s) : \A i \in DOMAIN s : i <= k <=> s[i] < t
<1> DEFINE Late == {i \in Nat : i \in 1 .. Len(s) + 1 /\ (i <= Len(s) => s[i] >= t)}
<1>1. Len(s) \in Nat /\ DOMAIN s = 1 .. Len(s) /\ \A i \in 1 .. Len(s) : s[i] \in Nat
  OBVIOUS
<1>2. Len(s) + 1 \in Late  BY <1>1
<1>3. PICK m \in Late : \A i \in Late : m <= i
  BY <1>2, LeastNatural
<1>4. m - 1 \in 0 .. Len(s)  BY <1>1, <1>3
<1>5. ASSUME NEW i \in DOMAIN s
      PROVE  i <= m - 1 <=> s[i] < t
  <2>1. i \in Nat /\ i \in 1 .. Len(s) /\ s[i] \in Nat  BY <1>1
  <2>2. CASE i < m
    BY <1>1, <1>3, <2>1, <2>2
  <2>3. CASE i >= m
    <3>1. m \in 1 .. Len(s) /\ s[m] >= t /\ s[m] \in Nat  BY <1>1, <1>3, <2>1, <2>3
    <3>2. s[m] <= s[i]  BY <2>1, <2>3, <3>1 DEF Ordered
    <3> QED  BY <1>3, <2>1, <2>3, <3>1, <3>2
  <2> QED  BY <1>3, <2>1, <2>2, <2>3
<1> QED  BY <1>4, <1>5

LEMMA GuardLengths ==
    ASSUME GuardInv
    PROVE  Len(made) \in Nat /\ Len(recorded) \in Nat /\ Len(made) - Len(recorded) \in Nat
<1>1. Len(made) \in Nat /\ Len(recorded) \in Nat  BY DEF GuardInv
<1>2. Len(made) - Len(recorded) >= 0  BY DEF GuardInv, Remembers
<1> QED  BY <1>1, <1>2

(* Pruning drops the oldest calls, all of them out of the window.          *)
LEMMA PrunedSuffix ==
    ASSUME Configured, GuardInv
    PROVE  \E k \in 0 .. Len(recorded) :
              /\ Pruned \in Seq(Nat) /\ Len(Pruned) = Len(recorded) - k
              /\ \A i \in 1 .. Len(Pruned) : Pruned[i] = recorded[k + i]
              /\ \A i \in 1 .. k : recorded[i] < tick - WindowLength
<1>1. PICK s : s = recorded  OBVIOUS
<1>2. PICK t : t = tick - WindowLength  OBVIOUS
<1>3. PICK all : all = made  OBVIOUS
<1>4. /\ s \in Seq(Nat) /\ all \in Seq(Nat) /\ t \in Int /\ Ordered(all)
      /\ Len(s) \in Nat /\ Len(all) \in Nat /\ Len(all) - Len(s) \in Nat
      /\ \A i \in 1 .. Len(s) : s[i] = all[(Len(all) - Len(s)) + i]
  BY <1>1, <1>2, <1>3 DEF GuardInv, Remembers, Configured
<1>5. Ordered(s)
  <2>1. SUFFICES ASSUME NEW i \in 1 .. Len(s), NEW j \in 1 .. Len(s), i <= j
                 PROVE  s[i] <= s[j]
    BY DEF Ordered
  <2>2. PICK d \in Nat : d = Len(all) - Len(s)  BY <1>4
  <2>3. s[i] = all[d + i] /\ s[j] = all[d + j]  BY <1>4, <2>2
  <2>4. d + i \in 1 .. Len(all) /\ d + j \in 1 .. Len(all) /\ d + i <= d + j
    BY <1>4, <2>1, <2>2
  <2> QED  BY <1>4, <2>3, <2>4 DEF Ordered
<1>6. Expired \in 0 .. Len(s) /\ \A i \in DOMAIN s : i <= Expired <=> s[i] < t
  BY <1>1, <1>2, <1>4, <1>5, FirstInWindow DEF Expired
<1>7. PICK k \in 0 .. Len(s) : k = Expired  BY <1>6
<1>8. Pruned = SubSeq(s, k + 1, Len(s))  BY <1>1, <1>7 DEF Pruned
<1>9. PICK p : p = SubSeq(s, k + 1, Len(s))  OBVIOUS
<1>10. p \in Seq(Nat) /\ Len(p) = Len(s) - k /\ \A i \in 1 .. Len(p) : p[i] = s[k + i]
  <2>0. PICK n \in Nat : n = Len(s)  BY <1>4
  <2>1. k \in 0 .. n /\ k + 1 \in Int /\ n \in Int /\ \A i \in k + 1 .. n : s[i] \in Nat
    BY <1>4, <2>0
  <2>2. p \in Seq(Nat) /\ Len(p) = (IF k + 1 <= n THEN n - (k + 1) + 1 ELSE 0)
        /\ \A i \in 1 .. n - (k + 1) + 1 : p[i] = s[(k + 1) + i - 1]
    BY <1>9, <2>0, <2>1, SubSeqProperties
  <2>3. Len(p) = n - k  BY <2>1, <2>2
  <2>4. ASSUME NEW i \in 1 .. Len(p)
        PROVE  p[i] = s[k + i]
    <3>1. i \in 1 .. n - (k + 1) + 1 /\ (k + 1) + i - 1 = k + i  BY <2>1, <2>3
    <3> QED  BY <2>2, <3>1
  <2> QED  BY <2>0, <2>2, <2>3, <2>4
<1>11. \A i \in 1 .. k : s[i] < t
  BY <1>4, <1>6, <1>7
<1> QED  BY <1>1, <1>2, <1>8, <1>9, <1>10, <1>11

-----------------------------------------------------------------------------
(* A call is granted when fewer than MaxCalls are in the window and the    *)
(* backoff is over.                                                        *)
LEMMA CallKeepsBudget ==
    ASSUME Configured, GuardInv, Grants, RecordCall, made' = Append(made, tick), tick' = tick
    PROVE  GuardInv'
<1>1. PICK k \in 0 .. Len(recorded) :
         /\ Pruned \in Seq(Nat) /\ Len(Pruned) = Len(recorded) - k
         /\ \A i \in 1 .. Len(Pruned) : Pruned[i] = recorded[k + i]
         /\ \A i \in 1 .. k : recorded[i] < tick - WindowLength
  BY PrunedSuffix
<1>2. PICK all : all = made  OBVIOUS
<1>3. PICK rest : rest = Pruned  OBVIOUS
<1>4. PICK now : now = tick  OBVIOUS
<1>5. PICK until : until = backoff  OBVIOUS
<1>6. PICK out : out = Len(made) - Len(Pruned)  OBVIOUS
<1>7. /\ all \in Seq(Nat) /\ rest \in Seq(Nat) /\ now \in Nat /\ until \in Nat
      /\ Len(all) \in Nat /\ Len(rest) \in Nat /\ out \in Nat /\ out = Len(all) - Len(rest)
      /\ \A n \in 1 .. Len(all) : all[n] \in Nat /\ all[n] <= now
      /\ Ordered(all)
      /\ now >= until /\ Len(rest) < MaxCalls
  <2>1. /\ all \in Seq(Nat) /\ now \in Nat /\ until \in Nat /\ Ordered(all)
        /\ \A n \in 1 .. Len(all) : all[n] \in Nat /\ all[n] <= now
    BY <1>2, <1>4, <1>5 DEF GuardInv
  <2>2. rest \in Seq(Nat) /\ Len(rest) = Len(recorded) - k /\ Len(rest) \in Nat
    BY <1>1, <1>3
  <2>3. Len(all) \in Nat /\ out = Len(all) - Len(rest)  BY <1>2, <1>3, <1>6, <2>1
  <2>4. out \in Nat  BY <1>2, <2>2, <2>3, GuardLengths
  <2>5. now >= until /\ Len(rest) < MaxCalls  BY <1>3, <1>4, <1>5 DEF Grants
  <2> QED  BY <2>1, <2>2, <2>3, <2>4, <2>5
<1>8. \A i \in 1 .. Len(rest) : rest[i] = all[out + i]
  <2>1. ASSUME NEW i \in 1 .. Len(rest)
        PROVE  k + i \in 1 .. Len(recorded) /\ out + i = (Len(made) - Len(recorded)) + (k + i)
    BY <1>1, <1>2, <1>3, <1>6, <1>7 DEF GuardInv
  <2> QED  BY <1>1, <1>2, <1>3, <2>1 DEF GuardInv, Remembers
<1>9. ASSUME NEW n \in 1 .. out
      PROVE  all[n] < now - WindowLength \/ all[n] + BackoffLength <= until
  <2>1. PICK older \in Nat : older = Len(made) - Len(recorded)
    BY GuardLengths
  <2>2. CASE n <= older
    BY <1>2, <1>4, <1>5, <2>1, <2>2 DEF GuardInv, Remembers
  <2>3. CASE n > older
    <3>0. Len(made) \in Nat /\ Len(recorded) \in Nat  BY GuardLengths
    <3>1. PICK i \in 1 .. k : n = older + i
      <4>1. out = older + k  BY <1>1, <1>6, <2>1, <3>0
      <4>2. n - older \in 1 .. k  BY SMTT(30), <1>7, <2>1, <2>3, <3>0, <4>1
      <4>3. n = older + (n - older)  BY <1>7, <2>1
      <4> QED  BY <4>2, <4>3
    <3>2. i \in 1 .. Len(recorded)  BY <3>0, <3>1
    <3>3. recorded[i] = all[n]
      BY <1>2, <2>1, <3>1, <3>2 DEF GuardInv, Remembers
    <3> QED  BY <1>1, <1>4, <3>1, <3>3
  <2> QED  BY <2>1, <2>2, <2>3
<1>10. PICK after : after = Append(all, now)  OBVIOUS
<1>11. /\ made' = after /\ after \in Seq(Nat) /\ Len(after) = Len(all) + 1
       /\ \A n \in 1 .. Len(all) : after[n] = all[n]
       /\ after[Len(all) + 1] = now
  BY <1>2, <1>4, <1>7, <1>10
<1>12. Ordered(after) /\ \A n \in 1 .. Len(after) : after[n] <= now
  <2>1. \A n \in 1 .. Len(after) : n \in 1 .. Len(all) \/ n = Len(all) + 1  BY <1>7, <1>11
  <2>2. ASSUME NEW n \in 1 .. Len(after)
        PROVE  after[n] <= now
    <3>1. CASE n \in 1 .. Len(all)  BY <1>7, <1>11, <3>1
    <3>2. CASE n = Len(all) + 1  BY <1>7, <1>11, <3>2
    <3> QED  BY <2>1, <3>1, <3>2
  <2>3. ASSUME NEW i \in 1 .. Len(after), NEW j \in 1 .. Len(after), i <= j
        PROVE  after[i] <= after[j]
    <3>1. CASE j = Len(all) + 1  BY <1>11, <2>2, <3>1
    <3>2. CASE j # Len(all) + 1
      <4>1. i \in 1 .. Len(all) /\ j \in 1 .. Len(all)  BY <1>7, <1>11, <2>3, <3>2
      <4> QED  BY <1>7, <1>11, <2>3, <4>1 DEF Ordered
    <3> QED  BY <3>1, <3>2
  <2> QED  BY <2>2, <2>3 DEF Ordered
<1>13. ASSUME NEW n \in 1 .. Len(after) - MaxCalls
       PROVE  after[n + MaxCalls] - after[n] > WindowLength
  <2>1. CASE n + MaxCalls <= Len(all)
    <3>1. n \in 1 .. Len(all) - MaxCalls /\ n \in 1 .. Len(all) /\ n + MaxCalls \in 1 .. Len(all)
      BY <1>7, <1>11, <2>1 DEF Configured
    <3> QED  BY <1>2, <1>11, <3>1 DEF GuardInv, BudgetKept
  <2>2. CASE n + MaxCalls = Len(all) + 1
    <3>1. n \in 1 .. out /\ n \in 1 .. Len(all)
      BY SMTT(30), <1>7, <1>11, <2>2 DEF Configured
    <3>2. after[n] = all[n] /\ after[n + MaxCalls] = now /\ all[n] \in Nat
      BY <1>7, <1>11, <2>2, <3>1
    <3>3. PICK x \in Nat : x = all[n]  BY <3>2
    <3>4. x < now - WindowLength \/ x + BackoffLength <= until  BY <1>9, <3>1, <3>3
    <3>5. now - x > WindowLength  BY <1>7, <3>4 DEF Configured
    <3> QED  BY <3>2, <3>3, <3>5
  <2>3. PICK m \in Nat : m = n + MaxCalls  BY <1>7, <1>11 DEF Configured
  <2>4. m <= Len(all) + 1  BY <1>7, <1>11, <2>3 DEF Configured
  <2>5. m <= Len(all) \/ m = Len(all) + 1  BY <1>7, <2>4
  <2> QED  BY <2>1, <2>2, <2>3, <2>5
<1>14. CASE Len(rest) + 1 >= MaxCalls
  <2>1. recorded' = <<>> /\ backoff' = now + BackoffLength
    BY <1>3, <1>4, <1>7, <1>14 DEF RecordCall
  <2>2. Remembers'
    <3>1. Len(recorded') = 0 /\ Len(made') - Len(recorded') = Len(after)
      BY <1>7, <1>11, <2>1
    <3>2. ASSUME NEW n \in 1 .. Len(after)
          PROVE  made'[n] + BackoffLength <= backoff'
      <4>1. after[n] \in Nat /\ after[n] <= now  BY <1>11, <1>12
      <4> QED  BY <1>7, <1>11, <2>1, <4>1 DEF Configured
    <3>3. Len(after) >= 0 /\ 0 < MaxCalls  BY <1>7, <1>11 DEF Configured
    <3> QED  BY <3>1, <3>2, <3>3 DEF Remembers
  <2>3. backoff' \in Nat /\ recorded' \in Seq(Nat)
    BY <1>7, <2>1 DEF Configured
  <2> QED  BY <1>4, <1>7, <1>11, <1>12, <1>13, <2>2, <2>3 DEF GuardInv, BudgetKept, Ordered
<1>15. CASE Len(rest) + 1 < MaxCalls
  <2>1. PICK kept : kept = Append(rest, now)  OBVIOUS
  <2>2. /\ kept \in Seq(Nat) /\ Len(kept) = Len(rest) + 1
        /\ \A i \in 1 .. Len(rest) : kept[i] = rest[i]
        /\ kept[Len(rest) + 1] = now
    BY <1>7, <2>1
  <2>3. recorded' = kept /\ backoff' = until
    <3>1. kept = Append(Pruned, tick) /\ ~(Len(kept) >= MaxCalls)
      BY <1>3, <1>4, <1>7, <1>15, <2>1, <2>2 DEF Configured
    <3> QED  BY <1>5, <3>1 DEF RecordCall
  <2>4. Len(after) - Len(kept) = out
    BY <1>7, <1>11, <2>2
  <2>5. ASSUME NEW i \in 1 .. Len(kept)
        PROVE  kept[i] = after[out + i]
    <3>1. CASE i <= Len(rest)
      <4>1. i \in 1 .. Len(rest) /\ out + i \in 1 .. Len(all)  BY <1>7, <2>2, <3>1
      <4> QED  BY <1>8, <1>11, <2>2, <4>1
    <3>2. CASE i = Len(rest) + 1
      BY <1>7, <1>11, <2>2, <3>2
    <3> QED  BY <1>7, <2>2, <3>1, <3>2
  <2>6. ASSUME NEW n \in 1 .. out
        PROVE  after[n] < now - WindowLength \/ after[n] + BackoffLength <= until
    <3>1. n \in 1 .. Len(all)  BY <1>7
    <3> QED  BY <1>9, <1>11, <3>1
  <2>7. Remembers'
    <3>1. Len(made') - Len(recorded') = out /\ Len(recorded') = Len(kept)
      BY <1>11, <2>3, <2>4
    <3>2. out >= 0 /\ Len(kept) < MaxCalls  BY <1>7, <1>15, <2>2
    <3>3. \A i \in 1 .. Len(kept) : recorded'[i] = made'[out + i]
      BY <1>11, <2>3, <2>5
    <3>4. \A n \in 1 .. out : \/ made'[n] < tick' - WindowLength
                             \/ made'[n] + BackoffLength <= backoff'
      BY <1>4, <1>11, <2>3, <2>6
    <3> QED  BY <3>1, <3>2, <3>3, <3>4 DEF Remembers
  <2> QED  BY <1>4, <1>7, <1>11, <1>12, <1>13, <2>2, <2>3, <2>7 DEF GuardInv, BudgetKept, Ordered
<1> QED  BY <1>7, <1>14, <1>15 DEF Configured

LEMMA GuardInit ==
    ASSUME Configured, EscalationInit
    PROVE  GuardInv
BY DEF EscalationInit, GuardInv, Remembers, Ordered, BudgetKept, Configured

LEMMA GuardStep ==
    ASSUME Configured, GuardInv, [EscalationNext]_escalationVars
    PROVE  GuardInv'
<1>1. ASSUME UNCHANGED <<tick, recorded, backoff, made>>
      PROVE  GuardInv'
  BY <1>1 DEF GuardInv, Remembers, Ordered, BudgetKept
<1>2. ASSUME Tock
      PROVE  GuardInv'
  <2>1. /\ tick' = tick + 1 /\ recorded' = recorded /\ backoff' = backoff /\ made' = made
        /\ tick \in Nat
    BY <1>2 DEF Tock, GuardInv
  <2>2. \A n \in 1 .. Len(made) : made[n] \in Nat  BY DEF GuardInv
  <2>3. Remembers'
    <3>1. Len(made) \in Nat /\ Len(recorded) \in Nat  BY DEF GuardInv
    <3>2. ASSUME NEW n \in 1 .. Len(made) - Len(recorded)
          PROVE  made[n] < (tick + 1) - WindowLength \/ made[n] + BackoffLength <= backoff
      <4>1. made[n] \in Nat  BY <2>2, <3>1
      <4> QED  BY <2>1, <4>1 DEF GuardInv, Remembers, Configured
    <3> QED  BY <2>1, <3>2 DEF GuardInv, Remembers
  <2>4. \A n \in 1 .. Len(made) : made[n] <= tick + 1
    BY <2>1, <2>2 DEF GuardInv
  <2> QED  BY <2>1, <2>3, <2>4 DEF GuardInv, Ordered, BudgetKept
<1>3. ASSUME NEW t \in Summarizers, ReserveCall(t)
      PROVE  GuardInv'
  BY <1>1, <1>3, CallKeepsBudget DEF ReserveCall
<1>4. ASSUME NEW t \in Summarizers,
             BeginSummary(t) \/ OutOfTime(t) \/ AskBreaker(t) \/ Answered(t) \/ Unanswered(t)
      PROVE  GuardInv'
  BY <1>1, <1>4 DEF BeginSummary, OutOfTime, AskBreaker, Answered, Unanswered
<1>5. ASSUME UNCHANGED escalationVars
      PROVE  GuardInv'
  BY <1>1, <1>5 DEF escalationVars
<1> QED  BY <1>2, <1>3, <1>4, <1>5 DEF EscalationNext

(* However many threads make summaries down however long a chain, no       *)
(* stretch as long as the window sees more calls than the guard allows, if  *)
(* the backoff is longer than the window (try_record_call,                 *)
(* _record_call_locked, _prune).                                           *)
THEOREM BudgetTheorem ==
    ASSUME Configured
    PROVE  EscalationSpec => []BudgetKept
<1>1. GuardInv => BudgetKept  BY DEF GuardInv
<1>2. EscalationInit => GuardInv  BY GuardInit
<1>3. GuardInv /\ [EscalationNext]_escalationVars => GuardInv'  BY GuardStep
<1> QED  BY <1>1, <1>2, <1>3, PTL DEF EscalationSpec
=============================================================================
