----------------------------- MODULE Assertions -------------------------------
(***************************************************************************)
(* The assertion sidecar: what a model read out of a message, kept with    *)
(* the hash of the text it was read from.  Extractors (the worker behind   *)
(* a compaction, the operator's rebuild) take snapshots of rows, ask the   *)
(* model without any lock, and publish under a comparison with the row;    *)
(* other processes extract, rewrite and delete the same rows.              *)
(*                                                                         *)
(* A claim is the row, the text and the words it was read from; a link     *)
(* (supersedes, confirms, cancels ...) joins two claims and belongs to the *)
(* row whose text states it.  The extraction version is the program's one. *)
(***************************************************************************)
EXTENDS Integers, FiniteSets, SequencesExt

CONSTANTS Extractors,  \* threads that extract, of any process
          Sources,     \* rows of the message table
          Words,       \* what a model may read out of a text
          MaxBatch,    \* rows of one batch
          MaxLinks     \* links of one text

VARIABLES rowText,  \* the content of each row
          outcome,  \* receipts: what was published for a row and text
          current,  \* the receipts that are not invalidated
          batch,    \* of each extractor: the snapshots still to do
          reading   \* of each extractor: what the model made of the first one

assertionVars == <<rowText, outcome, current, batch, reading>>

NothingRead == [words |-> {}, links |-> {}, ready |-> FALSE]

Keys == Sources \X {"raw", "rewritten"}
Claims == Keys \X Words

AssertionsInit == /\ rowText = [s \in Sources |-> "raw"]
                  /\ outcome = << >>
                  /\ current = {}
                  /\ batch = [e \in Extractors |-> << >>]
                  /\ reading = [e \in Extractors |-> NothingRead]

-----------------------------------------------------------------------------
(* Queries.                                                                *)

\* The row still has the text of the snapshot.
Matches(k) == rowText[k[1]] = k[2]

HasReceipt(k) == k \in current

\* The claims of the receipts that are in force and whose row exists.
ActiveClaims == {c \in Claims : /\ c[1] \in current
                                /\ rowText[c[1][1]] # "gone"
                                /\ c[2] \in outcome[c[1]].words}

\* Rows without a receipt in force, oldest first.
Pending == {s \in Sources : /\ rowText[s] # "gone"
                            /\ \A k \in current : k[1] # s}

\* The links of the receipts in force whose two ends are in force as well.
ActiveLinks == {l \in UNION {outcome[k].links : k \in current} :
                  {l[1], l[2]} \subseteq ActiveClaims}

\* A query reads claims and the links that touch them; it checks the text
\* behind each of them, and is refused at the first that differs.
Refused == \/ \E c \in ActiveClaims : ~Matches(c[1])
           \/ \E l \in ActiveLinks : ~Matches(l[1][1]) \/ ~Matches(l[2][1])

-----------------------------------------------------------------------------
(* The rows change: transcript GC rewrites one, a clean command deletes it, *)
(* and triggers invalidate the receipts in the same transaction.            *)

StandingBut(s) == {k \in current : k[1] # s}

RewriteText(s) ==
    /\ rowText[s] = "raw"
    /\ rowText' = [rowText EXCEPT ![s] = "rewritten"]
    /\ current' = StandingBut(s)
    /\ UNCHANGED <<outcome, batch, reading>>

DeleteText(s) ==
    /\ rowText[s] # "gone"
    /\ rowText' = [rowText EXCEPT ![s] = "gone"]
    /\ current' = StandingBut(s)
    /\ UNCHANGED <<outcome, batch, reading>>

\* invalidate_source: a receipt is set aside although its row is unchanged.
Invalidate(s) ==
    /\ current' = StandingBut(s)
    /\ UNCHANGED <<rowText, outcome, batch, reading>>

-----------------------------------------------------------------------------
(* Extraction.                                                             *)

\* A compaction hands rows of its chunk, or a rebuild the oldest pending
\* ones, to an extractor that is free.
TakeBatch(e) ==
    /\ batch[e] = << >>
    /\ \E chosen \in SUBSET Pending :
          /\ Cardinality(chosen) \in 1 .. MaxBatch
          /\ \E order \in SetToSeqs(chosen) :
                batch' = [batch EXCEPT ![e] = [i \in DOMAIN order |->
                                                  <<order[i], rowText[order[i]]>>]]
    /\ UNCHANGED <<rowText, outcome, current, reading>>

Done(e) == /\ batch' = [batch EXCEPT ![e] = Tail(@)]
           /\ reading' = [reading EXCEPT ![e] = NothingRead]

\* Only the worker asks whether another extractor was faster.
SkipCurrent(e) ==
    /\ batch[e] # << >> /\ ~reading[e].ready /\ HasReceipt(Head(batch[e]))
    /\ Done(e)
    /\ UNCHANGED <<rowText, outcome, current>>

\* The model answers; the payload may link its own claims to one another and
\* to claims that are in force when it is parsed.
Extract(e) ==
    /\ batch[e] # << >> /\ ~reading[e].ready
    /\ \E words \in SUBSET Words :
          LET own == {<<Head(batch[e]), w>> : w \in words}
              ends == own \cup ActiveClaims
          IN  \E links \in SUBSET {l \in own \X ends : l[1] # l[2]} :
                /\ Cardinality(links) <= MaxLinks
                /\ reading' = [reading EXCEPT ![e] =
                                 [words |-> words, links |-> links, ready |-> TRUE]]
    /\ UNCHANGED <<rowText, outcome, current, batch>>

\* The model fails, or its payload is refused.
FailExtract(e) ==
    /\ batch[e] # << >> /\ ~reading[e].ready
    /\ Done(e)
    /\ UNCHANGED <<rowText, outcome, current>>

Record(k, o) == outcome' = [j \in DOMAIN outcome \cup {k} |->
                              IF j = k THEN o ELSE outcome[j]]

\* Nothing else was published for this text before, in force or set aside.
AgreesWithCurrent(k, o) == k \in current => outcome[k] = o
Agrees(k, o) == k \in DOMAIN outcome => outcome[k] = o

\* The ends of new links are in force in the same transaction; a receipt that
\* is there or comes back brings the links it has.
EndsStand(k, o) ==
    \/ k \in DOMAIN outcome
    \/ \A l \in o.links : l[2] \in ActiveClaims \cup {<<k, w>> : w \in o.words}

\* No receipt of another text is in force for the row.
Unclaimed(k) == \A j \in current : j[1] = k[1] => j = k

AcceptsChangedRow(k, o) == /\ rowText[k[1]] # "gone"
                           /\ Unclaimed(k) /\ Agrees(k, o) /\ EndsStand(k, o)
Accepts(k, o) == Matches(k) /\ Unclaimed(k) /\ Agrees(k, o) /\ EndsStand(k, o)

\* The write transaction of publish_source; a comparison that fails rolls it
\* back and the batch goes on with the next row.
PublishAssertions(e) ==
    /\ reading[e].ready
    /\ LET k == Head(batch[e])
           o == [words |-> reading[e].words, links |-> reading[e].links]
       IN  IF Accepts(k, o)
           THEN Record(k, o) /\ current' = current \cup {k}
           ELSE UNCHANGED <<outcome, current>>
    /\ Done(e)
    /\ UNCHANGED <<rowText>>

\* The worker's thread is a daemon: it may end with its process.
StopExtractor(e) ==
    /\ batch[e] # << >>
    /\ batch' = [batch EXCEPT ![e] = << >>]
    /\ reading' = [reading EXCEPT ![e] = NothingRead]
    /\ UNCHANGED <<rowText, outcome, current>>

AssertionsNext ==
    \/ \E s \in Sources : RewriteText(s) \/ DeleteText(s) \/ Invalidate(s)
    \/ \E e \in Extractors : \/ TakeBatch(e) \/ SkipCurrent(e) \/ Extract(e)
                             \/ FailExtract(e) \/ PublishAssertions(e) \/ StopExtractor(e)

-----------------------------------------------------------------------------
\* A state query is never refused: a receipt in force was read from exactly
\* the text its row has, however the extraction raced with rewrites, deletions
\* and other extractors.
QueriesAreAnswered == ~Refused

\* A text is read once: whatever two extractors make of it, the claims and
\* links that were published for it first never change, also when the receipt
\* was set aside and comes back.
ReadOnce == [][\A k \in DOMAIN outcome :
                 k \in DOMAIN outcome' /\ outcome'[k] = outcome[k]]_assertionVars
=============================================================================
