--------------------------- MODULE Vectors_proofs ---------------------------
(***************************************************************************)
(* What the marks of the backfill promise, for any processes, leaves, batch *)
(* size and number of runs; and what a search claims to cover, and the     *)
(* stores it uses, for any searches, nodes and keys, and any limits of scan, *)
(* pool and cache.                                                         *)
(***************************************************************************)
EXTENDS EmbeddingBackfill, SemanticSearch, FiniteSetTheorems, TLAPS

-----------------------------------------------------------------------------
(***************************************************************************)
(* The backfill                                                            *)
(***************************************************************************)
RowStates == {"none", "claimed", "dispatched", "uncertain"}

Jobs == [at : {"off", "recover", "discover", "next", "reserve", "batch", "sending",
               "wire", "publish", "failed", "end", "lost"},
         run : Nat, retry : BOOLEAN,
         todo : SUBSET Leaves, asked : SUBSET Leaves,
         batch : SUBSET Leaves, request : SUBSET Leaves,
         fate : {"none", "rejected", "unknown", "skipped"}]

BackfillTypes ==
    /\ runs \in Nat /\ claimant \in Nat /\ claimant <= runs
    /\ inflight \in [Leaves -> [state : RowStates, run : Nat, numbered : BOOLEAN]]
    /\ embedded \subseteq Leaves
    /\ job \in [Backfillers -> Jobs]
    /\ open \in [Leaves -> Int]

\* A run is one process's; who does nothing has nothing.
RunsDiffer ==
    /\ \A p \in Backfillers : IF job[p].at = "off" THEN job[p] = Off
                              ELSE job[p].run \in 1 .. runs
    /\ \A p, q \in Backfillers :
          p # q /\ job[p].at # "off" /\ job[q].at # "off" => job[p].run # job[q].run

\* What the run whose lease stands has before it was not embedded since it
\* looked: only that run publishes, and not what is still before it.
Ahead(j) == j.todo \cup j.batch

HolderIsAlone ==
    \A p \in Backfillers :
        /\ Holds(p) => Ahead(job[p]) \cap embedded = {}
        /\ Ahead(job[p]) \cap job[p].request = {}
        /\ job[p].todo \cap job[p].batch = {}
        /\ job[p].at = "batch" => job[p].request = {}
        /\ job[p].at \in {"recover", "discover"} =>
              job[p].batch = {} /\ job[p].request = {}

OnTheWay(j, r) == j.at \in {"sending", "wire"} /\ r \in j.request

\* Before a row is marked as sent nothing of it is on the way.
MarkedFirst ==
    \A r \in Leaves \ embedded : inflight[r].state \in {"none", "claimed"} =>
        /\ open[r] = 0
        /\ \A p \in Backfillers : ~OnTheWay(job[p], r)

\* What a normal run has sent is on no other way, and open exactly if it was
\* transmitted and not rejected.
FirstRequest(p, r) ==
    /\ r \in job[p].request \ job[p].asked
    /\ Mine(p, r) /\ inflight[r].state = "dispatched"

SentOnce ==
    \A p \in Backfillers : \A r \in Leaves : FirstRequest(p, r) =>
        /\ job[p].at \in {"sending", "wire", "publish", "failed"} =>
              \A q \in Backfillers \ {p} : ~OnTheWay(job[q], r)
        /\ job[p].at = "wire" => open[r] = 1
        /\ job[p].at = "sending" => open[r] = 0
        /\ job[p].at = "failed" /\ job[p].fate = "rejected" => open[r] = 0

BackfillInv == /\ BackfillTypes
               /\ RunsDiffer
               /\ HolderIsAlone
               /\ EmbeddedIsDone
               /\ MarkedFirst
               /\ SentOnce
               /\ NeverResent

-----------------------------------------------------------------------------
LEMMA BackfillInitInv == BackfillInit => BackfillInv
<1> SUFFICES ASSUME BackfillInit PROVE BackfillInv
  OBVIOUS
<1>1. BackfillTypes
  BY DEF BackfillInit, BackfillTypes, Free, Off, NoRun, RowStates, Jobs
<1>2. \A p \in Backfillers : job[p] = Off  BY DEF BackfillInit
<1>3. RunsDiffer /\ HolderIsAlone /\ MarkedFirst /\ SentOnce
  BY <1>2 DEF BackfillInit, RunsDiffer, HolderIsAlone, Ahead, MarkedFirst, SentOnce,
              FirstRequest, OnTheWay, Off
<1>4. EmbeddedIsDone /\ NeverResent
  BY DEF BackfillInit, EmbeddedIsDone, NeverResent
<1> QED  BY <1>1, <1>3, <1>4 DEF BackfillInv

(* A step of one process that touches no row, and goes nowhere near the    *)
(* wire: its lists only shrink, or hold rows that are not embedded.        *)
LEMMA JobMoves ==
    ASSUME BackfillInv, NEW p \in Backfillers, NEW j \in Jobs,
           job' = [job EXCEPT ![p] = j],
           j = Off \/ (job[p].at # "off" /\ j.at # "off" /\ j.run = job[p].run),
           claimant' \in {claimant, NoRun},
           Ahead(j) \cap embedded \subseteq Ahead(job[p]),
           Ahead(j) \cap j.request = {},
           j.todo \cap j.batch = {},
           j.at = "batch" => j.request = {},
           j.at \notin {"recover", "discover", "sending", "wire", "publish"},
           j.at = "failed" => /\ j.request = job[p].request /\ j.asked = job[p].asked
                              /\ \/ j.fate = "rejected" /\ job[p].at \in {"sending", "batch"}
                                 \/ j.fate # "rejected" /\ job[p].at \in {"sending", "wire", "batch"},
           UNCHANGED <<inflight, embedded, open, runs>>
    PROVE  BackfillInv'
<1> USE DEF BackfillInv
<1>1. /\ job'[p] = j
      /\ \A q \in Backfillers \ {p} : job'[q] = job[q]
      /\ job' \in [Backfillers -> Jobs]
  BY DEF BackfillTypes
<1>2. BackfillTypes'  BY <1>1 DEF BackfillTypes, NoRun
<1>3. RunsDiffer'
  <2>1. CASE j = Off
    <3>1. j.at = "off"  BY <2>1 DEF Off
    <3> QED  BY <1>1, <2>1, <3>1 DEF RunsDiffer
  <2>2. CASE job[p].at # "off" /\ j.at # "off" /\ j.run = job[p].run
    BY <1>1, <2>2 DEF RunsDiffer
  <2> QED  BY <2>1, <2>2
<1>4. HolderIsAlone'
  <2> SUFFICES ASSUME NEW q \in Backfillers
               PROVE  /\ Holds(q)' => Ahead(job'[q]) \cap embedded = {}
                      /\ Ahead(job'[q]) \cap job'[q].request = {}
                      /\ job'[q].todo \cap job'[q].batch = {}
                      /\ job'[q].at = "batch" => job'[q].request = {}
                      /\ job'[q].at \in {"recover", "discover"} =>
                            job'[q].batch = {} /\ job'[q].request = {}
    BY DEF HolderIsAlone
  <2>1. CASE j = Off /\ q = p
    BY <1>1, <2>1 DEF Off, Ahead
  <2>2. CASE ~(j = Off /\ q = p)
    <3>1. Holds(q)' => Holds(q) \/ job'[q] = Off
      BY <1>1, <2>2 DEF Holds, RunsDiffer, NoRun
    <3>2. Off.todo = {} /\ Off.batch = {}  BY DEF Off
    <3> QED  BY <1>1, <2>2, <3>1, <3>2 DEF HolderIsAlone, Ahead
  <2> QED  BY <2>1, <2>2
<1>5. MarkedFirst'  BY <1>1 DEF MarkedFirst, OnTheWay
<1>6. SentOnce'
  <2> SUFFICES ASSUME NEW q \in Backfillers, NEW r \in Leaves, FirstRequest(q, r)'
               PROVE  /\ job'[q].at \in {"sending", "wire", "publish", "failed"} =>
                            \A u \in Backfillers \ {q} : ~OnTheWay(job'[u], r)
                      /\ job'[q].at = "wire" => open[r] = 1
                      /\ job'[q].at = "sending" => open[r] = 0
                      /\ job'[q].at = "failed" /\ job'[q].fate = "rejected" => open[r] = 0
    BY DEF SentOnce
  <2>1. \A u \in Backfillers : OnTheWay(job'[u], r) => OnTheWay(job[u], r)
    BY <1>1 DEF OnTheWay
  <2>2. CASE q # p
    <3>1. FirstRequest(q, r)  BY <1>1, <2>2 DEF FirstRequest, Mine
    <3> QED  BY <1>1, <2>1, <2>2, <3>1 DEF SentOnce
  <2>3. CASE q = p /\ j.at = "failed"
    <3>1. FirstRequest(p, r)
      BY <1>1, <2>3 DEF FirstRequest, Mine, Off
    <3>2. job[p].at # "batch"
      BY <3>1 DEF HolderIsAlone, FirstRequest
    <3> QED  BY <1>1, <2>1, <2>3, <3>1, <3>2 DEF SentOnce
  <2>4. CASE q = p /\ j.at # "failed"
    BY <1>1, <2>4
  <2> QED  BY <2>2, <2>3, <2>4
<1>7. EmbeddedIsDone' /\ NeverResent'
  BY DEF EmbeddedIsDone, NeverResent
<1> QED  BY <1>2, <1>3, <1>4, <1>5, <1>6, <1>7

-----------------------------------------------------------------------------
LEMMA JobTypes ==
    ASSUME BackfillInv, NEW p \in Backfillers
    PROVE  /\ job[p] \in Jobs
           /\ Off \in Jobs
           /\ Ahead(Off) = {}
BY DEF BackfillInv, BackfillTypes, Off, Jobs, NoRun, Ahead

(* Steps that only take the job on.                                        *)
LEMMA QuietSteps ==
    ASSUME BackfillInv, NEW p \in Backfillers,
           \/ Discover(p) \/ Renew(p) \/ RunOut(p) \/ NotSent(p)
           \/ NextBatch(p) \/ End(p) \/ BackfillerDies(p)
    PROVE  BackfillInv'
<1> DEFINE b == job[p]
<1>1. /\ b \in Jobs /\ Off \in Jobs /\ Ahead(Off) = {} /\ Off.at = "off"
      /\ Off.request = {} /\ Off.todo = {}
      /\ job \in [Backfillers -> Jobs]
      /\ Ahead(b) \cap b.request = {} /\ b.todo \cap b.batch = {}
      /\ b.at = "batch" => b.request = {}
      /\ b.at \in {"recover", "discover"} => b.batch = {} /\ b.request = {}
  BY JobTypes DEF BackfillInv, HolderIsAlone, BackfillTypes, Off
<1>2. CASE Discover(p)
  <2> DEFINE found == IF b.retry THEN UncertainRows ELSE PendingRows
             j == [b EXCEPT !.at = IF profiled THEN "next" ELSE "end",
                            !.todo = IF profiled THEN found ELSE {},
                            !.asked = IF profiled /\ b.retry THEN found ELSE {}]
  <2>1. found \subseteq Leaves \ embedded  BY DEF UncertainRows, PendingRows
  <2>2. /\ b.at = "discover" /\ job' = [job EXCEPT ![p] = j]
        /\ UNCHANGED <<claimant, inflight, embedded, open, runs>>
    BY <1>1, <1>2 DEF Discover, BackfillTypes
  <2>3. /\ j \in Jobs /\ j.run = b.run /\ j.batch = {} /\ j.request = {}
        /\ j.at \in {"next", "end"}
        /\ j.todo \cap embedded = {}
    BY <1>1, <2>1, <2>2 DEF Jobs
  <2> QED  BY <1>1, <2>2, <2>3, JobMoves DEF Ahead
<1>3. CASE Renew(p) \/ RunOut(p) \/ NextBatch(p)
  <2>1. PICK at \in {"next", "reserve", "lost", "end"} :
          job' = [job EXCEPT ![p] = [b EXCEPT !.at = at]]
    BY <1>1, <1>3 DEF Renew, RunOut, NextBatch, Goes, BackfillTypes
  <2>2. /\ b.at # "off" /\ UNCHANGED <<claimant, inflight, embedded, open, runs>>
    BY <1>3 DEF Renew, RunOut, NextBatch
  <2> DEFINE j == [b EXCEPT !.at = at]
  <2>3. /\ j \in Jobs /\ j.run = b.run /\ j.todo = b.todo /\ j.batch = b.batch
        /\ j.request = b.request /\ j.at \in {"next", "reserve", "lost", "end"}
    BY <1>1 DEF Jobs
  <2> QED  BY <1>1, <2>1, <2>2, <2>3, JobMoves DEF Ahead
<1>4. CASE NotSent(p)
  <2>1. PICK fate \in {"rejected", "unknown"} :
          /\ job' = [job EXCEPT ![p] = [b EXCEPT !.at = "failed", !.fate = fate]]
          /\ b.at \in {"sending", "batch"}
    BY <1>1, <1>4 DEF NotSent, BackfillTypes
  <2> DEFINE j == [b EXCEPT !.at = "failed", !.fate = fate]
  <2>2. /\ j \in Jobs /\ j.run = b.run /\ j.todo = b.todo /\ j.batch = b.batch
        /\ j.request = b.request /\ j.asked = b.asked
        /\ j.at = "failed" /\ j.fate = fate
    BY <1>1 DEF Jobs
  <2> QED  BY <1>1, <1>4, <2>1, <2>2, JobMoves DEF Ahead, NotSent
<1>5. CASE End(p) \/ BackfillerDies(p)
  <2>1. /\ job' = [job EXCEPT ![p] = Off]
        /\ claimant' \in {claimant, NoRun}
        /\ UNCHANGED <<inflight, embedded, open, runs>>
    BY <1>5 DEF End, BackfillerDies
  <2> QED  BY <1>1, <2>1, JobMoves
<1> QED  BY <1>2, <1>3, <1>4, <1>5

LEMMA BeginInv ==
    ASSUME BackfillInv, NEW p \in Backfillers, NEW retry \in BOOLEAN, Begin(p, retry)
    PROVE  BackfillInv'
<1> USE DEF BackfillInv
<1> DEFINE j == [Off EXCEPT !.at = "recover", !.run = runs + 1, !.retry = retry]
<1>1. /\ job' = [job EXCEPT ![p] = j] /\ runs' = runs + 1 /\ claimant' = runs + 1
      /\ UNCHANGED <<inflight, embedded, open>> /\ job[p].at = "off"
      /\ runs \in Nat /\ job \in [Backfillers -> Jobs]
  BY DEF Begin, BackfillTypes
<1>2. /\ j \in Jobs /\ j.at = "recover" /\ j.run = runs + 1 /\ j.request = {}
      /\ j.todo = {} /\ j.batch = {}
  <2>1. Off \in Jobs /\ Off.todo = {} /\ Off.batch = {} /\ Off.request = {}
    BY JobTypes DEF Off
  <2>2. \A o \in Jobs, n \in Nat :
          LET k == [o EXCEPT !.at = "recover", !.run = n, !.retry = retry]
          IN  /\ k \in Jobs /\ k.at = "recover" /\ k.run = n /\ k.request = o.request
              /\ k.todo = o.todo /\ k.batch = o.batch
    BY DEF Jobs
  <2>3. runs + 1 \in Nat  BY <1>1
  <2> QED  BY <2>1, <2>2, <2>3
<1>3. /\ job'[p] = j /\ job' \in [Backfillers -> Jobs]
      /\ \A q \in Backfillers \ {p} : job'[q] = job[q]
  BY <1>1, <1>2
<1>4. BackfillTypes'  BY <1>1, <1>3 DEF BackfillTypes
<1>5. RunsDiffer'  BY <1>1, <1>2, <1>3 DEF RunsDiffer
<1>6. HolderIsAlone'
  <2>1. \A q \in Backfillers \ {p} : ~Holds(q)'
    <3> SUFFICES ASSUME NEW q \in Backfillers \ {p} PROVE job[q].run # runs + 1
      BY <1>1, <1>3 DEF Holds
    <3>1. job[q].run <= runs  BY <1>1 DEF RunsDiffer, Off, NoRun
    <3> QED  BY <1>1, <3>1 DEF Jobs
  <2> QED  BY <1>1, <1>2, <1>3, <2>1 DEF HolderIsAlone, Ahead
<1>7. MarkedFirst'  BY <1>1, <1>2, <1>3 DEF MarkedFirst, OnTheWay
<1>8. SentOnce'
  BY <1>1, <1>2, <1>3 DEF SentOnce, FirstRequest, Mine, OnTheWay
<1>9. EmbeddedIsDone' /\ NeverResent'  BY <1>1 DEF EmbeddedIsDone, NeverResent
<1> QED  BY <1>4, <1>5, <1>6, <1>7, <1>8, <1>9

(* A step of one run that also writes rows.                                *)
LEMMA RunGoesOn ==
    ASSUME BackfillInv, NEW p \in Backfillers, NEW j \in Jobs,
           job' = [job EXCEPT ![p] = j],
           job[p].at # "off", j.at # "off", j.run = job[p].run,
           runs' = runs, claimant' \in {claimant, NoRun},
           embedded' # embedded => Holds(p),
           Holds(p) => Ahead(j) \cap embedded' = {},
           Ahead(j) \cap j.request = {},
           j.todo \cap j.batch = {},
           j.at = "batch" => j.request = {},
           j.at \in {"recover", "discover"} => j.batch = {} /\ j.request = {}
    PROVE  /\ RunsDiffer' /\ HolderIsAlone'
           /\ job' \in [Backfillers -> Jobs] /\ job'[p] = j
           /\ \A q \in Backfillers \ {p} : job'[q] = job[q]
           /\ claimant' \in Nat /\ claimant' <= runs
<1> USE DEF BackfillInv
<1>1. /\ job'[p] = j /\ job' \in [Backfillers -> Jobs]
      /\ \A q \in Backfillers \ {p} : job'[q] = job[q]
      /\ claimant' \in Nat /\ claimant' <= runs
  BY DEF BackfillTypes, NoRun
<1>2. RunsDiffer'  BY <1>1 DEF RunsDiffer
<1>3. HolderIsAlone'
  <2> SUFFICES ASSUME NEW q \in Backfillers
               PROVE  /\ Holds(q)' => Ahead(job'[q]) \cap embedded' = {}
                      /\ Ahead(job'[q]) \cap job'[q].request = {}
                      /\ job'[q].todo \cap job'[q].batch = {}
                      /\ job'[q].at = "batch" => job'[q].request = {}
                      /\ job'[q].at \in {"recover", "discover"} =>
                            job'[q].batch = {} /\ job'[q].request = {}
    BY DEF HolderIsAlone
  <2>1. job[p].run # NoRun  BY DEF RunsDiffer, NoRun, BackfillTypes
  <2>2. CASE q = p
    <3>1. Holds(p)' => Holds(p)  BY <1>1, <2>1 DEF Holds
    <3> QED  BY <1>1, <2>2, <3>1
  <2>3. CASE q # p /\ job[q].at = "off"
    <3>1. job'[q] = Off  BY <1>1, <2>3 DEF RunsDiffer
    <3> QED  BY <3>1 DEF Off, Ahead
  <2>4. CASE q # p /\ job[q].at # "off"
    <3>1. job[q].run # job[p].run /\ job[q].run # NoRun
      BY <2>4 DEF RunsDiffer, NoRun, BackfillTypes
    <3>2. Holds(q)' => Holds(q) /\ ~Holds(p)
      BY <1>1, <2>4, <3>1 DEF Holds
    <3> QED  BY <1>1, <2>4, <3>2 DEF HolderIsAlone
  <2> QED  BY <2>2, <2>3, <2>4
<1> QED  BY <1>1, <1>2, <1>3

LEMMA TransmitInv ==
    ASSUME BackfillInv, NEW p \in Backfillers, Transmit(p)
    PROVE  BackfillInv'
<1> USE DEF BackfillInv
<1> DEFINE j == [job[p] EXCEPT !.at = "wire"]
<1>1. /\ job[p].at = "sending" /\ job' = [job EXCEPT ![p] = j]
      /\ UNCHANGED <<claimant, inflight, embedded, runs>>
      /\ \A r \in Leaves : open'[r] = open[r] + (IF r \in job[p].request THEN 1 ELSE 0)
      /\ open' \in [Leaves -> Int]
  BY DEF Transmit, Goes, BackfillTypes
<1>2. /\ j \in Jobs /\ j.at = "wire" /\ j.run = job[p].run /\ j.todo = job[p].todo
      /\ j.batch = job[p].batch /\ j.request = job[p].request /\ j.asked = job[p].asked
  BY JobTypes DEF Jobs
<1>3. /\ RunsDiffer' /\ HolderIsAlone' /\ job' \in [Backfillers -> Jobs] /\ job'[p] = j
      /\ \A q \in Backfillers \ {p} : job'[q] = job[q]
  BY <1>1, <1>2, RunGoesOn DEF HolderIsAlone, Ahead
<1>4. BackfillTypes'  BY <1>1, <1>3 DEF BackfillTypes
<1>5. \A r \in job[p].request : r \notin embedded =>
         inflight[r].state \in {"dispatched", "uncertain"}
  BY <1>1, JobTypes DEF MarkedFirst, OnTheWay, BackfillTypes, RowStates, Jobs
<1>6. \A q \in Backfillers, r \in Leaves : OnTheWay(job'[q], r) <=> OnTheWay(job[q], r)
  BY <1>1, <1>2, <1>3 DEF OnTheWay
<1>7. MarkedFirst'
  <2> SUFFICES ASSUME NEW r \in Leaves \ embedded, inflight[r].state \in {"none", "claimed"}
               PROVE  open'[r] = 0 /\ \A q \in Backfillers : ~OnTheWay(job'[q], r)
    BY <1>1 DEF MarkedFirst
  <2>1. open[r] = 0 /\ \A q \in Backfillers : ~OnTheWay(job[q], r)  BY DEF MarkedFirst
  <2>2. r \notin job[p].request  BY <1>1, <2>1 DEF OnTheWay
  <2> QED  BY <1>1, <1>6, <2>1, <2>2
<1>8. SentOnce'
  <2> SUFFICES ASSUME NEW q \in Backfillers, NEW r \in Leaves, FirstRequest(q, r)'
               PROVE  /\ job'[q].at \in {"sending", "wire", "publish", "failed"} =>
                            \A u \in Backfillers \ {q} : ~OnTheWay(job'[u], r)
                      /\ job'[q].at = "wire" => open'[r] = 1
                      /\ job'[q].at = "sending" => open'[r] = 0
                      /\ job'[q].at = "failed" /\ job'[q].fate = "rejected" => open'[r] = 0
    BY <1>1 DEF SentOnce
  <2>1. FirstRequest(q, r)
    BY <1>1, <1>2, <1>3 DEF FirstRequest, Mine
  <2>2. CASE q = p
    BY <1>1, <1>2, <1>3, <1>6, <2>1, <2>2 DEF SentOnce, FirstRequest
  <2>3. CASE q # p
    <3>1. job[q].at \in {"sending", "wire", "publish", "failed"} => r \notin job[p].request
      BY <1>1, <2>1, <2>3 DEF SentOnce, OnTheWay
    <3>2. open[r] \in Int  BY DEF BackfillTypes
    <3> QED  BY <1>1, <1>3, <1>6, <2>1, <2>3, <3>1, <3>2 DEF SentOnce
  <2> QED  BY <2>2, <2>3
<1>9. NeverResent'
  <2> SUFFICES ASSUME NEW r \in Leaves, open'[r] > 0
               PROVE  r \in embedded \/ inflight[r].state \in {"dispatched", "uncertain"}
    BY <1>1 DEF NeverResent
  <2>1. CASE r \in job[p].request  BY <1>5, <2>1
  <2>2. CASE r \notin job[p].request
    <3>1. open'[r] = open[r]  BY <1>1, <2>2 DEF BackfillTypes
    <3> QED  BY <3>1 DEF NeverResent
  <2> QED  BY <2>1, <2>2
<1> QED  BY <1>1, <1>3, <1>4, <1>7, <1>8, <1>9 DEF EmbeddedIsDone

LEMMA AnswerInv ==
    ASSUME BackfillInv, NEW p \in Backfillers, Answer(p)
    PROVE  BackfillInv'
<1> USE DEF BackfillInv
<1> DEFINE failed(fate) == [job[p] EXCEPT !.at = "failed", !.fate = fate]
           arrived == [job[p] EXCEPT !.at = "publish"]
<1>1. /\ job[p].at = "wire" /\ UNCHANGED <<claimant, inflight, embedded, runs>>
      /\ job[p] \in Jobs /\ job \in [Backfillers -> Jobs]
  BY DEF Answer, BackfillTypes
<1>2. PICK j \in {arrived, failed("rejected"), failed("unknown")} :
        /\ job' = [job EXCEPT ![p] = j]
        /\ IF j = failed("rejected")
           THEN open' = [r \in Leaves |-> open[r] - (IF r \in job[p].request THEN 1 ELSE 0)]
           ELSE open' = open
  <2>1. CASE job' = [job EXCEPT ![p] = arrived] /\ UNCHANGED open
    <3>1. arrived # failed("rejected")
      <4>1. arrived.at = "publish" /\ failed("rejected").at = "failed"  BY <1>1 DEF Jobs
      <4> QED  BY <4>1
    <3> QED  BY <2>1, <3>1
  <2>2. CASE /\ job' = [job EXCEPT ![p] = failed("rejected")]
             /\ open' = [r \in Leaves |-> open[r] - (IF r \in job[p].request THEN 1 ELSE 0)]
    BY <2>2
  <2>3. CASE job' = [job EXCEPT ![p] = failed("unknown")] /\ UNCHANGED open
    <3>1. failed("unknown") # failed("rejected")
      <4>1. failed("unknown").fate = "unknown" /\ failed("rejected").fate = "rejected"
        BY <1>1 DEF Jobs
      <4> QED  BY <4>1
    <3> QED  BY <2>3, <3>1
  <2> QED  BY <1>1, <2>1, <2>2, <2>3 DEF Answer, Goes, BackfillTypes
<1>3. /\ j \in Jobs /\ j.at \in {"publish", "failed"} /\ j.run = job[p].run
      /\ j.todo = job[p].todo /\ j.batch = job[p].batch /\ j.request = job[p].request
      /\ j.asked = job[p].asked
      /\ j.at = "failed" /\ j.fate = "rejected" => j = failed("rejected")
  BY ZenonT(30), <1>1, <1>2 DEF Jobs
<1>4. /\ RunsDiffer' /\ HolderIsAlone' /\ job' \in [Backfillers -> Jobs] /\ job'[p] = j
      /\ \A q \in Backfillers \ {p} : job'[q] = job[q]
  BY <1>1, <1>2, <1>3, RunGoesOn DEF HolderIsAlone, Ahead
<1>5. /\ open' \in [Leaves -> Int]
      /\ \A r \in Leaves : /\ r \notin job[p].request => open'[r] = open[r]
                           /\ open'[r] \in {open[r], open[r] - 1}
                           /\ r \in job[p].request /\ j = failed("rejected") =>
                                 open'[r] = open[r] - 1
  BY <1>2 DEF BackfillTypes
<1>6. BackfillTypes'  BY <1>1, <1>4, <1>5 DEF BackfillTypes
<1>7. \A q \in Backfillers, r \in Leaves :
         OnTheWay(job'[q], r) => OnTheWay(job[q], r) /\ q # p
  BY <1>3, <1>4 DEF OnTheWay
<1>8. MarkedFirst'
  <2> SUFFICES ASSUME NEW r \in Leaves \ embedded, inflight[r].state \in {"none", "claimed"}
               PROVE  open'[r] = 0 /\ \A q \in Backfillers : ~OnTheWay(job'[q], r)
    BY <1>1 DEF MarkedFirst
  <2>1. open[r] = 0 /\ \A q \in Backfillers : ~OnTheWay(job[q], r)  BY DEF MarkedFirst
  <2>2. r \notin job[p].request  BY <1>1, <2>1 DEF OnTheWay
  <2> QED  BY <1>5, <1>7, <2>1, <2>2
<1>9. SentOnce'
  <2> SUFFICES ASSUME NEW q \in Backfillers, NEW r \in Leaves, FirstRequest(q, r)'
               PROVE  /\ job'[q].at \in {"sending", "wire", "publish", "failed"} =>
                            \A u \in Backfillers \ {q} : ~OnTheWay(job'[u], r)
                      /\ job'[q].at = "wire" => open'[r] = 1
                      /\ job'[q].at = "sending" => open'[r] = 0
                      /\ job'[q].at = "failed" /\ job'[q].fate = "rejected" => open'[r] = 0
    BY <1>1 DEF SentOnce
  <2>1. FirstRequest(q, r)
    BY <1>1, <1>3, <1>4 DEF FirstRequest, Mine
  <2>2. CASE q = p
    <3>1. open[r] = 1 /\ \A u \in Backfillers \ {p} : ~OnTheWay(job[u], r)
      BY <1>1, <2>1, <2>2 DEF SentOnce
    <3> QED  BY <1>3, <1>4, <1>5, <1>7, <2>1, <2>2, <3>1 DEF FirstRequest
  <2>3. CASE q # p
    <3>1. job[q].at \in {"sending", "wire", "publish", "failed"} => r \notin job[p].request
      BY <1>1, <2>1, <2>3 DEF SentOnce, OnTheWay
    <3> QED  BY <1>4, <1>5, <1>7, <2>1, <2>3, <3>1 DEF SentOnce
  <2> QED  BY <2>2, <2>3
<1>10. NeverResent'
  <2> SUFFICES ASSUME NEW r \in Leaves, open'[r] > 0
               PROVE  r \in embedded \/ inflight[r].state \in {"dispatched", "uncertain"}
    BY <1>1 DEF NeverResent
  <2>1. open[r] > 0  BY <1>5 DEF BackfillTypes
  <2> QED  BY <2>1 DEF NeverResent
<1> QED  BY <1>1, <1>4, <1>6, <1>8, <1>9, <1>10 DEF EmbeddedIsDone

\* What a step of p that puts nothing on the way may do to a row.
Eased(p, r) ==
    \/ inflight'[r] = inflight[r]
    \/ /\ inflight[r].state \in {"dispatched", "uncertain"}
       /\ inflight'[r].state = "uncertain"
    \/ /\ inflight[r].state \in {"none", "claimed"}
       /\ inflight'[r].state \in {"none", "claimed"}
    \/ /\ FirstRequest(p, r)
       /\ job[p].at = "failed" /\ job[p].fate = "rejected"
       /\ inflight'[r] = Free

LEMMA RowsEase ==
    ASSUME BackfillInv, NEW p \in Backfillers, NEW j \in Jobs,
           job' = [job EXCEPT ![p] = j],
           j.at \notin {"sending", "wire", "publish"},
           j.at = "failed" => /\ job[p].at = "publish" /\ j.fate # "rejected"
                              /\ j.request = job[p].request /\ j.asked = job[p].asked
                              /\ j.run = job[p].run,
           RunsDiffer', HolderIsAlone', job' \in [Backfillers -> Jobs],
           claimant' \in Nat, claimant' <= runs,
           UNCHANGED <<open, runs>>,
           embedded' \subseteq Leaves, embedded \subseteq embedded',
           inflight' \in [Leaves -> [state : RowStates, run : Nat, numbered : BOOLEAN]],
           EmbeddedIsDone',
           \A r \in Leaves \ embedded' : Eased(p, r)
    PROVE  BackfillInv'
<1> USE DEF BackfillInv
<1>1. job'[p] = j /\ \A q \in Backfillers \ {p} : job'[q] = job[q]
  BY DEF BackfillTypes
<1>2. BackfillTypes'  BY DEF BackfillTypes
<1>3. \A q \in Backfillers, r \in Leaves :
         OnTheWay(job'[q], r) => OnTheWay(job[q], r) /\ q # p
  BY <1>1 DEF OnTheWay
<1>4. ASSUME NEW r \in Leaves, FirstRequest(p, r), job[p].at = "failed",
             job[p].fate = "rejected"
      PROVE  open[r] = 0 /\ \A q \in Backfillers \ {p} : ~OnTheWay(job[q], r)
  BY <1>4 DEF SentOnce
<1>5. MarkedFirst'
  <2> SUFFICES ASSUME NEW r \in Leaves \ embedded', inflight'[r].state \in {"none", "claimed"}
               PROVE  open[r] = 0 /\ \A q \in Backfillers : ~OnTheWay(job'[q], r)
    BY DEF MarkedFirst
  <2>1. CASE inflight[r].state \in {"none", "claimed"}
    BY <1>3, <2>1 DEF MarkedFirst
  <2>2. CASE inflight[r].state \notin {"none", "claimed"}
    <3>1. FirstRequest(p, r) /\ job[p].at = "failed" /\ job[p].fate = "rejected"
      BY <2>2 DEF Eased
    <3> QED  BY <1>3, <1>4, <3>1
  <2> QED  BY <2>1, <2>2
<1>6. SentOnce'
  <2> SUFFICES ASSUME NEW q \in Backfillers, NEW r \in Leaves, FirstRequest(q, r)'
               PROVE  /\ job'[q].at \in {"sending", "wire", "publish", "failed"} =>
                            \A u \in Backfillers \ {q} : ~OnTheWay(job'[u], r)
                      /\ job'[q].at = "wire" => open[r] = 1
                      /\ job'[q].at = "sending" => open[r] = 0
                      /\ job'[q].at = "failed" /\ job'[q].fate = "rejected" => open[r] = 0
    BY DEF SentOnce
  <2>1. r \notin embedded' /\ inflight'[r] = inflight[r]
    BY DEF FirstRequest, EmbeddedIsDone, Free, Eased
  <2>2. CASE q # p
    <3>1. FirstRequest(q, r)  BY <1>1, <2>1, <2>2 DEF FirstRequest, Mine
    <3> QED  BY <1>1, <1>3, <2>2, <3>1 DEF SentOnce
  <2>3. CASE q = p /\ j.at = "failed"
    <3>1. FirstRequest(p, r)  BY <1>1, <2>1, <2>3 DEF FirstRequest, Mine
    <3> QED  BY <1>1, <1>3, <2>3, <3>1 DEF SentOnce
  <2>4. CASE q = p /\ j.at # "failed"  BY <1>1, <2>4
  <2> QED  BY <2>2, <2>3, <2>4
<1>7. NeverResent'
  <2> SUFFICES ASSUME NEW r \in Leaves \ embedded', open[r] > 0
               PROVE  inflight'[r].state \in {"dispatched", "uncertain"}
    BY DEF NeverResent
  <2>1. inflight[r].state \in {"dispatched", "uncertain"}  BY DEF NeverResent
  <2> QED  BY <1>4, <2>1 DEF Eased
<1> QED  BY <1>2, <1>5, <1>6, <1>7

LEMMA RecoverInv ==
    ASSUME BackfillInv, NEW p \in Backfillers, Recover(p), Holds(p)
    PROVE  BackfillInv'
<1> USE DEF BackfillInv
<1> DEFINE j == [job[p] EXCEPT !.at = "discover"]
<1>1. /\ job[p].at = "recover" /\ job' = [job EXCEPT ![p] = j] /\ inflight' = Recovered(p)
      /\ UNCHANGED <<claimant, embedded, open, runs>>
  BY DEF Recover, Goes
<1>2. /\ j \in Jobs /\ j.at = "discover" /\ j.run = job[p].run /\ j.todo = job[p].todo
      /\ j.batch = job[p].batch /\ j.request = job[p].request
  BY JobTypes DEF Jobs
<1>3. RunsDiffer' /\ HolderIsAlone' /\ job' \in [Backfillers -> Jobs]
      /\ claimant' \in Nat /\ claimant' <= runs
  BY <1>1, <1>2, RunGoesOn DEF HolderIsAlone, Ahead
<1>4. ASSUME NEW r \in Leaves
      PROVE  /\ inflight'[r] \in [state : RowStates, run : Nat, numbered : BOOLEAN]
             /\ Eased(p, r)
             /\ inflight[r] = Free => inflight'[r] = Free
  <2> DEFINE row == inflight[r]
  <2>1. row \in [state : RowStates, run : Nat, numbered : BOOLEAN]  BY DEF BackfillTypes
  <2>2. CASE inflight'[r] = row  BY <2>1, <2>2 DEF Eased
  <2>3. CASE row.state = "claimed" /\ inflight'[r] = Free
    BY <2>1, <2>3 DEF Eased, Free, RowStates, NoRun
  <2>4. CASE row.state = "dispatched" /\ inflight'[r] = [row EXCEPT !.state = "uncertain"]
    BY <2>1, <2>4 DEF Eased, Free, RowStates
  <2> QED  BY <1>1, <2>2, <2>3, <2>4 DEF Recovered
<1>5. EmbeddedIsDone'  BY <1>1, <1>4 DEF EmbeddedIsDone, BackfillTypes
<1>6. inflight' \in [Leaves -> [state : RowStates, run : Nat, numbered : BOOLEAN]]
  BY <1>1, <1>4 DEF Recovered
<1>7. embedded' \subseteq Leaves  BY <1>1 DEF BackfillTypes
<1> QED  BY <1>1, <1>2, <1>3, <1>4, <1>5, <1>6, <1>7, RowsEase

RowTypes == [state : RowStates, run : Nat, numbered : BOOLEAN]

(* What a run finds out when its lease is gone, or a row is not as it      *)
(* expected: it stops, and its rows stay.                                  *)
LEMMA Stops ==
    ASSUME BackfillInv, NEW p \in Backfillers, NEW at \in {"lost", "end", "next"},
           job[p].at # "off", job' = [job EXCEPT ![p].at = at],
           UNCHANGED <<claimant, inflight, embedded, open, runs>>
    PROVE  BackfillInv'
<1> DEFINE j == [job[p] EXCEPT !.at = at]
<1>1. /\ j \in Jobs /\ j.run = job[p].run /\ j.todo = job[p].todo /\ j.batch = job[p].batch
      /\ j.request = job[p].request /\ j.at \in {"lost", "end", "next"}
  BY JobTypes DEF Jobs
<1>2. job' = [job EXCEPT ![p] = j]
  BY DEF BackfillInv, BackfillTypes
<1>3. Ahead(j) \cap j.request = {} /\ j.todo \cap j.batch = {}
      /\ Ahead(j) \cap embedded \subseteq Ahead(job[p])
  BY <1>1 DEF BackfillInv, HolderIsAlone, Ahead
<1> QED  BY <1>1, <1>2, <1>3, JobMoves

LEMMA DoubtfulRows ==
    ASSUME BackfillInv, NEW p \in Backfillers, inflight' = Doubtful(p)
    PROVE  /\ inflight' \in [Leaves -> RowTypes]
           /\ \A r \in Leaves : Eased(p, r)
           /\ \A r \in embedded : inflight'[r] = Free
<1> USE DEF BackfillInv
<1>1. ASSUME NEW r \in Leaves
      PROVE  /\ inflight'[r] \in RowTypes
             /\ Eased(p, r)
             /\ inflight[r] = Free => inflight'[r] = Free
  <2>1. inflight[r] \in RowTypes  BY DEF BackfillTypes, RowTypes
  <2>2. CASE Sent(p, r) /\ inflight'[r] = [inflight[r] EXCEPT !.state = "uncertain"]
    BY <2>1, <2>2 DEF Sent, Eased, Free, RowTypes, RowStates
  <2>3. CASE inflight'[r] = inflight[r]  BY <2>1, <2>3 DEF Eased
  <2> QED  BY <2>2, <2>3 DEF Doubtful, Becomes
<1> QED  BY <1>1 DEF Doubtful, Becomes, EmbeddedIsDone, BackfillTypes

LEMMA SettleBatchInv ==
    ASSUME BackfillInv, NEW p \in Backfillers, SettleBatch(p), Holds(p)
    PROVE  BackfillInv'
<1> USE DEF BackfillInv
<1> DEFINE b == job[p]
           j == [b EXCEPT !.at = "batch", !.request = {},
                          !.fate = IF b.fate = "none" THEN "unknown" ELSE b.fate]
<1>1. /\ b.at = "failed" /\ job' = [job EXCEPT ![p] = j]
      /\ inflight' = IF b.fate = "rejected" THEN Rejected(p) ELSE Doubtful(p)
      /\ UNCHANGED <<claimant, embedded, open, runs>>
  BY DEF SettleBatch, BackfillTypes
<1>2. /\ j \in Jobs /\ j.at = "batch" /\ j.run = b.run /\ j.todo = b.todo
      /\ j.batch = b.batch /\ j.request = {}
  BY JobTypes DEF Jobs
<1>3. RunsDiffer' /\ HolderIsAlone' /\ job' \in [Backfillers -> Jobs]
      /\ claimant' \in Nat /\ claimant' <= runs
  BY ZenonT(30), <1>1, <1>2, RunGoesOn DEF HolderIsAlone, Ahead
<1>4. /\ inflight' \in [Leaves -> RowTypes]
      /\ \A r \in Leaves : Eased(p, r)
      /\ \A r \in embedded : inflight'[r] = Free
  <2>1. CASE b.fate # "rejected"  BY <1>1, <2>1, DoubtfulRows
  <2>2. CASE b.fate = "rejected"
    <3>1. ASSUME NEW r \in Leaves
          PROVE  /\ inflight'[r] \in RowTypes
                 /\ Eased(p, r)
                 /\ inflight[r] = Free => inflight'[r] = Free
      <4> DEFINE row == inflight[r]
                 again == [row EXCEPT !.state = "uncertain", !.numbered = FALSE]
      <4>1. row \in RowTypes  BY DEF BackfillTypes, RowTypes
      <4>2. again \in RowTypes /\ again.state = "uncertain"
        BY <4>1 DEF RowTypes, RowStates
      <4>3. Free \in RowTypes /\ Free.state = "none"
        BY DEF Free, RowTypes, RowStates, NoRun
      <4>4. inflight'[r] = IF ~(r \in b.request /\ Sent(p, r)) THEN row
                          ELSE IF r \in b.asked THEN again ELSE Free
        <5>1. inflight'[r] = Rejected(p)[r]  BY <1>1, <2>2
        <5>2. r \in {s \in b.request : Sent(p, s)} <=> r \in b.request /\ Sent(p, r)
          OBVIOUS
        <5>3. Rejected(p)[r] = IF r \notin {s \in b.request : Sent(p, s)} THEN row
                               ELSE IF r \in b.asked THEN again ELSE Free
          BY Zenon DEF Rejected
        <5> QED  BY <5>1, <5>2, <5>3, Zenon
      <4>5. CASE ~(r \in b.request /\ Sent(p, r))
        BY <4>1, <4>4, <4>5 DEF Eased
      <4>6. CASE r \in b.request /\ Sent(p, r)
        <5>1. row.state = "dispatched" /\ row # Free  BY <4>3, <4>6 DEF Sent
        <5>2. CASE r \in b.asked  BY <4>2, <4>4, <4>6, <5>1, <5>2 DEF Eased
        <5>3. CASE r \notin b.asked
          <6>1. FirstRequest(p, r)  BY <4>6, <5>3 DEF FirstRequest, Sent
          <6> QED  BY <1>1, <2>2, <4>3, <4>4, <4>6, <5>1, <5>3, <6>1 DEF Eased
        <5> QED  BY <5>2, <5>3
      <4> QED  BY <4>5, <4>6
    <3> QED  BY <1>1, <2>2, <3>1 DEF Rejected, EmbeddedIsDone, BackfillTypes
  <2> QED  BY <2>1, <2>2
<1>5. EmbeddedIsDone'  BY <1>1, <1>4 DEF EmbeddedIsDone
<1>6. embedded' \subseteq Leaves  BY <1>1 DEF BackfillTypes
<1> QED  BY <1>1, <1>2, <1>3, <1>4, <1>5, <1>6, RowsEase DEF RowTypes

LEMMA UnclaimInv ==
    ASSUME BackfillInv, NEW p \in Backfillers, Unclaim(p), Holds(p)
    PROVE  BackfillInv'
<1> USE DEF BackfillInv
<1> DEFINE b == job[p]
<1>1. PICK r \in b.batch :
        /\ inflight' = IF /\ r \notin b.asked /\ Mine(p, r)
                          /\ inflight[r].state = "claimed"
                       THEN [inflight EXCEPT ![r] = Free] ELSE inflight
        /\ job' = [job EXCEPT ![p].batch = @ \ {r},
                              ![p].fate = IF @ = "none" THEN "skipped" ELSE @]
  BY DEF Unclaim
<1> DEFINE j == [b EXCEPT !.batch = b.batch \ {r},
                          !.fate = IF b.fate = "none" THEN "skipped" ELSE b.fate]
<1>2. /\ b.at = "batch" /\ job' = [job EXCEPT ![p] = j] /\ b.request = {}
      /\ UNCHANGED <<claimant, embedded, open, runs>> /\ b.batch \subseteq Leaves
  BY <1>1, JobTypes DEF Unclaim, BackfillTypes, HolderIsAlone, Jobs
<1>3. /\ j \in Jobs /\ j.at = "batch" /\ j.run = b.run /\ j.todo = b.todo
      /\ j.batch = b.batch \ {r} /\ j.request = b.request
  BY <1>2, JobTypes DEF Jobs
<1>4. RunsDiffer' /\ HolderIsAlone' /\ job' \in [Backfillers -> Jobs]
      /\ claimant' \in Nat /\ claimant' <= runs
  <2>1. Ahead(j) \subseteq Ahead(b) /\ j.todo \cap j.batch = {}
    BY <1>3 DEF Ahead, HolderIsAlone
  <2>2. Ahead(b) \cap embedded = {}  BY DEF HolderIsAlone
  <2> QED  BY <1>2, <1>3, <2>1, <2>2, RunGoesOn
<1>5. Free \in RowTypes /\ Free.state = "none"  BY DEF Free, RowTypes, RowStates, NoRun
<1>6. /\ inflight' \in [Leaves -> RowTypes]
      /\ \A s \in Leaves : Eased(p, s)
      /\ \A s \in embedded : inflight'[s] = Free
  BY <1>1, <1>2, <1>5 DEF BackfillTypes, RowTypes, Eased, EmbeddedIsDone
<1>7. EmbeddedIsDone'  BY <1>2, <1>6 DEF EmbeddedIsDone
<1>8. embedded' \subseteq Leaves  BY <1>2 DEF BackfillTypes
<1> QED  BY <1>2, <1>3, <1>4, <1>6, <1>7, <1>8, RowsEase DEF RowTypes

LEMMA ReserveInv ==
    ASSUME BackfillInv, NEW p \in Backfillers, Reserve(p), Holds(p)
    PROVE  BackfillInv'
<1> USE DEF BackfillInv
<1> DEFINE b == job[p]
<1>1. b.at = "reserve" /\ b \in Jobs /\ UNCHANGED <<claimant, embedded, open, runs>>
  BY JobTypes DEF Reserve
<1>2. PICK batch \in SUBSET b.todo :
        \/ Goes(p, "end") /\ UNCHANGED inflight
        \/ /\ \A r \in batch : inflight[r].state =
                              (IF r \in b.asked THEN "uncertain" ELSE "none")
           /\ inflight' = Reserved(p, batch)
           /\ job' = [job EXCEPT ![p].at = "batch", ![p].batch = batch,
                                 ![p].request = {}, ![p].fate = "none",
                                 ![p].todo = @ \ batch]
  BY DEF Reserve
<1>3. CASE Goes(p, "end") /\ UNCHANGED inflight
  BY <1>1, <1>3, Stops DEF Goes
<1>4. CASE /\ \A r \in batch : inflight[r].state =
                              (IF r \in b.asked THEN "uncertain" ELSE "none")
           /\ inflight' = Reserved(p, batch)
           /\ job' = [job EXCEPT ![p].at = "batch", ![p].batch = batch,
                                 ![p].request = {}, ![p].fate = "none",
                                 ![p].todo = @ \ batch]
  <2> DEFINE j == [b EXCEPT !.at = "batch", !.batch = batch, !.request = {},
                            !.fate = "none", !.todo = b.todo \ batch]
  <2>1. job' = [job EXCEPT ![p] = j]  BY <1>4 DEF BackfillTypes
  <2>2. /\ j \in Jobs /\ j.at = "batch" /\ j.run = b.run /\ j.todo = b.todo \ batch
        /\ j.batch = batch /\ j.request = {}
    BY <1>1 DEF Jobs
  <2>3. b.todo \cap embedded = {}  BY DEF HolderIsAlone, Ahead
  <2>4. RunsDiffer' /\ HolderIsAlone' /\ job' \in [Backfillers -> Jobs]
        /\ claimant' \in Nat /\ claimant' <= runs
    <3>1. Ahead(j) \subseteq b.todo /\ j.todo \cap j.batch = {}  BY <2>2 DEF Ahead
    <3> QED  BY <1>1, <2>1, <2>2, <2>3, <3>1, RunGoesOn
  <2>5. ASSUME NEW r \in Leaves
        PROVE  /\ inflight'[r] \in RowTypes
               /\ Eased(p, r)
               /\ r \in embedded => inflight'[r] = inflight[r]
    <3> DEFINE row == inflight[r]
               again == [row EXCEPT !.run = b.run, !.numbered = FALSE]
               claimed == [state |-> "claimed", run |-> b.run, numbered |-> FALSE]
    <3>1. row \in RowTypes /\ b.run \in Nat  BY <1>1 DEF BackfillTypes, RowTypes, Jobs
    <3>2. again \in RowTypes /\ again.state = row.state  BY <3>1 DEF RowTypes
    <3>3. claimed \in RowTypes /\ claimed.state = "claimed"  BY <3>1 DEF RowTypes, RowStates
    <3>4. inflight'[r] = IF r \notin batch THEN row
                        ELSE IF r \in b.asked THEN again ELSE claimed
      BY <1>4 DEF Reserved
    <3> HIDE DEF again, claimed
    <3> QED  BY <1>4, <2>3, <3>1, <3>2, <3>3, <3>4 DEF Eased
  <2>6. inflight' \in [Leaves -> RowTypes]  BY <1>4, <2>5 DEF Reserved
  <2>7. EmbeddedIsDone'
    <3> SUFFICES ASSUME NEW r \in embedded PROVE inflight'[r] = Free
      BY <1>1 DEF EmbeddedIsDone
    <3> QED  BY <2>5 DEF EmbeddedIsDone, BackfillTypes
  <2>8. embedded' \subseteq Leaves  BY <1>1 DEF BackfillTypes
  <2> QED  BY <1>1, <2>1, <2>2, <2>4, <2>5, <2>6, <2>7, <2>8, RowsEase DEF RowTypes
<1> QED  BY <1>2, <1>3, <1>4

LEMMA BackfillPublishInv ==
    ASSUME BackfillInv, NEW p \in Backfillers, Publish(p)
    PROVE  BackfillInv'
<1> USE DEF BackfillInv
<1> DEFINE b == job[p]
<1>1. /\ b.at = "publish" /\ b \in Jobs /\ UNCHANGED <<open, runs>>
      /\ Ahead(b) \cap b.request = {} /\ b.todo \cap b.batch = {}
      /\ embedded \subseteq Leaves /\ b.request \subseteq Leaves
  BY JobTypes DEF Publish, HolderIsAlone, BackfillTypes, Jobs
<1>2. CASE /\ ~Publishable(p) /\ Goes(p, "lost")
           /\ UNCHANGED <<inflight, embedded, claimant>>
  BY <1>1, <1>2, Stops DEF Goes
<1>3. CASE /\ Publishable(p) /\ ~profiled /\ inflight' = Doubtful(p)
           /\ claimant' = NoRun /\ Goes(p, "lost") /\ UNCHANGED embedded
  <2> DEFINE j == [b EXCEPT !.at = "lost"]
  <2>1. job' = [job EXCEPT ![p] = j]  BY <1>3 DEF Goes
  <2>2. /\ j \in Jobs /\ j.at = "lost" /\ j.run = b.run /\ j.todo = b.todo
        /\ j.batch = b.batch /\ j.request = b.request
    BY <1>1 DEF Jobs
  <2>3. RunsDiffer' /\ HolderIsAlone' /\ job' \in [Backfillers -> Jobs]
        /\ claimant' \in Nat /\ claimant' <= runs
    BY <1>1, <1>3, <2>1, <2>2, RunGoesOn DEF HolderIsAlone, Ahead
  <2>4. EmbeddedIsDone'  BY <1>3, DoubtfulRows DEF EmbeddedIsDone
  <2> QED  BY <1>1, <1>3, <2>1, <2>2, <2>3, <2>4, DoubtfulRows, RowsEase DEF RowTypes
<1>4. CASE /\ Publishable(p) /\ profiled /\ UNCHANGED claimant
           /\ \E done \in SUBSET b.request :
                /\ embedded' = embedded \cup done
                /\ inflight' = Published(p, done)
                /\ job' = IF done = b.request
                          THEN [job EXCEPT ![p].at = "batch", ![p].request = {}]
                          ELSE [job EXCEPT ![p].at = "failed", ![p].fate = "unknown"]
  <2>1. PICK done \in SUBSET b.request :
                /\ embedded' = embedded \cup done
                /\ inflight' = Published(p, done)
                /\ job' = IF done = b.request
                          THEN [job EXCEPT ![p].at = "batch", ![p].request = {}]
                          ELSE [job EXCEPT ![p].at = "failed", ![p].fate = "unknown"]
    BY <1>4
  <2> DEFINE whole == [b EXCEPT !.at = "batch", !.request = {}]
             part == [b EXCEPT !.at = "failed", !.fate = "unknown"]
             j == IF done = b.request THEN whole ELSE part
  <2>2. /\ whole \in Jobs /\ whole.at = "batch" /\ whole.run = b.run /\ whole.todo = b.todo
        /\ whole.batch = b.batch /\ whole.request = {}
        /\ part \in Jobs /\ part.at = "failed" /\ part.run = b.run /\ part.todo = b.todo
        /\ part.batch = b.batch /\ part.request = b.request /\ part.asked = b.asked
        /\ part.fate = "unknown"
    BY <1>1 DEF Jobs
  <2>3. job' = [job EXCEPT ![p] = j]  BY <2>1 DEF BackfillTypes
  <2>4. /\ j \in Jobs /\ j.at \in {"batch", "failed"} /\ j.run = b.run /\ j.todo = b.todo
        /\ j.batch = b.batch /\ j.request \in {{}, b.request}
        /\ j.at = "batch" => j.request = {}
        /\ j.at = "failed" => /\ j.request = b.request /\ j.asked = b.asked
                              /\ j.fate = "unknown"
    <3> HIDE DEF whole, part
    <3> QED  BY <2>2
  <2>5. RunsDiffer' /\ HolderIsAlone' /\ job' \in [Backfillers -> Jobs]
        /\ claimant' \in Nat /\ claimant' <= runs
    <3> HIDE DEF j
    <3>1. Holds(p) /\ Ahead(j) = Ahead(b)  BY <1>4, <2>4 DEF Publishable, Ahead
    <3>2. Ahead(b) \cap embedded' = {}  BY <1>1, <2>1, <3>1 DEF HolderIsAlone
    <3> QED  BY <1>1, <1>4, <2>3, <2>4, <3>1, <3>2, RunGoesOn
  <2>6. Free \in RowTypes  BY DEF Free, RowTypes, RowStates, NoRun
  <2>7. /\ inflight' \in [Leaves -> RowTypes]
        /\ \A r \in Leaves \ embedded' : Eased(p, r)
        /\ \A r \in embedded' : inflight'[r] = Free
    BY <1>1, <2>1, <2>6 DEF Published, BackfillTypes, RowTypes, Eased, EmbeddedIsDone
  <2>8. EmbeddedIsDone'  BY <2>7 DEF EmbeddedIsDone
  <2>9. embedded' \subseteq Leaves /\ embedded \subseteq embedded'  BY <1>1, <2>1
  <2> HIDE DEF j
  <2> QED  BY <1>1, <2>3, <2>4, <2>5, <2>7, <2>8, <2>9, RowsEase DEF RowTypes
<1> QED  BY <1>2, <1>3, <1>4 DEF Publish

LEMMA DispatchInv ==
    ASSUME BackfillInv, NEW p \in Backfillers, Dispatch(p)
    PROVE  BackfillInv'
<1> USE DEF BackfillInv
<1> DEFINE b == job[p]
<1>1. /\ b.at = "batch" /\ b.fate = "none" /\ b \in Jobs /\ b.request = {}
      /\ UNCHANGED <<claimant, embedded, open, runs>>
      /\ b.todo \cap b.batch = {} /\ b.batch \subseteq Leaves
  BY JobTypes DEF Dispatch, HolderIsAlone, Jobs
<1>2. PICK S \in SUBSET b.batch \ {{}} :
        IF Holds(p) /\ Announceable(p, S)
        THEN /\ inflight' = [r \in Leaves |-> IF r \in S
                   THEN [inflight[r] EXCEPT !.state = "dispatched", !.numbered = TRUE]
                   ELSE inflight[r]]
             /\ job' = [job EXCEPT ![p].at = "sending", ![p].request = S,
                                   ![p].batch = @ \ S]
        ELSE Goes(p, "failed") /\ UNCHANGED inflight
  BY DEF Dispatch
<1>3. CASE Goes(p, "failed") /\ UNCHANGED inflight
  <2> DEFINE j == [b EXCEPT !.at = "failed"]
  <2>1. job' = [job EXCEPT ![p] = j]  BY <1>3 DEF Goes, BackfillTypes
  <2>2. /\ j \in Jobs /\ j.at = "failed" /\ j.run = b.run /\ j.todo = b.todo
        /\ j.batch = b.batch /\ j.request = {} /\ j.asked = b.asked /\ j.fate = "none"
    BY <1>1 DEF Jobs
  <2> QED  BY <1>1, <1>3, <2>1, <2>2, JobMoves DEF Ahead
<1>4. CASE /\ Holds(p) /\ Announceable(p, S)
           /\ inflight' = [r \in Leaves |-> IF r \in S
                   THEN [inflight[r] EXCEPT !.state = "dispatched", !.numbered = TRUE]
                   ELSE inflight[r]]
           /\ job' = [job EXCEPT ![p].at = "sending", ![p].request = S,
                                 ![p].batch = @ \ S]
  <2> DEFINE j == [b EXCEPT !.at = "sending", !.request = S, !.batch = b.batch \ S]
  <2>1. job' = [job EXCEPT ![p] = j]  BY <1>4 DEF BackfillTypes
  <2>2. /\ j \in Jobs /\ j.at = "sending" /\ j.run = b.run /\ j.todo = b.todo
        /\ j.batch = b.batch \ S /\ j.request = S /\ j.asked = b.asked
    BY <1>1 DEF Jobs
  <2>3. Ahead(b) \cap embedded = {}  BY <1>4 DEF HolderIsAlone
  <2>4. /\ RunsDiffer' /\ HolderIsAlone' /\ job' \in [Backfillers -> Jobs] /\ job'[p] = j
        /\ \A q \in Backfillers \ {p} : job'[q] = job[q]
    <3>1. /\ Ahead(j) \cap j.request = {} /\ j.todo \cap j.batch = {}
          /\ Ahead(j) \subseteq Ahead(b)
      BY <1>1, <2>2 DEF Ahead
    <3> QED  BY <1>1, <2>1, <2>2, <2>3, <3>1, RunGoesOn
  <2>5. /\ inflight' \in [Leaves -> RowTypes]
        /\ \A r \in S : /\ inflight'[r].state = "dispatched"
                        /\ inflight'[r].run = inflight[r].run
        /\ \A r \in Leaves \ S : inflight'[r] = inflight[r]
    <3>1. \A w \in RowTypes :
             LET sent == [w EXCEPT !.state = "dispatched", !.numbered = TRUE]
             IN  sent \in RowTypes /\ sent.state = "dispatched" /\ sent.run = w.run
      BY DEF RowTypes, RowStates
    <3>2. inflight \in [Leaves -> RowTypes]  BY DEF BackfillTypes, RowTypes
    <3> QED  BY <1>1, <1>4, <3>1, <3>2
  <2>6. \A r \in S : /\ r \in Leaves \ embedded /\ Mine(p, r)
                     /\ r \notin b.asked => inflight[r].state = "claimed"
    BY <1>1, <1>4, <2>3 DEF Announceable, Ahead
  <2>7. BackfillTypes'
    BY <1>1, <2>4, <2>5 DEF BackfillTypes, RowTypes
  <2>8. EmbeddedIsDone'
    <3>1. embedded \subseteq Leaves \ S  BY <2>6 DEF BackfillTypes
    <3> QED  BY <1>1, <2>5, <3>1 DEF EmbeddedIsDone
  <2>9. \A q \in Backfillers, r \in Leaves \ S : OnTheWay(job'[q], r) => OnTheWay(job[q], r)
    BY <2>2, <2>4 DEF OnTheWay
  <2>10. MarkedFirst'
    BY <1>1, <2>5, <2>9 DEF MarkedFirst
  <2>11. SentOnce'
    <3> SUFFICES ASSUME NEW q \in Backfillers, NEW r \in Leaves, FirstRequest(q, r)'
                 PROVE  /\ job'[q].at \in {"sending", "wire", "publish", "failed"} =>
                              \A u \in Backfillers \ {q} : ~OnTheWay(job'[u], r)
                        /\ job'[q].at = "wire" => open[r] = 1
                        /\ job'[q].at = "sending" => open[r] = 0
                        /\ job'[q].at = "failed" /\ job'[q].fate = "rejected" => open[r] = 0
      BY <1>1 DEF SentOnce
    <3>1. CASE q = p
      <4>1. r \in S /\ r \notin b.asked  BY <2>2, <2>4, <3>1 DEF FirstRequest
      <4>2. open[r] = 0 /\ \A u \in Backfillers : ~OnTheWay(job[u], r)
        <5>1. r \in Leaves \ embedded /\ inflight[r].state \in {"none", "claimed"}
          BY <2>6, <4>1
        <5> QED  BY <5>1 DEF MarkedFirst
      <4> QED  BY <2>2, <2>4, <3>1, <4>2
    <3>2. CASE q # p
      <4>1. job[q].at # "off"
        BY <2>4, <3>2 DEF RunsDiffer, FirstRequest, Off
      <4>2. r \notin S
        <5>1. job[q].run # b.run  BY <1>1, <3>2, <4>1 DEF RunsDiffer
        <5>2. inflight'[r].run = job[q].run  BY <2>4, <3>2 DEF FirstRequest, Mine
        <5>3. r \in S => inflight'[r].run = b.run  BY <2>5, <2>6 DEF Mine
        <5> QED  BY <5>1, <5>2, <5>3
      <4>3. FirstRequest(q, r)  BY <2>4, <2>5, <3>2, <4>2 DEF FirstRequest, Mine
      <4> QED  BY <2>4, <2>9, <3>2, <4>2, <4>3 DEF SentOnce
    <3> QED  BY <3>1, <3>2
  <2>12. NeverResent'  BY <1>1, <2>5 DEF NeverResent
  <2> QED  BY <2>4, <2>7, <2>8, <2>10, <2>11, <2>12
<1> QED  BY <1>2, <1>3, <1>4

-----------------------------------------------------------------------------
LEMMA BackfillStepInv == BackfillInv /\ [BackfillNext]_backfillVars => BackfillInv'
<1> SUFFICES ASSUME BackfillInv, [BackfillNext]_backfillVars PROVE BackfillInv'
  OBVIOUS
<1>1. ASSUME NEW p \in Backfillers, NEW retry \in BOOLEAN, Begin(p, retry)
      PROVE  BackfillInv'
  BY <1>1, BeginInv
<1>2. ASSUME NEW p \in Backfillers,
             \/ Discover(p) \/ Renew(p) \/ RunOut(p) \/ NotSent(p)
             \/ NextBatch(p) \/ End(p) \/ BackfillerDies(p)
      PROVE  BackfillInv'
  BY <1>2, QuietSteps
<1>3. ASSUME NEW p \in Backfillers, ~Holds(p),
             Recover(p) \/ Reserve(p) \/ SettleBatch(p) \/ Unclaim(p)
      PROVE  BackfillInv'
  <2>1. /\ job[p].at # "off" /\ job' = [job EXCEPT ![p].at = "lost"]
        /\ UNCHANGED <<claimant, inflight, embedded, open, runs>>
    BY <1>3 DEF Recover, Reserve, SettleBatch, Unclaim, Goes
  <2> QED  BY <2>1, Stops
<1>4. ASSUME NEW p \in Backfillers, Holds(p),
             Recover(p) \/ Reserve(p) \/ SettleBatch(p) \/ Unclaim(p)
      PROVE  BackfillInv'
  BY <1>4, RecoverInv, ReserveInv, SettleBatchInv, UnclaimInv
<1>5. ASSUME NEW p \in Backfillers,
             Dispatch(p) \/ Transmit(p) \/ Answer(p) \/ Publish(p)
      PROVE  BackfillInv'
  BY <1>5, DispatchInv, TransmitInv, AnswerInv, BackfillPublishInv
<1>6. CASE UNCHANGED <<claimant, inflight, embedded, job, open, runs>>
  BY <1>6 DEF BackfillInv, BackfillTypes, RunsDiffer, HolderIsAlone, Holds, EmbeddedIsDone,
              MarkedFirst, SentOnce, FirstRequest, Mine, NeverResent
<1> QED  BY <1>1, <1>2, <1>3, <1>4, <1>5, <1>6
         DEF BackfillNext, HeartbeatLapses, Supersede, backfillVars

(* No leaf whose text may be at the provider becomes free for a normal     *)
(* run, with any number of processes, leaves and runs.                     *)
THEOREM NothingIsResent == BackfillSpec => []NeverResent
<1>1. BackfillInv => NeverResent  BY DEF BackfillInv
<1> QED  BY BackfillInitInv, BackfillStepInv, <1>1, PTL DEF BackfillSpec

(* A leaf with its vector is in no state of the queue, however late a run  *)
(* that lost its lease goes on.                                            *)
THEOREM EmbeddedStaysDone == BackfillSpec => []EmbeddedIsDone
<1>1. BackfillInv => EmbeddedIsDone  BY DEF BackfillInv
<1> QED  BY BackfillInitInv, BackfillStepInv, <1>1, PTL DEF BackfillSpec

-----------------------------------------------------------------------------
(***************************************************************************)
(* The search                                                              *)
(***************************************************************************)
USE SearchAssumption

-----------------------------------------------------------------------------
(***************************************************************************)
(* The invariant                                                           *)
(***************************************************************************)
Matrix == [version : Nat, ids : SUBSET Nodes, rows : SUBSET Nodes]

InUse == Querying \cup {"reserved", "left"}
Places == InUse \cup {"off", "answered", "hydrate"}

Search == [at : Places, key : PoolKeys \cup {NoSearch.key}, count : Nat, version : Nat,
           todo : SUBSET Nodes, keep : BOOLEAN, hits : SUBSET Nodes,
           coverage : {"none", "full", "full_approx", "bounded"}, steady : SUBSET Nodes]

SearchTypes ==
    /\ signed \in BOOLEAN
    /\ live \in SUBSET Nodes /\ orphans \in SUBSET Nodes /\ gone \in SUBSET Nodes
    /\ dataVersion \in Nat
    /\ pooled \in SUBSET PoolKeys
    /\ matrices \in [PoolKeys -> SUBSET Matrix]
    /\ signs \in [PoolKeys -> SUBSET Matrix]
    /\ searches \in [Searches -> Search]

(* A cached matrix of the present version holds every node that is there   *)
(* and was asked for: only a new vector could be missing, and it bumps the  *)
(* version.                                                                *)
Complete(m) == m.version <= dataVersion /\ (m.version = dataVersion => live \cap m.ids \subseteq m.rows)
CompleteSigns(m) == m.version <= dataVersion /\ (m.version = dataVersion => live \subseteq m.rows)

CachesOK == \A k \in PoolKeys : /\ \A m \in matrices[k] : Complete(m)
                                /\ \A m \in signs[k] : CompleteSigns(m)

(* What was there all through the search is there, and is among what the   *)
(* search has found or has still to look at.                               *)
ScanOK(r) ==
    /\ r.steady \subseteq live
    /\ r.version <= dataVersion
    /\ r.at = "rescore" => r.steady \subseteq r.todo
    /\ r.at \in {"batch", "fetch"} /\ r.coverage = "full" => r.steady \subseteq r.hits \cup r.todo
    /\ r.at \in {"batch", "fetch"} => r.coverage # "full_approx"
    /\ r.at = "leave" /\ r.coverage \in {"full", "full_approx"} => r.steady \subseteq r.hits

(* A search that uses a store keeps it in the pool, and a worker that has  *)
(* not ended is known to the unload.                                       *)
UnloadOK ==
    /\ poolClosed <=> unloading \in {"pool", "done"}
    /\ registryClosed <=> unloading # "no"
    /\ unloading \in {"no", "join", "pool", "done"}
    /\ \A s \in Searches : searches[s].at = "hydrate" =>
         unloading = "no" \/ (unloading = "join" /\ s \in joining)

SearchInv == /\ SearchTypes /\ CachesOK /\ UnloadOK /\ StoresOutliveUse
             /\ \A s \in Searches : ScanOK(searches[s])

LEMMA UsingIs == \A s \in Searches : Using(s) <=> searches[s].at \in InUse
BY DEF Using, Holding, InUse

LEMMA NoSearchIs ==
    /\ NoSearch \in Search /\ NoSearch.at = "off" /\ NoSearch.version = 0
    /\ NoSearch.steady = {} /\ NoSearch.coverage = "none"
<1> DEFINE first == CHOOSE k \in PoolKeys : TRUE
<1>1. NoSearch = [at |-> "off", key |-> first, count |-> 0, version |-> 0, todo |-> {},
                  keep |-> FALSE, hits |-> {}, coverage |-> "none", steady |-> {}]
  BY DEF NoSearch
<1> HIDE DEF first
<1> QED  BY <1>1 DEF Search, Places

(* A search without a scan of its own has nothing to miss.                 *)
LEMMA Idles ==
    ASSUME SearchInv, NEW r \in Search, r.version = 0,
           r.steady = {} \/ (r.steady \subseteq live /\ r.at = "reserved"),
           r.coverage = "none"
    PROVE  ScanOK(r)
BY DEF ScanOK, SearchInv, SearchTypes

-----------------------------------------------------------------------------
(***************************************************************************)
(* Steps of a search                                                       *)
(***************************************************************************)
(* A search moves on with the store it has, or without one.                *)
LEMMA Moves ==
    ASSUME SearchInv, NEW s \in Searches, NEW r \in Search, SearchIs(s, r),
           ScanOK(r), r.at # "hydrate",
           r.at \in InUse => Using(s) /\ r.key = searches[s].key,
           matrices' \in [PoolKeys -> SUBSET Matrix], signs' \in [PoolKeys -> SUBSET Matrix],
           CachesOK', UNCHANGED <<corpusVars, pooled, unloadVars>>
    PROVE  SearchInv'
<1>1. /\ searches' = [searches EXCEPT ![s] = r] /\ searches' \in [Searches -> Search]
      /\ searches \in [Searches -> Search]
  BY DEF SearchInv, SearchTypes, SearchIs
<1>2. \A t \in Searches : searches'[t] = IF t = s THEN r ELSE searches[t]  BY <1>1
<1>3. SearchTypes'  BY <1>1 DEF SearchInv, SearchTypes, corpusVars
<1>4. UnloadOK'  BY <1>2 DEF SearchInv, UnloadOK, unloadVars
<1>5. \A t \in Searches : ScanOK(searches'[t])  BY <1>2 DEF SearchInv
<1>6. (\A t \in Searches : ScanOK(searches[t]))'  BY <1>5 DEF ScanOK, corpusVars
<1>7. \A t \in Searches : searches'[t].at \in InUse => Using(t) /\ searches'[t].key = searches[t].key
  BY <1>2, UsingIs
<1>8. \A t \in Searches : Using(t)' <=> searches'[t].at \in InUse
  BY DEF Using, Holding, InUse
<1>9. StoresOutliveUse'
  BY <1>2, <1>7, <1>8 DEF SearchInv, StoresOutliveUse, unloadVars
<1> QED  BY <1>3, <1>4, <1>6, <1>9 DEF SearchInv

LEMMA SameCaches ==
    ASSUME SearchInv, UNCHANGED <<corpusVars, matrices, signs>>
    PROVE  /\ CachesOK' /\ matrices' \in [PoolKeys -> SUBSET Matrix]
           /\ signs' \in [PoolKeys -> SUBSET Matrix]
BY DEF SearchInv, SearchTypes, CachesOK, Complete, CompleteSigns, corpusVars

LEMMA SearchOf ==
    ASSUME SearchInv, NEW s \in Searches
    PROVE  /\ searches[s] \in Search /\ ScanOK(searches[s])
           /\ Using(s) <=> searches[s].at \in InUse
BY UsingIs DEF SearchInv, SearchTypes

(* The steps that leave the caches alone.                                  *)
LEMMA MovesOnly ==
    ASSUME SearchInv, NEW s \in Searches, NEW r \in Search, SearchIs(s, r),
           ScanOK(r), r.at # "hydrate",
           r.at \in InUse => Using(s) /\ r.key = searches[s].key,
           UNCHANGED <<corpusVars, pooled, matrices, signs, unloadVars>>
    PROVE  SearchInv'
BY Moves, SameCaches

LEMMA TakeStoreInv ==
    ASSUME SearchInv, NEW s \in Searches, TakeStore(s), UNCHANGED <<corpusVars, unloadVars>>
    PROVE  SearchInv'
<1> DEFINE r == [searches[s] EXCEPT !.at = "count"]
<1>1. r \in Search /\ ScanOK(r) /\ r.at = "count" /\ r.key = searches[s].key /\ Using(s)
  BY SearchOf DEF TakeStore, Search, Places, InUse, Querying, ScanOK
<1>2. SearchIs(s, r) /\ UNCHANGED <<pooled, matrices, signs>>  BY DEF TakeStore, Proceeds
<1> QED  BY <1>1, <1>2, MovesOnly

(* An answer, a store unlocked, a search given up.                         *)
LEMMA UnlockInv ==
    ASSUME SearchInv, NEW s \in Searches, Unlock(s), UNCHANGED <<corpusVars, unloadVars>>
    PROVE  SearchInv'
<1> DEFINE r == [NoSearch EXCEPT !.at = "left", !.key = searches[s].key, !.hits = searches[s].hits]
<1>1. r \in Search /\ r.at = "left" /\ r.key = searches[s].key /\ Using(s)
      /\ r.version = 0 /\ r.steady = {} /\ r.coverage = "none"
  BY SearchOf, NoSearchIs DEF Unlock, Search, Places, InUse, Querying
<1>2. SearchIs(s, r) /\ UNCHANGED <<pooled, matrices, signs>>  BY DEF Unlock
<1> HIDE DEF r
<1> QED  BY <1>1, <1>2, Idles, MovesOnly

LEMMA ExpireInv ==
    ASSUME SearchInv, NEW s \in Searches, Expire(s), UNCHANGED <<corpusVars, unloadVars>>
    PROVE  SearchInv'
<1> DEFINE r == [NoSearch EXCEPT !.at = "leave", !.key = searches[s].key, !.hits = searches[s].hits]
<1>1. r \in Search /\ r.at = "leave" /\ r.key = searches[s].key /\ Using(s)
      /\ r.version = 0 /\ r.steady = {} /\ r.coverage = "none"
  BY SearchOf, NoSearchIs DEF Expire, Using, Search, Places, InUse, Querying
<1>2. SearchIs(s, r) /\ UNCHANGED <<pooled, matrices, signs>>  BY DEF Expire, GivesItBack
<1> HIDE DEF r
<1> QED  BY <1>1, <1>2, Idles, MovesOnly

LEMMA NodesAreFinite ==
    ASSUME NEW S \in SUBSET Nodes
    PROVE  IsFiniteSet(S) /\ Cardinality(S) \in Nat
BY FS_Subset, FS_CardinalityType

LEMMA CountSignsInv ==
    ASSUME SearchInv, NEW s \in Searches, CountSigns(s), UNCHANGED <<corpusVars, unloadVars>>
    PROVE  SearchInv'
<1> DEFINE n == IF signed THEN Cardinality(Vectors) ELSE 0
           r == [searches[s] EXCEPT !.at = "vectors", !.count = n]
<1>1. n \in Nat  BY NodesAreFinite DEF SearchInv, SearchTypes, Vectors
<1> HIDE DEF n
<1>2. r \in Search /\ ScanOK(r) /\ r.at = "vectors" /\ r.key = searches[s].key /\ Using(s)
  BY <1>1, SearchOf DEF CountSigns, Search, Places, InUse, Querying, ScanOK
<1>3. SearchIs(s, r) /\ UNCHANGED <<pooled, matrices, signs>>  BY DEF CountSigns, n
<1> QED  BY <1>2, <1>3, MovesOnly

LEMMA CountVectorsInv ==
    ASSUME SearchInv, NEW s \in Searches, CountVectors(s), UNCHANGED <<corpusVars, unloadVars>>
    PROVE  SearchInv'
<1>1. PICK next \in {"signs", "probe"} :
         SearchIs(s, [searches[s] EXCEPT !.at = next, !.count = 0])
  BY DEF CountVectors
<1> DEFINE r == [searches[s] EXCEPT !.at = next, !.count = 0]
<1>2. r \in Search /\ ScanOK(r) /\ r.at = next /\ r.key = searches[s].key /\ Using(s)
  BY <1>1, SearchOf DEF CountVectors, Search, Places, InUse, Querying, ScanOK
<1>3. UNCHANGED <<pooled, matrices, signs>>  BY DEF CountVectors
<1> HIDE DEF r
<1> QED  BY <1>1, <1>2, <1>3, MovesOnly DEF r, InUse, Querying

-----------------------------------------------------------------------------
(* What an answer is, as a record.                                         *)
Answered(s, coverage, hits) ==
    [searches[s] EXCEPT !.at = "leave", !.coverage = coverage, !.hits = hits,
                        !.todo = {}, !.version = 0, !.keep = FALSE]

LEMMA AnswersIs ==
    ASSUME SearchInv, NEW s \in Searches, Using(s),
           NEW coverage \in {"none", "full", "full_approx", "bounded"},
           NEW hits \in SUBSET Nodes,
           coverage \in {"full", "full_approx"} => searches[s].steady \subseteq hits
    PROVE  LET r == Answered(s, coverage, hits)
           IN  r \in Search /\ ScanOK(r) /\ r.at = "leave" /\ r.key = searches[s].key
<1> DEFINE r == Answered(s, coverage, hits)
<1>1. /\ r \in Search /\ r.at = "leave" /\ r.key = searches[s].key /\ r.coverage = coverage
      /\ r.hits = hits /\ r.version = 0 /\ r.steady = searches[s].steady
  BY SearchOf DEF Answered, Search, Places, InUse, Querying
<1> HIDE DEF r
<1>2. ScanOK(r)  BY <1>1, SearchOf DEF ScanOK, SearchInv, SearchTypes
<1> QED  BY <1>1, <1>2 DEF r

LEMMA AnswersInv ==
    ASSUME SearchInv, NEW s \in Searches, Using(s),
           NEW coverage \in {"none", "full", "full_approx", "bounded"},
           NEW hits \in SUBSET Nodes, Answers(s, coverage, hits),
           coverage \in {"full", "full_approx"} => searches[s].steady \subseteq hits,
           matrices' \in [PoolKeys -> SUBSET Matrix], signs' \in [PoolKeys -> SUBSET Matrix],
           CachesOK', UNCHANGED <<corpusVars, pooled, unloadVars>>
    PROVE  SearchInv'
<1>1. PICK r : r = Answered(s, coverage, hits)  OBVIOUS
<1>2. r \in Search /\ ScanOK(r) /\ r.at = "leave" /\ r.key = searches[s].key
  BY <1>1, AnswersIs
<1>3. SearchIs(s, r)  BY <1>1 DEF Answers, Answered
<1> QED  BY <1>2, <1>3, Moves

(* The rows of a matrix of signs are ranked, and contain what is steady.   *)
LEMMA PrescreenedInv ==
    ASSUME SearchInv, NEW s \in Searches, Using(s), NEW rows \in SUBSET Nodes,
           Prescreened(s, rows), searches[s].steady \subseteq rows,
           matrices' \in [PoolKeys -> SUBSET Matrix], signs' \in [PoolKeys -> SUBSET Matrix],
           CachesOK', UNCHANGED <<corpusVars, pooled, unloadVars>>
    PROVE  SearchInv'
<1>1. CASE rows = {}
  <2>1. Answers(s, "none", {})  BY <1>1 DEF Prescreened
  <2> QED  BY <2>1, AnswersInv
<1>2. CASE rows # {}
  <2>1. PICK r : r = [searches[s] EXCEPT !.at = "rescore", !.todo = rows, !.version = 0]
    OBVIOUS
  <2>2. /\ r \in Search /\ r.at = "rescore" /\ r.key = searches[s].key /\ r.todo = rows
        /\ r.version = 0 /\ r.steady = searches[s].steady
    BY <2>1, SearchOf DEF Search, Places, InUse, Querying
  <2>4. ScanOK(r)  BY <2>2, SearchOf DEF ScanOK, SearchInv, SearchTypes
  <2>3. SearchIs(s, r)  BY <1>2, <2>1 DEF Prescreened
  <2> QED  BY <2>2, <2>3, <2>4, Moves DEF InUse, Querying
<1> QED  BY <1>1, <1>2

LEMMA ReadSignsInv ==
    ASSUME SearchInv, NEW s \in Searches, ReadSigns(s), UNCHANGED <<corpusVars, unloadVars>>
    PROVE  SearchInv'
<1> DEFINE found == Cached(signs[searches[s].key], EveryNode)
<1>1. Using(s) /\ searches[s].key \in PoolKeys /\ searches[s].steady \subseteq live
  BY SearchOf DEF ReadSigns, InUse, Querying, SearchInv, SearchTypes, StoresOutliveUse, ScanOK
<1>2. CASE found = {}
  <2>1. PICK r : r = [searches[s] EXCEPT !.at = "load", !.version = dataVersion]  OBVIOUS
  <2>2. /\ r \in Search /\ r.at = "load" /\ r.key = searches[s].key
        /\ r.version = dataVersion /\ r.steady = searches[s].steady
    BY ZenonT(30), <2>1, SearchOf DEF Search, Places, InUse, Querying, SearchInv, SearchTypes
  <2>4. ScanOK(r)  BY <1>1, <2>2 DEF ScanOK, SearchInv, SearchTypes
  <2>3. SearchIs(s, r) /\ UNCHANGED <<pooled, matrices, signs>>
    BY <1>2, <2>1 DEF ReadSigns
  <2> QED  BY <1>1, <2>2, <2>3, <2>4, MovesOnly
<1>3. CASE found # {}
  <2>1. PICK m \in found : Prescreened(s, m.rows)  BY <1>3 DEF ReadSigns
  <2>2. m \in signs[searches[s].key] /\ m.version = dataVersion  BY <2>1 DEF Cached
  <2>3. m.rows \in SUBSET Nodes /\ live \subseteq m.rows
    BY <1>1, <2>2 DEF SearchInv, SearchTypes, Matrix, CachesOK, CompleteSigns
  <2>4. PICK rows : rows = m.rows  OBVIOUS
  <2>5. UNCHANGED <<pooled, matrices, signs>>  BY DEF ReadSigns
  <2> QED  BY <1>1, <2>1, <2>3, <2>4, <2>5, SameCaches, PrescreenedInv
<1> QED  BY <1>2, <1>3

(* A cache that takes a matrix, and may lose another one for it.           *)
LEMMA CachingsAre ==
    ASSUME NEW cache \in SUBSET Matrix, NEW m \in Matrix, NEW new \in Cachings(cache, m)
    PROVE  new \subseteq cache \cup {m} /\ new \in SUBSET Matrix
BY DEF Cachings

LEMMA LoadSignsInv ==
    ASSUME SearchInv, NEW s \in Searches, LoadSigns(s), UNCHANGED <<corpusVars, unloadVars>>
    PROVE  SearchInv'
<1>1. PICK k \in PoolKeys : k = searches[s].key
  BY SearchOf DEF LoadSigns, InUse, Querying, SearchInv, SearchTypes, StoresOutliveUse
<1>2. PICK m : m = [version |-> searches[s].version, ids |-> EveryNode, rows |-> live]  OBVIOUS
<1>3. m \in Matrix /\ CompleteSigns(m)
  BY <1>2, SearchOf DEF Matrix, EveryNode, Search, CompleteSigns, ScanOK, SearchInv, SearchTypes
<1>4. PICK cache \in Cachings(signs[k], m) : signs' = [signs EXCEPT ![k] = cache]
  BY <1>1, <1>2 DEF LoadSigns
<1>5. cache \subseteq signs[k] \cup {m} /\ cache \in SUBSET Matrix
  BY <1>1, <1>3, <1>4, CachingsAre DEF SearchInv, SearchTypes
<1>6. signs' \in [PoolKeys -> SUBSET Matrix] /\ matrices' = matrices
  BY <1>4, <1>5 DEF LoadSigns, SearchInv, SearchTypes
<1>7. CachesOK'
  BY <1>3, <1>4, <1>5, <1>6
     DEF SearchInv, SearchTypes, CachesOK, Complete, CompleteSigns, corpusVars
<1>8. matrices' \in [PoolKeys -> SUBSET Matrix]  BY <1>6 DEF SearchInv, SearchTypes
<1>9. Using(s) /\ searches[s].steady \subseteq live /\ live \in SUBSET Nodes
  BY SearchOf DEF LoadSigns, InUse, Querying, ScanOK, SearchInv, SearchTypes
<1>10. PICK rows : rows = live  OBVIOUS
<1>11. Prescreened(s, rows) /\ UNCHANGED pooled  BY <1>10 DEF LoadSigns
<1> QED  BY <1>6, <1>7, <1>8, <1>9, <1>10, <1>11, PrescreenedInv

LEMMA RescoreInv ==
    ASSUME SearchInv, NEW s \in Searches, Rescore(s), UNCHANGED <<corpusVars, unloadVars>>
    PROVE  SearchInv'
<1>1. PICK hits : hits = searches[s].todo \cap Vectors  OBVIOUS
<1>2. hits \in SUBSET Nodes /\ searches[s].steady \subseteq hits /\ Using(s)
  BY <1>1, SearchOf DEF Rescore, InUse, Querying, ScanOK, Vectors, SearchInv, SearchTypes
<1>3. Answers(s, "full_approx", hits) /\ UNCHANGED <<pooled, matrices, signs>>
  BY <1>1 DEF Rescore
<1> QED  BY <1>2, <1>3, SameCaches, AnswersInv

(* A scan that stops, of no more nodes than it may take, takes them all.   *)
LEMMA ScanIsAll ==
    ASSUME live \in SUBSET Nodes, NEW k \in PoolKeys
    PROVE  /\ ScanOf(k) \in SUBSET Nodes
           /\ CoversAll(k) => ScanOf(k) = live
<1>1. CASE k \in Recall  BY <1>1 DEF ScanOf
<1>2. CASE k \notin Recall
  <2>1. ScanOf(k) = {x \in live : Cardinality({y \in live : y > x}) < ScanRows}
    BY <1>2 DEF ScanOf, Newest
  <2>2. ASSUME Cardinality(live) <= ScanRows, NEW x \in live
        PROVE  Cardinality({y \in live : y > x}) < ScanRows
    <3> DEFINE newer == {y \in live : y > x}
    <3>1. newer \in SUBSET (live \ {x})  BY DEF PoolKeys
    <3>2. IsFiniteSet(live) /\ IsFiniteSet(live \ {x})
      BY FS_Subset, FS_RemoveElement
    <3>3. Cardinality(live \ {x}) = Cardinality(live) - 1 /\ Cardinality(live) \in Nat
      BY <3>2, FS_RemoveElement, FS_CardinalityType
    <3>4. Cardinality(newer) <= Cardinality(live \ {x}) /\ Cardinality(newer) \in Nat
      BY <3>1, <3>2, FS_Subset, FS_CardinalityType
    <3> HIDE DEF newer
    <3>5. Cardinality(newer) < ScanRows  BY <2>2, <3>3, <3>4
    <3> QED  BY <3>5 DEF newer
  <2>3. CoversAll(k) => Cardinality(live) <= ScanRows  BY <1>2 DEF CoversAll
  <2> QED  BY <2>1, <2>2, <2>3
<1> QED  BY <1>1, <1>2

LEMMA ProbeInv ==
    ASSUME SearchInv, NEW s \in Searches, Probe(s), UNCHANGED <<corpusVars, unloadVars>>
    PROVE  SearchInv'
<1>1. PICK k \in PoolKeys : k = searches[s].key
  BY SearchOf DEF Probe, InUse, Querying, SearchInv, SearchTypes, StoresOutliveUse
<1>2. PICK keep : keep = (Cardinality(ScanOf(k)) <= ScanRows)  OBVIOUS
<1>3. /\ matrices' = [matrices EXCEPT ![k] = IF keep THEN @ ELSE {}]
      /\ signs' = [signs EXCEPT ![k] = IF keep THEN @ ELSE {}]
      /\ UNCHANGED pooled
  BY <1>1, <1>2 DEF Probe
<1>4. matrices' \in [PoolKeys -> SUBSET Matrix] /\ signs' \in [PoolKeys -> SUBSET Matrix]
  BY <1>1, <1>3 DEF SearchInv, SearchTypes
<1>5. \A j \in PoolKeys : matrices'[j] \subseteq matrices[j] /\ signs'[j] \subseteq signs[j]
  BY <1>1, <1>3 DEF SearchInv, SearchTypes
<1>6. CachesOK'
  BY <1>5 DEF SearchInv, CachesOK, Complete, CompleteSigns, corpusVars
<1>7. Using(s)  BY SearchOf DEF Probe, InUse, Querying
<1>8. CASE live = {}
  <2>1. Answers(s, "none", {})  BY <1>8 DEF Probe
  <2> QED  BY <1>3, <1>4, <1>6, <1>7, <2>1, AnswersInv
<1>9. CASE live # {}
  <2>1. PICK c \in {"full", "bounded"} : c = IF CoversAll(k) THEN "full" ELSE "bounded"  OBVIOUS
  <2>2. PICK scan : scan = ScanOf(k)  OBVIOUS
  <2>3. scan \in SUBSET Nodes /\ (c = "full" => scan = live)
    BY <2>1, <2>2, ScanIsAll DEF SearchInv, SearchTypes
  <2>4. PICK r : r = [searches[s] EXCEPT !.at = "batch", !.todo = scan, !.keep = keep, !.coverage = c]
    OBVIOUS
  <2>7. keep \in BOOLEAN  BY <1>2
  <2>5. r \in Search /\ ScanOK(r) /\ r.at = "batch" /\ r.key = searches[s].key
    BY <2>3, <2>4, <2>7, SearchOf DEF Search, Places, InUse, Querying, ScanOK
  <2>6. SearchIs(s, r)  BY <1>1, <1>2, <1>9, <2>1, <2>2, <2>4 DEF Probe
  <2> QED  BY <1>3, <1>4, <1>6, <1>7, <2>5, <2>6, Moves
<1> QED  BY <1>8, <1>9

(* A batch was looked at, and what is steady in it was found.              *)
LEMMA ScoredInv ==
    ASSUME SearchInv, NEW s \in Searches, searches[s].at \in {"batch", "fetch"},
           NEW batch \in SUBSET Nodes, NEW rows \in SUBSET Nodes,
           Scored(s, batch, rows),
           searches[s].steady \cap batch \subseteq rows,
           matrices' \in [PoolKeys -> SUBSET Matrix], signs' \in [PoolKeys -> SUBSET Matrix],
           CachesOK', UNCHANGED <<corpusVars, pooled, unloadVars>>
    PROVE  SearchInv'
<1>1. Using(s)  BY SearchOf DEF InUse, Querying
<1>2. PICK c \in {"none", "full", "full_approx", "bounded"}, hits \in SUBSET Nodes :
         c = searches[s].coverage /\ hits = searches[s].hits \cup rows
  BY SearchOf DEF Search
<1>3. CASE batch = searches[s].todo
  <2>1. c \in {"full", "full_approx"} => searches[s].steady \subseteq hits
    BY <1>2, <1>3, SearchOf DEF ScanOK
  <2>2. Answers(s, c, hits)  BY <1>2, <1>3 DEF Scored
  <2> QED  BY <1>1, <2>1, <2>2, AnswersInv
<1>4. CASE batch # searches[s].todo
  <2>1. PICK r : r = [searches[s] EXCEPT !.todo = @ \ batch, !.hits = @ \cup rows]  OBVIOUS
  <2>2. r \in Search /\ r.at = searches[s].at /\ r.key = searches[s].key
    BY <2>1, SearchOf DEF Search
  <2>3. ScanOK(r)  BY <2>1, SearchOf DEF Search, ScanOK
  <2>4. SearchIs(s, r)  BY <1>4, <2>1 DEF Scored
  <2> QED  BY <1>1, <2>2, <2>3, <2>4, Moves
<1> QED  BY <1>3, <1>4

LEMMA ScanBatchInv ==
    ASSUME SearchInv, NEW s \in Searches, ScanBatch(s), UNCHANGED <<corpusVars, unloadVars>>
    PROVE  SearchInv'
<1>1. PICK k \in PoolKeys : k = searches[s].key
  BY SearchOf DEF ScanBatch, InUse, Querying, SearchInv, SearchTypes, StoresOutliveUse
<1>2. PICK batch : batch = Newest(searches[s].todo, ScanRows)  OBVIOUS
<1>3. batch \in SUBSET Nodes  BY <1>2, SearchOf DEF Newest, Search
<1>4. /\ searches[s].steady \subseteq live /\ live \in SUBSET Nodes
      /\ searches[s].at = "batch" /\ UNCHANGED <<pooled, matrices, signs>>
  BY SearchOf DEF ScanOK, SearchInv, SearchTypes, ScanBatch
<1>5. CASE Scored(s, batch, batch \cap Vectors)
  <2>1. PICK rows : rows = batch \cap Vectors  OBVIOUS
  <2>2. rows \in SUBSET Nodes /\ searches[s].steady \cap batch \subseteq rows
    BY <1>3, <1>4, <2>1 DEF Vectors
  <2> QED  BY <1>3, <1>4, <1>5, <2>1, <2>2, SameCaches, ScoredInv
<1>6. CASE \E m \in Cached(matrices[k], batch) : Scored(s, batch, m.rows)
  <2>1. PICK m \in Cached(matrices[k], batch) : Scored(s, batch, m.rows)  BY <1>6
  <2>2. m \in matrices[k] /\ m.version = dataVersion /\ m.ids = batch  BY <2>1 DEF Cached
  <2>3. m \in Matrix /\ Complete(m)
    BY <1>1, <2>2 DEF SearchInv, SearchTypes, CachesOK
  <2>4. PICK rows : rows = m.rows  OBVIOUS
  <2>5. rows \in SUBSET Nodes /\ searches[s].steady \cap batch \subseteq rows
    BY <1>4, <2>2, <2>3, <2>4 DEF Complete, Matrix
  <2> QED  BY <1>3, <1>4, <2>1, <2>4, <2>5, SameCaches, ScoredInv
<1>7. CASE SearchIs(s, [searches[s] EXCEPT !.at = "fetch", !.version = dataVersion])
  <2>1. PICK r : r = [searches[s] EXCEPT !.at = "fetch", !.version = dataVersion]  OBVIOUS
  <2>2. /\ r \in Search /\ r.at = "fetch" /\ r.key = searches[s].key
        /\ r.version = dataVersion /\ r.steady = searches[s].steady /\ r.hits = searches[s].hits
        /\ r.todo = searches[s].todo /\ r.coverage = searches[s].coverage
    BY ZenonT(30), <1>4, <2>1, SearchOf DEF Search, Places, InUse, Querying, SearchInv, SearchTypes
  <2>4. ScanOK(r)  BY <1>4, <2>2, SearchOf DEF ScanOK, SearchInv, SearchTypes
  <2>3. Using(s)  BY <1>4, SearchOf DEF InUse, Querying
  <2> QED  BY <1>4, <1>7, <2>1, <2>2, <2>3, <2>4, MovesOnly
<1> QED  BY <1>1, <1>2, <1>5, <1>6, <1>7 DEF ScanBatch

LEMMA LoadMatrixInv ==
    ASSUME SearchInv, NEW s \in Searches, LoadMatrix(s), UNCHANGED <<corpusVars, unloadVars>>
    PROVE  SearchInv'
<1>1. PICK k \in PoolKeys : k = searches[s].key
  BY SearchOf DEF LoadMatrix, InUse, Querying, SearchInv, SearchTypes, StoresOutliveUse
<1>2. PICK batch, rows : batch = searches[s].todo /\ rows = batch \cap Vectors  OBVIOUS
<1>3. PICK m : m = [version |-> searches[s].version, ids |-> batch, rows |-> rows]  OBVIOUS
<1>4. /\ batch \in SUBSET Nodes /\ rows \in SUBSET Nodes
      /\ live \cap batch \subseteq rows /\ searches[s].steady \subseteq live
  BY <1>2, SearchOf DEF Search, Vectors, SearchInv, SearchTypes, ScanOK
<1>5. m \in Matrix /\ Complete(m)
  BY <1>3, <1>4, SearchOf DEF Matrix, Search, Complete, ScanOK
<1>6. PICK cache \in Cachings(matrices[k], m) : matrices' = [matrices EXCEPT ![k] = cache]
  BY <1>1, <1>2, <1>3 DEF LoadMatrix
<1>7. cache \subseteq matrices[k] \cup {m} /\ cache \in SUBSET Matrix
  BY <1>1, <1>5, <1>6, CachingsAre DEF SearchInv, SearchTypes
<1>8. matrices' \in [PoolKeys -> SUBSET Matrix] /\ UNCHANGED <<pooled, signs>>
  BY <1>6, <1>7 DEF LoadMatrix, SearchInv, SearchTypes
<1>9. CachesOK'
  BY <1>5, <1>6, <1>7, <1>8
     DEF SearchInv, SearchTypes, CachesOK, Complete, CompleteSigns, corpusVars
<1>10. signs' \in [PoolKeys -> SUBSET Matrix]  BY <1>8 DEF SearchInv, SearchTypes
<1>11. searches[s].at = "fetch" /\ Scored(s, batch, rows)  BY <1>2 DEF LoadMatrix
<1> QED  BY <1>4, <1>8, <1>9, <1>10, <1>11, ScoredInv

-----------------------------------------------------------------------------
(***************************************************************************)
(* The pool                                                                *)
(***************************************************************************)
(* What is closed was idle.                                                *)
LEMMA EvictionsAre ==
    ASSUME NEW p, NEW idle, NEW q \in Evictions(p, idle)
    PROVE  q \subseteq p /\ p \ q \subseteq idle
BY DEF Evictions

LEMMA PoolCaches ==
    ASSUME SearchInv, NEW p \in SUBSET PoolKeys, PoolBecomes(p), UNCHANGED corpusVars
    PROVE  /\ CachesOK' /\ pooled' = p
           /\ matrices' \in [PoolKeys -> SUBSET Matrix]
           /\ signs' \in [PoolKeys -> SUBSET Matrix]
<1>1. \A k \in PoolKeys : matrices'[k] \subseteq matrices[k] /\ signs'[k] \subseteq signs[k]
  BY DEF PoolBecomes, CachesOf
<1>2. /\ matrices' \in [PoolKeys -> SUBSET Matrix]
      /\ signs' \in [PoolKeys -> SUBSET Matrix]
  BY DEF PoolBecomes, CachesOf, SearchInv, SearchTypes
<1> QED
  BY <1>1, <1>2 DEF PoolBecomes, SearchInv, CachesOK, Complete, CompleteSigns, corpusVars

(* A search takes or leaves a place while idle stores are closed.          *)
LEMMA PoolMoves ==
    ASSUME SearchInv, NEW s \in Searches, NEW r \in Search, SearchIs(s, r),
           ScanOK(r), r.at # "hydrate",
           NEW p \in SUBSET PoolKeys, PoolBecomes(p),
           r.at \in InUse => r.key \in p,
           \A t \in Searches \ {s} : Using(t) => searches[t].key \in p,
           unloading = "done" => p = {} /\ r.at \notin InUse,
           UNCHANGED <<corpusVars, unloadVars>>
    PROVE  SearchInv'
<1>1. /\ searches' = [searches EXCEPT ![s] = r] /\ searches' \in [Searches -> Search]
      /\ searches \in [Searches -> Search]
  BY DEF SearchInv, SearchTypes, SearchIs
<1>2. \A t \in Searches : searches'[t] = IF t = s THEN r ELSE searches[t]  BY <1>1
<1>3. SearchTypes'  BY <1>1, PoolCaches DEF SearchInv, SearchTypes, corpusVars
<1>4. UnloadOK'  BY <1>2 DEF SearchInv, UnloadOK, unloadVars
<1>5. \A t \in Searches : ScanOK(searches'[t])  BY <1>2 DEF SearchInv
<1>6. (\A t \in Searches : ScanOK(searches[t]))'  BY <1>5 DEF ScanOK, corpusVars
<1>7. \A t \in Searches : Using(t)' <=> searches'[t].at \in InUse
  BY DEF Using, Holding, InUse
<1>8. \A t \in Searches : Using(t)' => searches'[t].key \in p
  BY <1>2, <1>7, UsingIs
<1>9. unloading = "done" => \A t \in Searches : ~Using(t)' /\ searches'[t].at # "hydrate"
  BY <1>2, <1>7, UsingIs DEF SearchInv, StoresOutliveUse
<1>10. StoresOutliveUse'
  BY <1>8, <1>9, PoolCaches DEF StoresOutliveUse, unloadVars
<1> QED  BY <1>3, <1>4, <1>6, <1>10, PoolCaches DEF SearchInv

LEMMA BorrowStoreInv ==
    ASSUME SearchInv, NEW s \in Searches, NEW k \in PoolKeys, BorrowStore(s, k)
    PROVE  SearchInv'
<1>1. PICK p \in Evictions(pooled \cup {k}, Unused(s) \ {k}) : PoolBecomes(p)
  BY DEF BorrowStore
<1>2. p \subseteq pooled \cup {k} /\ (pooled \cup {k}) \ p \subseteq Unused(s) \ {k}
  BY <1>1, EvictionsAre
<1>3. k \in p /\ p \in SUBSET PoolKeys  BY <1>2 DEF SearchInv, SearchTypes
<1>4. \A t \in Searches \ {s} : Using(t) => searches[t].key \in p
  BY <1>2 DEF SearchInv, StoresOutliveUse, Unused, UsersOf
<1>5. PICK r : r = [NoSearch EXCEPT !.at = "reserved", !.key = k, !.steady = live]  OBVIOUS
<1>6. /\ r \in Search /\ r.at = "reserved" /\ r.key = k
      /\ r.version = 0 /\ r.steady = live /\ r.coverage = "none"
  BY <1>5, NoSearchIs DEF Search, Places, InUse, Querying, SearchInv, SearchTypes
<1>7. unloading # "done"  BY DEF BorrowStore, SearchInv, UnloadOK
<1>8. SearchIs(s, r) /\ UNCHANGED <<corpusVars, unloadVars>>  BY <1>5 DEF BorrowStore
<1> QED  BY <1>1, <1>3, <1>4, <1>6, <1>7, <1>8, Idles, PoolMoves

LEMMA ReleaseInv ==
    ASSUME SearchInv, NEW s \in Searches, Release(s), UNCHANGED <<corpusVars, unloadVars>>
    PROVE  SearchInv'
<1>1. PICK p \in Evictions(pooled, Unused(s)) : PoolBecomes(p)  BY DEF Release
<1>2. p \subseteq pooled /\ pooled \ p \subseteq Unused(s)  BY <1>1, EvictionsAre
<1>3. p \in SUBSET PoolKeys  BY <1>2 DEF SearchInv, SearchTypes
<1>4. \A t \in Searches \ {s} : Using(t) => searches[t].key \in p
  BY <1>2 DEF SearchInv, StoresOutliveUse, SearchTypes, Unused, UsersOf
<1>5. PICK r \in {NoSearch, [NoSearch EXCEPT !.at = "answered"]} : SearchIs(s, r)
  BY DEF Release
<1>6. /\ r \in Search /\ r.at \in {"off", "answered"}
      /\ r.version = 0 /\ r.steady = {} /\ r.coverage = "none"
  BY <1>5, NoSearchIs DEF Search, Places
<1>7. unloading # "done"
  BY SearchOf DEF Release, InUse, SearchInv, StoresOutliveUse
<1>8. r.at \notin InUse /\ r.at # "hydrate"  BY <1>6 DEF InUse, Querying
<1> QED  BY <1>1, <1>3, <1>4, <1>5, <1>6, <1>7, <1>8, Idles, PoolMoves

LEMMA CallReturnsInv ==
    ASSUME SearchInv, NEW s \in Searches, SearchIs(s, NoSearch),
           UNCHANGED <<corpusVars, pooled, matrices, signs, unloadVars>>
    PROVE  SearchInv'
<1>1. PICK r : r = NoSearch  OBVIOUS
<1>2. r \in Search /\ ScanOK(r) /\ r.at = "off" /\ r.at \notin InUse
  BY <1>1, NoSearchIs, Idles DEF InUse, Querying
<1> QED  BY <1>1, <1>2, MovesOnly

LEMMA HydrateInv ==
    ASSUME SearchInv, NEW s \in Searches, Hydrate(s)
    PROVE  SearchInv'
<1>1. PICK r : r = [NoSearch EXCEPT !.at = "hydrate"]  OBVIOUS
<1>2. r \in Search /\ ScanOK(r) /\ r.at = "hydrate" /\ r.at \notin InUse
  <2>1. /\ r \in Search /\ r.at = "hydrate" /\ r.version = 0 /\ r.steady = {}
        /\ r.coverage = "none"
    BY <1>1, NoSearchIs DEF Search, Places
  <2> QED  BY <2>1, Idles DEF InUse, Querying
<1>3. searches' = [searches EXCEPT ![s] = r] /\ searches \in [Searches -> Search]
  BY <1>1 DEF Hydrate, SearchIs, SearchInv, SearchTypes
<1>4. \A t \in Searches : searches'[t] = IF t = s THEN r ELSE searches[t]  BY <1>3
<1>5. UNCHANGED <<corpusVars, pooled, matrices, signs, unloadVars>> /\ unloading = "no"
  BY DEF Hydrate, SearchInv, UnloadOK
<1>6. SearchTypes'  BY <1>2, <1>3, <1>5 DEF SearchInv, SearchTypes, corpusVars
<1>7. UnloadOK'  BY <1>5 DEF SearchInv, UnloadOK, unloadVars
<1>8. \A t \in Searches : ScanOK(searches'[t])  BY <1>2, <1>4 DEF SearchInv
<1>9. (\A t \in Searches : ScanOK(searches[t]))'  BY <1>5, <1>8 DEF ScanOK, corpusVars
<1>10. \A t \in Searches : Using(t)' => Using(t) /\ searches'[t].key = searches[t].key
  BY <1>2, <1>4, UsingIs DEF Using, Holding, InUse
<1>11. StoresOutliveUse'
  BY <1>5, <1>10 DEF SearchInv, StoresOutliveUse, unloadVars
<1> QED  BY <1>5, <1>6, <1>7, <1>9, <1>11, SameCaches DEF SearchInv

-----------------------------------------------------------------------------
(***************************************************************************)
(* Writers                                                                 *)
(***************************************************************************)
LEMMA PublishVectorsInv ==
    ASSUME SearchInv, NEW S \in SUBSET Nodes, PublishVectors(S)
    PROVE  SearchInv'
<1>1. Cardinality(S) \in Nat /\ Cardinality(S) # 0
  BY NodesAreFinite, FS_EmptySet DEF PublishVectors
<1>2. PICK n \in Nat \ {0} : n = Cardinality(S)  BY <1>1
<1>3. /\ live' = live \cup S /\ dataVersion' = dataVersion + n
      /\ UNCHANGED <<signed, orphans, gone, poolVars, unloadVars>>
  BY <1>2 DEF PublishVectors, Bumped
<1>4. dataVersion \in Nat /\ dataVersion' \in Nat /\ dataVersion < dataVersion'
  BY <1>3 DEF SearchInv, SearchTypes
<1>5. SearchTypes'  BY <1>3, <1>4 DEF SearchInv, SearchTypes, poolVars
<1>6. CachesOK'
  BY <1>3, <1>4 DEF SearchInv, SearchTypes, Matrix, CachesOK, Complete, CompleteSigns, poolVars
<1>7. \A s \in Searches : searches[s].version \in Nat  BY DEF SearchInv, SearchTypes, Search
<1>8. (\A s \in Searches : ScanOK(searches[s]))'
  BY <1>3, <1>4, <1>7 DEF SearchInv, ScanOK, poolVars
<1>9. UnloadOK' /\ StoresOutliveUse'
  BY <1>3 DEF SearchInv, UnloadOK, StoresOutliveUse, Using, Holding, poolVars, unloadVars
<1> QED  BY <1>5, <1>6, <1>8, <1>9 DEF SearchInv

LEMMA DropNodesInv ==
    ASSUME SearchInv, NEW S \in SUBSET Nodes, DropNodes(S)
    PROVE  SearchInv'
<1>1. /\ live' = live \ S /\ NotSteady(S)
      /\ orphans' \in SUBSET Nodes /\ gone' \in SUBSET Nodes
      /\ UNCHANGED <<signed, pooled, matrices, signs, unloadVars>>
  BY DEF DropNodes, SearchInv, SearchTypes
<1>2. dataVersion \in Nat /\ dataVersion' \in Nat /\ dataVersion <= dataVersion'
  BY DEF DropNodes, Bumped, SearchInv, SearchTypes
<1>3. \A s \in Searches : searches'[s] = [searches[s] EXCEPT !.steady = @ \ S]
  BY <1>1 DEF NotSteady
<1>4. searches' \in [Searches -> Search]
  <2>1. \A s \in Searches : [searches[s] EXCEPT !.steady = @ \ S] \in Search
    BY SearchOf DEF Search
  <2> QED  BY <1>1, <2>1 DEF NotSteady
<1>5. SearchTypes'  BY <1>1, <1>2, <1>4 DEF SearchInv, SearchTypes
<1>6. CachesOK'
  BY <1>1, <1>2 DEF SearchInv, SearchTypes, Matrix, CachesOK, Complete, CompleteSigns
<1>7. \A s \in Searches :
         /\ searches'[s].at = searches[s].at /\ searches'[s].key = searches[s].key
         /\ searches'[s].version = searches[s].version /\ searches'[s].todo = searches[s].todo
         /\ searches'[s].hits = searches[s].hits /\ searches'[s].coverage = searches[s].coverage
         /\ searches'[s].steady = searches[s].steady \ S
         /\ searches[s].version \in Nat
  <2>1. ASSUME NEW s \in Searches, NEW r \in Search
        PROVE  LET q == [r EXCEPT !.steady = @ \ S]
               IN  /\ q.at = r.at /\ q.key = r.key /\ q.version = r.version
                   /\ q.todo = r.todo /\ q.hits = r.hits /\ q.coverage = r.coverage
                   /\ q.steady = r.steady \ S /\ r.version \in Nat
    BY DEF Search
  <2> QED  BY <1>3, <2>1, SearchOf
<1>8. (\A s \in Searches : ScanOK(searches[s]))'
  BY <1>1, <1>2, <1>7 DEF SearchInv, ScanOK
<1>9. UnloadOK' /\ StoresOutliveUse'
  BY <1>1, <1>7 DEF SearchInv, UnloadOK, StoresOutliveUse, Using, Holding, unloadVars
<1> QED  BY <1>5, <1>6, <1>8, <1>9 DEF SearchInv

LEMMA PurgeOrphansInv ==
    ASSUME SearchInv, NEW S \in SUBSET Nodes, PurgeOrphans(S)
    PROVE  SearchInv'
<1>1. /\ orphans' \in SUBSET Nodes /\ gone' \in SUBSET Nodes
      /\ dataVersion' = dataVersion + 1 /\ dataVersion \in Nat
      /\ UNCHANGED <<signed, live, poolVars, unloadVars>>
  BY DEF PurgeOrphans, Bumped, SearchInv, SearchTypes
<1>2. SearchTypes'  BY <1>1 DEF SearchInv, SearchTypes, poolVars
<1>3. CachesOK'
  BY <1>1 DEF SearchInv, SearchTypes, Matrix, CachesOK, Complete, CompleteSigns, poolVars
<1>4. \A s \in Searches : searches[s].version \in Nat  BY DEF SearchInv, SearchTypes, Search
<1>5. (\A s \in Searches : ScanOK(searches[s]))'
  BY <1>1, <1>4 DEF SearchInv, ScanOK, poolVars
<1>6. UnloadOK' /\ StoresOutliveUse'
  BY <1>1 DEF SearchInv, UnloadOK, StoresOutliveUse, Using, Holding, poolVars, unloadVars
<1> QED  BY <1>2, <1>3, <1>5, <1>6 DEF SearchInv

-----------------------------------------------------------------------------
(***************************************************************************)
(* The unload                                                              *)
(***************************************************************************)
LEMMA SameSearches ==
    ASSUME SearchInv, UNCHANGED <<corpusVars, poolVars>>
    PROVE  /\ SearchTypes' /\ CachesOK'
           /\ (\A s \in Searches : ScanOK(searches[s]))'
           /\ \A s \in Searches : Using(s)' <=> Using(s)
BY SameCaches DEF SearchInv, SearchTypes, corpusVars, poolVars, ScanOK, Using, Holding

LEMMA BeginUnloadInv == SearchInv /\ BeginUnload => SearchInv'
<1> SUFFICES ASSUME SearchInv, BeginUnload  PROVE SearchInv'  OBVIOUS
<1>1. UNCHANGED <<corpusVars, poolVars, poolClosed>> /\ unloading' = "join"
  BY DEF BeginUnload
<1>2. UnloadOK'  BY <1>1 DEF BeginUnload, SearchInv, SearchTypes, UnloadOK, poolVars
<1>3. StoresOutliveUse'
  BY <1>1, SameSearches DEF SearchInv, StoresOutliveUse, poolVars
<1> QED  BY <1>1, <1>2, <1>3, SameSearches DEF SearchInv

LEMMA JoinWorkersInv == SearchInv /\ JoinWorkers => SearchInv'
<1> SUFFICES ASSUME SearchInv, JoinWorkers  PROVE SearchInv'  OBVIOUS
<1>1. UNCHANGED <<corpusVars, poolVars, registryClosed>> /\ unloading' = "pool"
  BY DEF JoinWorkers
<1>2. UnloadOK'  BY <1>1 DEF JoinWorkers, SearchInv, UnloadOK, poolVars
<1>3. StoresOutliveUse'
  BY <1>1, SameSearches DEF SearchInv, StoresOutliveUse, poolVars
<1> QED  BY <1>1, <1>2, <1>3, SameSearches DEF SearchInv

LEMMA RegisterInv == SearchInv /\ Register => SearchInv'
<1> SUFFICES ASSUME SearchInv, Register  PROVE SearchInv'  OBVIOUS
<1>1. UNCHANGED <<corpusVars, poolVars, joining>> /\ unloading' = "no"
  BY DEF Register
<1>2. UnloadOK'  BY <1>1 DEF Register, SearchInv, UnloadOK, StoresOutliveUse, poolVars
<1>3. StoresOutliveUse'
  BY <1>1, SameSearches DEF SearchInv, StoresOutliveUse, poolVars
<1> QED  BY <1>1, <1>2, <1>3, SameSearches DEF SearchInv

LEMMA ClosePoolInv == SearchInv /\ ClosePool => SearchInv'
<1> SUFFICES ASSUME SearchInv, ClosePool  PROVE SearchInv'  OBVIOUS
<1>1. /\ UNCHANGED <<corpusVars, searches, poolClosed, registryClosed, joining>>
      /\ unloading = "pool" /\ unloading' = "done"
      /\ PoolBecomes({}) /\ \A s \in Searches : ~Using(s)
  BY DEF ClosePool
<1>2. CachesOK' /\ pooled' = {} /\ matrices' \in [PoolKeys -> SUBSET Matrix]
      /\ signs' \in [PoolKeys -> SUBSET Matrix]
  BY <1>1, PoolCaches
<1>3. SearchTypes'  BY <1>1, <1>2 DEF SearchInv, SearchTypes, corpusVars
<1>4. UnloadOK'  BY <1>1 DEF SearchInv, UnloadOK
<1>5. (\A s \in Searches : ScanOK(searches[s]))'  BY <1>1 DEF SearchInv, ScanOK, corpusVars
<1>6. \A s \in Searches : ~Using(s)' /\ searches'[s].at # "hydrate"
  BY <1>1 DEF SearchInv, UnloadOK, Using, Holding
<1>7. StoresOutliveUse'  BY <1>2, <1>6 DEF StoresOutliveUse
<1> QED  BY <1>2, <1>3, <1>4, <1>5, <1>7 DEF SearchInv

-----------------------------------------------------------------------------
LEMMA SearchInitInv == SearchInit => SearchInv
<1> SUFFICES ASSUME SearchInit  PROVE SearchInv  OBVIOUS
<1>1. NoSearch \in Search /\ ScanOK(NoSearch) /\ NoSearch.at = "off"
  BY NoSearchIs DEF ScanOK, SearchInit
<1>2. \A s \in Searches : searches[s] = NoSearch  BY DEF SearchInit
<1>3. SearchTypes  BY <1>1 DEF SearchInit, SearchTypes, Matrix
<1>4. CachesOK  BY DEF SearchInit, CachesOK
<1>5. UnloadOK  BY <1>1, <1>2 DEF SearchInit, UnloadOK
<1>6. StoresOutliveUse
  BY <1>1, <1>2 DEF SearchInit, StoresOutliveUse, Using, Holding, Querying
<1> QED  BY <1>1, <1>2, <1>3, <1>4, <1>5, <1>6 DEF SearchInv

LEMMA SearchStepInv == SearchInv /\ [SearchNext]_searchVars => SearchInv'
<1> SUFFICES ASSUME SearchInv, [SearchNext]_searchVars  PROVE SearchInv'  OBVIOUS
<1>1. ASSUME NEW S \in SUBSET Nodes, PublishVectors(S) \/ DropNodes(S) \/ PurgeOrphans(S)
      PROVE  SearchInv'
  BY <1>1, PublishVectorsInv, DropNodesInv, PurgeOrphansInv
<1>2. ASSUME NEW s \in Searches, NEW k \in PoolKeys, BorrowStore(s, k)  PROVE SearchInv'
  BY <1>2, BorrowStoreInv
<1>3. ASSUME NEW s \in Searches, WorkerRuns(s)  PROVE SearchInv'
  BY <1>3, TakeStoreInv, UnlockInv, ReleaseInv, ExpireInv, CountSignsInv, CountVectorsInv,
     ReadSignsInv, LoadSignsInv, RescoreInv, ProbeInv, ScanBatchInv, LoadMatrixInv
     DEF WorkerRuns, Query
<1>4. ASSUME NEW s \in Searches, Hydrate(s)  PROVE SearchInv'  BY <1>4, HydrateInv
<1>5. ASSUME NEW s \in Searches, CallReturns(s) \/ Hydrated(s)  PROVE SearchInv'
  BY <1>5, CallReturnsInv DEF CallReturns, Hydrated
<1>6. ASSUME BeginUnload \/ Unloads \/ Register  PROVE SearchInv'
  BY <1>6, BeginUnloadInv, JoinWorkersInv, ClosePoolInv, RegisterInv DEF Unloads
<1>7. ASSUME UNCHANGED searchVars  PROVE SearchInv'
  <2>1. UNCHANGED <<corpusVars, poolVars, unloadVars>>  BY <1>7 DEF searchVars
  <2>2. UnloadOK' /\ StoresOutliveUse'
    BY <2>1, SameSearches DEF SearchInv, UnloadOK, StoresOutliveUse, poolVars, unloadVars
  <2> QED  BY <2>1, <2>2, SameSearches DEF SearchInv
<1> QED  BY <1>1, <1>2, <1>3, <1>4, <1>5, <1>6, <1>7 DEF SearchNext

LEMMA SearchSafe == SearchSpec => []SearchInv
BY SearchInitInv, SearchStepInv, PTL DEF SearchSpec

(* However writes, deletions, other searches and the caches they fill fall *)
(* between the statements of a search, an answer that claims to cover the  *)
(* corpus has every node that was there all the time.                      *)
THEOREM FullIsFull == SearchSpec => []FullMissesNothing
<1>1. SearchInv => FullMissesNothing  BY DEF SearchInv, ScanOK, FullMissesNothing
<1> QED  BY <1>1, SearchSafe, PTL

(* No eviction and no unload closes a store under a search that uses it or *)
(* waits for it, and after the unload no worker is left.                   *)
THEOREM StoresStayOpen == SearchSpec => []StoresOutliveUse
<1>1. SearchInv => StoresOutliveUse  BY DEF SearchInv
<1> QED  BY <1>1, SearchSafe, PTL

=============================================================================
