-------------------------- MODULE Evidence_proofs ---------------------------
(***************************************************************************)
(* What a view that is found promises, for any registries, messages and    *)
(* limits; and the receipts of the assertion sidecar, for any extractors,  *)
(* rows, words and limits.                                                 *)
(***************************************************************************)
EXTENDS QueryViews, Assertions, SequenceTheorems, TLAPS

-----------------------------------------------------------------------------
(***************************************************************************)
(* Views                                                                   *)
(***************************************************************************)
Citations == [row : Rows, text : Nat \ {0}]

Versions == [covered : Nat, old : BOOLEAN, deps : SUBSET Citations, since : Nat]

Views == [status : {Absent, "building", "ready", "stale", "expired", "failed"},
          generation : Int, version : Nat, nonce : Controllers \cup {Alone},
          leased : BOOLEAN]

Looking == {"expire", "sources", "corpus", "stale"}
Hitting == {"again", "confirm", "ready"}

Episodes == [at : Looking \cup Hitting \cup {"none", "row", "unmet", "retrieve", "cite", "publish",
                                        "fail"},
             snapshot : Nat, since : Nat, found : SUBSET Citations, round : Nat,
             version : Nat, generation : Int, intact : BOOLEAN, seen : Nat,
             held : Nat, base : Nat, deps : SUBSET Citations]

QueryTypes ==
    /\ corpus \in Nat
    /\ text \in [Rows -> Int]
    /\ view \in Views
    /\ versions \in Seq(Versions)
    /\ episode \in [Controllers -> Episodes]

\* The view names the last version, and is ready only if there is one.
ViewNamesTheLast == /\ view.version = Len(versions)
                    /\ view.status = "ready" => view.version > 0

\* An episode searches after it noted the corpus, and before now.
SearchesAfterNote(e) ==
    /\ e.snapshot <= corpus
    /\ e.found # {} \/ e.at \in {"cite", "publish"} =>
          e.snapshot <= e.since /\ e.since <= corpus

\* A version covers the corpus that its first search saw.
CoversItsSearch == \A i \in 1 .. Len(versions) : versions[i].since = versions[i].covered

\* What an episode looks at is a version, and a hit covers what it saw.
LooksAtVersion(e) ==
    /\ e.at \in Looking \cup Hitting => e.version \in 1 .. Len(versions)
    /\ e.at \in Hitting => versions[e.version].covered = e.seen

QueryInv == /\ QueryTypes
            /\ ViewNamesTheLast
            /\ CoversItsSearch
            /\ \A c \in Controllers : SearchesAfterNote(episode[c]) /\ LooksAtVersion(episode[c])
            /\ ReadyCitesWhatIs

-----------------------------------------------------------------------------
LEMMA NoEpisodeIsTyped ==
    /\ NoEpisode \in Episodes
    /\ NoEpisode.at = "none" /\ NoEpisode.found = {} /\ NoEpisode.snapshot = 0
BY DEF NoEpisode, Episodes

LEMMA QueryInitInv == QueryInit => QueryInv
<1> SUFFICES ASSUME QueryInit PROVE QueryInv
  OBVIOUS
<1>1. << >> \in Seq(Versions) /\ Len(<< >>) = 0  BY EmptySeq
<1>2. QueryTypes
  BY <1>1, NoEpisodeIsTyped DEF QueryInit, QueryTypes, Views, Absent, Unborn
<1>3. \A c \in Controllers : episode[c] = NoEpisode  BY DEF QueryInit
<1>4. \A c \in Controllers : SearchesAfterNote(episode[c]) /\ LooksAtVersion(episode[c])
  BY <1>3, NoEpisodeIsTyped DEF SearchesAfterNote, LooksAtVersion, Looking, Hitting, QueryInit
<1>5. ViewNamesTheLast /\ CoversItsSearch /\ ReadyCitesWhatIs
  BY <1>1 DEF QueryInit, ViewNamesTheLast, CoversItsSearch, ReadyCitesWhatIs, Absent
<1> QED  BY <1>2, <1>4, <1>5 DEF QueryInv

(* A step of one episode that publishes nothing.                           *)
LEMMA EpisodeMoves ==
    ASSUME QueryInv, NEW c \in Controllers, NEW e \in Episodes,
           episode' = [episode EXCEPT ![c] = e],
           UNCHANGED <<corpus, text, versions>>,
           view' \in Views, view'.version = view.version,
           view'.status = "ready" => view.status = "ready",
           SearchesAfterNote(e), LooksAtVersion(e)
    PROVE  QueryInv'
<1> USE DEF QueryInv
<1>1. QueryTypes'  BY DEF QueryTypes
<1>2. ViewNamesTheLast' /\ CoversItsSearch' /\ ReadyCitesWhatIs'
  BY DEF ViewNamesTheLast, CoversItsSearch, ReadyCitesWhatIs, Current
<1>3. ASSUME NEW d \in Controllers
      PROVE  (SearchesAfterNote(episode[d]) /\ LooksAtVersion(episode[d]))'
  <2>1. CASE d = c
    BY <2>1 DEF SearchesAfterNote, LooksAtVersion, QueryTypes
  <2>2. CASE d # c
    BY <2>2 DEF SearchesAfterNote, LooksAtVersion, QueryTypes
  <2> QED  BY <2>1, <2>2
<1> QED  BY <1>1, <1>2, <1>3

LEMMA StaleIsTyped ==
    ASSUME QueryInv
    PROVE  StaleView \in Views /\ StaleView.version = view.version /\ StaleView.status = "stale"
<1>1. \A w \in Views, n \in Int, a \in Controllers \cup {Alone}, b \in BOOLEAN :
        LET s == [w EXCEPT !.status = "stale", !.generation = n, !.nonce = a, !.leased = b]
        IN  s \in Views /\ s.version = w.version /\ s.status = "stale"
  BY ZenonT(30) DEF Views
<1>2. view \in Views /\ view.generation + 1 \in Int
  BY DEF QueryInv, QueryTypes, Views
<1>3. StaleView = [view EXCEPT !.status = "stale", !.generation = view.generation + 1,
                               !.nonce = Alone, !.leased = FALSE]
  BY DEF StaleView
<1> QED  BY <1>1, <1>2, <1>3

(* A message changes: the trigger makes a ready view stale that cites it.  *)
LEMMA MessageChanges ==
    ASSUME QueryInv, NEW r \in Rows, NEW now \in Int, Change(r, now),
           view' = Invalidated(r, now) \/ (text[r] = Unborn /\ UNCHANGED view)
    PROVE  QueryInv'
<1> USE DEF QueryInv
<1>1. /\ corpus' = corpus + 1 /\ text' = [text EXCEPT ![r] = now]
      /\ UNCHANGED <<versions, episode>>
  BY DEF Change
<1>2. /\ view' \in Views /\ view'.version = view.version
      /\ view'.status = "ready" => view.status = "ready"
  <2>1. StaleView \in Views /\ StaleView.version = view.version /\ StaleView.status = "stale"
    BY StaleIsTyped
  <2> QED  BY <2>1 DEF Invalidated, QueryTypes
<1>3. QueryTypes'  BY <1>1, <1>2 DEF QueryTypes
<1>4. ViewNamesTheLast' /\ CoversItsSearch'
  BY <1>1, <1>2 DEF ViewNamesTheLast, CoversItsSearch
<1>5. \A c \in Controllers : (SearchesAfterNote(episode[c]) /\ LooksAtVersion(episode[c]))'
  BY <1>1 DEF SearchesAfterNote, LooksAtVersion, QueryTypes, Episodes
<1>6. ReadyCitesWhatIs'
  <2> SUFFICES ASSUME view'.status = "ready", NEW d \in versions[view.version].deps
               PROVE  text'[d.row] = d.text
    BY <1>1, <1>2 DEF ReadyCitesWhatIs, Current
  <2>1. view.status = "ready" /\ view.version \in 1 .. Len(versions)
    BY <1>2 DEF ViewNamesTheLast, QueryTypes, Views
  <2>2. d \in Citations
    <3>1. versions[view.version] \in Versions
      BY <2>1, ElementOfSeq DEF QueryTypes
    <3> QED  BY <3>1 DEF Versions
  <2>3. text[d.row] = d.text /\ d.row \in Rows /\ d.text # Unborn
    BY <2>1, <2>2 DEF ReadyCitesWhatIs, Current, Citations, Unborn
  <2>4. d.row # r
    <3>1. StaleView.status = "stale"  BY StaleIsTyped
    <3>2. CASE view' = Invalidated(r, now)
      <4>1. ~Cites(r)  BY <2>1, <3>1, <3>2 DEF Invalidated
      <4> QED  BY <2>1, <4>1 DEF Cites
    <3>3. CASE text[r] = Unborn  BY <2>3, <3>3
    <3> QED  BY <3>2, <3>3
  <2> QED  BY <1>1, <2>3, <2>4 DEF QueryTypes
<1> QED  BY <1>3, <1>4, <1>5, <1>6

-----------------------------------------------------------------------------
(* A look-up goes on, or turns into a search.                              *)
LEMMA SearchMoves ==
    ASSUME QueryInv, NEW c \in Controllers, Search(c),
           UNCHANGED <<corpus, text, versions>>,
           view' \in Views, view'.version = view.version,
           view'.status = "ready" => view.status = "ready"
    PROVE  QueryInv'
<1> DEFINE e == [NoEpisode EXCEPT !.at = "retrieve", !.snapshot = episode[c].snapshot]
<1>1. episode[c] \in Episodes  BY DEF QueryInv, QueryTypes
<1>2. e \in Episodes /\ e.at = "retrieve" /\ e.found = {} /\ e.snapshot = episode[c].snapshot
  BY <1>1, NoEpisodeIsTyped DEF Episodes
<1>3. SearchesAfterNote(e) /\ LooksAtVersion(e)
  BY <1>2 DEF QueryInv, SearchesAfterNote, LooksAtVersion, Looking, Hitting
<1>4. episode' = [episode EXCEPT ![c] = e]  BY DEF Search
<1> QED  BY <1>2, <1>3, <1>4, EpisodeMoves

LEMMA EpisodeStops ==
    ASSUME QueryInv, NEW c \in Controllers, episode' = [episode EXCEPT ![c] = NoEpisode],
           UNCHANGED <<corpus, text, versions>>,
           view' \in Views, view'.version = view.version,
           view'.status = "ready" => view.status = "ready"
    PROVE  QueryInv'
<1>1. SearchesAfterNote(NoEpisode) /\ LooksAtVersion(NoEpisode)
  BY NoEpisodeIsTyped DEF SearchesAfterNote, LooksAtVersion, Looking, Hitting,
                          QueryInv, QueryTypes
<1> QED  BY <1>1, NoEpisodeIsTyped, EpisodeMoves

LEMMA LookUpSteps ==
    ASSUME QueryInv, NEW c \in Controllers,
           \/ StartEpisode(c) \/ ReadView(c) \/ ReadSources(c) \/ ReadCorpus(c)
           \/ LookAgain(c) \/ ConfirmHit(c)
    PROVE  QueryInv'
<1> DEFINE old == episode[c]
<1>1. /\ old \in Episodes /\ view \in Views /\ corpus \in Nat
      /\ SearchesAfterNote(old) /\ LooksAtVersion(old)
      /\ UNCHANGED <<corpus, text, view, versions>>
  BY DEF QueryInv, QueryTypes, StartEpisode, ReadView, ReadSources, ReadCorpus,
         LookAgain, ConfirmHit
<1>2. CASE Search(c)  BY <1>1, <1>2, SearchMoves
<1>3. CASE StartEpisode(c)
  <2> DEFINE e == [NoEpisode EXCEPT !.at = "row", !.snapshot = corpus]
  <2>1. e \in Episodes /\ e.at = "row" /\ e.found = {} /\ e.snapshot = corpus
    BY <1>1, NoEpisodeIsTyped DEF Episodes
  <2>2. SearchesAfterNote(e) /\ LooksAtVersion(e)
    BY <1>1, <2>1 DEF SearchesAfterNote, LooksAtVersion, Looking, Hitting
  <2> QED  BY <1>1, <1>3, <2>1, <2>2, EpisodeMoves DEF StartEpisode
<1>4. CASE ReadView(c) /\ ~Search(c)
  <2>1. PICK at \in {"expire", "sources"}, intact \in BOOLEAN :
          episode' = [episode EXCEPT ![c].at = at, ![c].version = view.version,
                            ![c].generation = view.generation, ![c].intact = intact]
    BY <1>4 DEF ReadView
  <2> DEFINE e == [old EXCEPT !.at = at, !.version = view.version,
                              !.generation = view.generation, !.intact = intact]
  <2>2. /\ view.version \in 1 .. Len(versions) /\ view.version \in Nat
        /\ view.generation \in Int /\ old.at = "row"
    BY <1>4 DEF ReadView, QueryInv, ViewNamesTheLast, QueryTypes, Views
  <2>3. /\ e \in Episodes /\ e.at = at /\ e.version = view.version
        /\ e.found = old.found /\ e.snapshot = old.snapshot /\ e.since = old.since
    BY <1>1, <2>2 DEF Episodes, Looking
  <2>4. SearchesAfterNote(e) /\ LooksAtVersion(e)
    BY <1>1, <2>2, <2>3 DEF SearchesAfterNote, LooksAtVersion, Looking, Hitting
  <2>5. episode' = [episode EXCEPT ![c] = e]  BY <2>1 DEF QueryInv, QueryTypes
  <2> QED  BY <1>1, <2>3, <2>4, <2>5, EpisodeMoves
<1>5. CASE ReadSources(c)
  <2>1. PICK intact \in BOOLEAN :
          episode' = [episode EXCEPT ![c].at = "corpus", ![c].intact = intact]
    BY <1>1, <1>5 DEF ReadSources, Episodes
  <2> DEFINE e == [old EXCEPT !.at = "corpus", !.intact = intact]
  <2>2. /\ e \in Episodes /\ e.at = "corpus" /\ e.version = old.version
        /\ e.found = old.found /\ e.snapshot = old.snapshot /\ e.since = old.since
    BY <1>1 DEF Episodes, Looking
  <2>3. SearchesAfterNote(e) /\ LooksAtVersion(e)
    BY <1>1, <1>5, <2>2 DEF SearchesAfterNote, LooksAtVersion, ReadSources, Looking, Hitting
  <2>4. episode' = [episode EXCEPT ![c] = e]  BY <2>1 DEF QueryInv, QueryTypes
  <2> QED  BY <1>1, <2>2, <2>3, <2>4, EpisodeMoves
<1>6. CASE ReadCorpus(c)
  <2> DEFINE fresh == old.intact /\ versions[old.version].covered = corpus
  <2>1. PICK at \in {"stale", "again", "confirm"}, held \in Nat :
          /\ episode' = [episode EXCEPT ![c].at = at, ![c].seen = corpus, ![c].held = held]
          /\ at # "stale" => versions[old.version].covered = corpus
    <3>1. old.held \in Nat /\ old.version \in Nat  BY <1>1 DEF Episodes
    <3>2. CASE fresh /\ old.round = 1
      <4>1. episode' = [episode EXCEPT ![c].at = "again", ![c].seen = corpus,
                                      ![c].held = old.version]
        BY <1>6, <3>2 DEF ReadCorpus, QueryInv, QueryTypes
      <4> QED  BY <3>1, <3>2, <4>1
    <3>3. CASE fresh /\ old.round # 1
      <4>1. episode' = [episode EXCEPT ![c].at = "confirm", ![c].seen = corpus,
                                      ![c].held = old.held]
        BY <1>6, <3>3 DEF ReadCorpus, QueryInv, QueryTypes
      <4> QED  BY <3>1, <3>3, <4>1
    <3>4. CASE ~fresh
      <4>1. episode' = [episode EXCEPT ![c].at = "stale", ![c].seen = corpus,
                                      ![c].held = old.held]
        BY <1>6, <3>4 DEF ReadCorpus, QueryInv, QueryTypes
      <4> QED  BY <3>1, <3>4, <4>1
    <3> QED  BY <3>2, <3>3, <3>4
  <2> DEFINE e == [old EXCEPT !.at = at, !.seen = corpus, !.held = held]
  <2>2. /\ e \in Episodes /\ e.at = at /\ e.version = old.version /\ e.seen = corpus
        /\ e.found = old.found /\ e.snapshot = old.snapshot /\ e.since = old.since
    BY <1>1 DEF Episodes, Looking, Hitting
  <2>3. SearchesAfterNote(e) /\ LooksAtVersion(e)
    BY <1>1, <1>6, <2>1, <2>2 DEF SearchesAfterNote, LooksAtVersion, ReadCorpus, Looking, Hitting
  <2>4. episode' = [episode EXCEPT ![c] = e]  BY <2>1 DEF QueryInv, QueryTypes
  <2> QED  BY <1>1, <2>2, <2>3, <2>4, EpisodeMoves
<1>7. CASE (LookAgain(c) \/ ConfirmHit(c)) /\ ~Search(c)
  <2>1. PICK at \in {"row", "unmet", "ready"}, round \in Nat :
          /\ episode' = [episode EXCEPT ![c].at = at, ![c].round = round]
          /\ at = "ready" => old.at = "confirm"
          /\ old.at \in {"again", "confirm"}
    <3>1. old.round \in Nat  BY <1>1 DEF Episodes
    <3>2. CASE LookAgain(c)
      <4>1. CASE Step(c, "unmet")
        <5>1. episode' = [episode EXCEPT ![c].at = "unmet", ![c].round = old.round]
          BY <1>1, <4>1 DEF Step, QueryInv, QueryTypes, Episodes
        <5> QED  BY <3>1, <3>2, <5>1 DEF LookAgain
      <4> QED  BY <1>7, <3>2, <4>1 DEF LookAgain
    <3>3. CASE ConfirmHit(c)
      <4>1. episode' = [episode EXCEPT ![c].at = "ready", ![c].round = old.round]
        BY <1>1, <1>7, <3>3 DEF ConfirmHit, Step, QueryInv, QueryTypes, Episodes
      <4> QED  BY <3>1, <3>3, <4>1 DEF ConfirmHit
    <3> QED  BY <1>7, <3>2, <3>3
  <2> DEFINE e == [old EXCEPT !.at = at, !.round = round]
  <2>2. /\ e \in Episodes /\ e.at = at /\ e.version = old.version /\ e.seen = old.seen
        /\ e.found = old.found /\ e.snapshot = old.snapshot /\ e.since = old.since
    BY <1>1 DEF Episodes, Looking, Hitting
  <2>3. SearchesAfterNote(e) /\ LooksAtVersion(e)
    BY <1>1, <2>1, <2>2 DEF SearchesAfterNote, LooksAtVersion, Looking, Hitting
  <2>4. episode' = [episode EXCEPT ![c] = e]  BY <2>1 DEF QueryInv, QueryTypes
  <2> QED  BY <1>1, <2>2, <2>3, <2>4, EpisodeMoves
<1> QED  BY <1>2, <1>3, <1>4, <1>5, <1>6, <1>7

LEMMA CurationSteps ==
    ASSUME QueryInv, NEW c \in Controllers,
           ExpireView(c) \/ MarkStale(c) \/ MarkFailed(c) \/ EndEpisode(c)
    PROVE  QueryInv'
<1>1. view \in Views /\ view.generation + 1 \in Int
  BY DEF QueryInv, QueryTypes, Views
<1>2. CASE ExpireView(c)
  <2>1. view' \in Views /\ view'.version = view.version
        /\ (view'.status = "ready" => view.status = "ready")
    <3> DEFINE expired == [view EXCEPT !.status = "expired", !.generation = view.generation + 1]
    <3>1. expired \in Views /\ expired.version = view.version /\ expired.status = "expired"
      BY <1>1 DEF Views
    <3>2. view' = view \/ view' = expired  BY <1>2 DEF ExpireView
    <3> QED  BY <1>1, <3>1, <3>2
  <2> QED  BY <1>2, <2>1, SearchMoves DEF ExpireView
<1>3. CASE MarkStale(c)
  BY <1>1, <1>3, StaleIsTyped, SearchMoves DEF MarkStale
<1>4. CASE MarkFailed(c)
  <2>1. view' \in Views /\ view'.version = view.version
        /\ (view'.status = "ready" => view.status = "ready")
    <3> DEFINE failed == [view EXCEPT !.status = "failed", !.nonce = Alone, !.leased = FALSE]
    <3>1. failed \in Views /\ failed.version = view.version /\ failed.status = "failed"
      BY <1>1 DEF Views, Alone
    <3>2. view' = view \/ view' = failed  BY <1>4 DEF MarkFailed
    <3> QED  BY <1>1, <3>1, <3>2
  <2> QED  BY <1>4, <2>1, EpisodeStops DEF MarkFailed
<1>5. CASE EndEpisode(c)  BY <1>1, <1>5, EpisodeStops DEF EndEpisode
<1> QED  BY <1>2, <1>3, <1>4, <1>5

LEMMA PresentIsCited ==
    ASSUME QueryInv, NEW r \in Present
    PROVE  Citation(r) \in Citations
<1>1. r \in Rows /\ text[r] \in Nat \ {0}  BY DEF Present, QueryInv, QueryTypes
<1> QED  BY <1>1 DEF Citation, Citations

LEMMA BuildSteps ==
    ASSUME QueryInv, NEW c \in Controllers,
           Retrieve(c) \/ ClaimBuild(c) \/ Cite(c)
    PROVE  QueryInv'
<1> DEFINE old == episode[c]
<1>1. /\ old \in Episodes /\ view \in Views /\ corpus \in Nat
      /\ SearchesAfterNote(old) /\ UNCHANGED <<corpus, text, versions>>
      /\ episode \in [Controllers -> Episodes]
  BY DEF QueryInv, QueryTypes, Retrieve, ClaimBuild, Cite
<1>2. CASE Retrieve(c)
  <2>1. PICK r \in Present :
          episode' = [episode EXCEPT ![c].found = @ \cup {Citation(r)},
                             ![c].since = IF old.found = {} THEN corpus ELSE @]
    BY <1>2 DEF Retrieve
  <2> DEFINE since == IF old.found = {} THEN corpus ELSE old.since
             found == old.found \cup {Citation(r)}
             e == [old EXCEPT !.found = found, !.since = since]
  <2>2. found \in SUBSET Citations /\ since \in Nat
    BY <1>1, PresentIsCited DEF Episodes
  <2>3. /\ e \in Episodes /\ e.at = "retrieve" /\ e.found = found
        /\ e.snapshot = old.snapshot /\ e.since = since
    <3> HIDE DEF found, since
    <3> QED  BY <1>1, <1>2, <2>2 DEF Episodes, Retrieve
  <2>4. SearchesAfterNote(e) /\ LooksAtVersion(e)
    <3>1. old.snapshot <= since /\ since <= corpus
      BY <1>1 DEF SearchesAfterNote, Episodes
    <3> QED  BY <1>1, <2>3, <3>1 DEF SearchesAfterNote, LooksAtVersion, Looking, Hitting
  <2>5. episode' = [episode EXCEPT ![c] = e]  BY <1>1, <2>1
  <2> QED  BY <1>1, <1>2, <2>3, <2>4, <2>5, EpisodeMoves DEF Retrieve
<1>3. CASE ClaimBuild(c) /\ ~(view.status = "building" /\ view.leased)
  <2> DEFINE n == IF view.status = Absent THEN 0 ELSE view.generation + 1
             w == [view EXCEPT !.status = "building", !.nonce = c, !.leased = TRUE,
                               !.generation = n]
             e == [old EXCEPT !.at = "cite", !.base = view.version,
                              !.generation = w.generation, !.snapshot = SnapshotOf(c)]
  <2>1. n \in Int /\ view.version \in Nat  BY <1>1 DEF Views
  <2>2. w \in Views /\ w.version = view.version /\ w.status = "building"
        /\ w.generation \in Int
    <3> HIDE DEF n
    <3>1. \A k \in Int : LET u == [view EXCEPT !.status = "building", !.nonce = c,
                                               !.leased = TRUE, !.generation = k]
                          IN  /\ u \in Views /\ u.version = view.version
                              /\ u.status = "building" /\ u.generation \in Int
      BY <1>1 DEF Views
    <3> QED  BY <2>1, <3>1
  <2>3. view' = w  BY <1>3 DEF ClaimBuild
  <2>4. SnapshotOf(c) = old.snapshot  BY DEF SnapshotOf
  <2>5. /\ e \in Episodes /\ e.at = "cite" /\ e.found = old.found
        /\ e.snapshot = old.snapshot /\ e.since = old.since
    <3> HIDE DEF w
    <3> QED  BY <1>1, <2>1, <2>2, <2>4 DEF Episodes
  <2>6. SearchesAfterNote(e) /\ LooksAtVersion(e)
    BY <1>1, <1>3, <2>5 DEF SearchesAfterNote, LooksAtVersion, Looking, Hitting, ClaimBuild
  <2>7. episode' = [episode EXCEPT ![c] = e]
    <3>1. episode' = [episode EXCEPT ![c].at = "cite", ![c].base = view.version,
                            ![c].generation = w.generation, ![c].snapshot = SnapshotOf(c)]
      BY <1>3, <2>3 DEF ClaimBuild
    <3> HIDE DEF w
    <3> QED  BY <1>1, <3>1
  <2> HIDE DEF w, e
  <2> QED  BY <1>1, <2>2, <2>3, <2>5, <2>6, <2>7, EpisodeMoves
<1>4. CASE ClaimBuild(c) /\ view.status = "building" /\ view.leased
  BY <1>1, <1>4, EpisodeStops DEF ClaimBuild
<1>5. CASE Cite(c)
  <2>1. PICK e \in Episodes :
          /\ episode' = [episode EXCEPT ![c] = e] /\ e.at \in {"publish", "fail"}
          /\ e.found = {} \/ e.found = old.found
          /\ e.snapshot = old.snapshot /\ e.since = old.since
          /\ old.at = "cite"
    <3>1. CASE /\ {d.row : d \in old.found} \subseteq Present
               /\ episode' = [episode EXCEPT ![c].at = "publish", ![c].found = {},
                                   ![c].deps = {Citation(d.row) : d \in old.found}]
      <4> DEFINE deps == {Citation(d.row) : d \in old.found}
                 e == [old EXCEPT !.at = "publish", !.found = {}, !.deps = deps]
      <4>1. deps \in SUBSET Citations  BY <3>1, PresentIsCited
      <4>2. /\ e \in Episodes /\ e.at = "publish" /\ e.found = {}
            /\ e.snapshot = old.snapshot /\ e.since = old.since
        <5> HIDE DEF deps
        <5> QED  BY <1>1, <4>1 DEF Episodes
      <4>3. episode' = [episode EXCEPT ![c] = e]  BY <1>1, <3>1
      <4> QED  BY <1>5, <4>2, <4>3 DEF Cite
    <3>2. CASE Step(c, "fail")
      <4> DEFINE e == [old EXCEPT !.at = "fail"]
      <4>1. /\ e \in Episodes /\ e.at = "fail" /\ e.found = old.found
            /\ e.snapshot = old.snapshot /\ e.since = old.since
        BY <1>1 DEF Episodes
      <4>2. episode' = [episode EXCEPT ![c] = e]  BY <1>1, <3>2 DEF Step
      <4> QED  BY <1>5, <4>1, <4>2 DEF Cite
    <3> QED  BY <1>5, <3>1, <3>2 DEF Cite
  <2>2. SearchesAfterNote(e) /\ LooksAtVersion(e)
    BY <1>1, <2>1 DEF SearchesAfterNote, LooksAtVersion, Looking, Hitting
  <2> QED  BY <1>1, <1>5, <2>1, <2>2, EpisodeMoves DEF Cite
<1> QED  BY <1>2, <1>3, <1>4, <1>5


(* The transaction that makes a version: the corpus is what the episode    *)
(* noted, so its search, which came after, saw the same.                   *)
LEMMA QueryPublishInv ==
    ASSUME QueryInv, NEW c \in Controllers, PublishReady(c)
    PROVE  QueryInv'
<1> USE DEF QueryInv
<1> DEFINE old == episode[c]
           made == [covered |-> corpus, old |-> FALSE, deps |-> old.deps, since |-> old.since]
           ready == [view EXCEPT !.status = "ready", !.nonce = Alone, !.leased = FALSE,
                                 !.version = view.version + 1]
<1>1. /\ old \in Episodes /\ view \in Views /\ corpus \in Nat /\ versions \in Seq(Versions)
      /\ old.at = "publish" /\ UNCHANGED <<corpus, text>>
      /\ view.version = Len(versions) /\ Len(versions) \in Nat
  BY LenProperties DEF QueryTypes, PublishReady, ViewNamesTheLast
<1>2. CASE UNCHANGED <<view, versions>> /\ episode' = [episode EXCEPT ![c] = NoEpisode]
  BY <1>1, <1>2, EpisodeStops
<1>3. CASE view' = StaleView /\ UNCHANGED versions
           /\ episode' = [episode EXCEPT ![c] = NoEpisode]
  BY <1>1, <1>3, StaleIsTyped, EpisodeStops
<1>4. CASE UNCHANGED <<view, versions>> /\ Step(c, "fail")
  <2> DEFINE e == [old EXCEPT !.at = "fail"]
  <2>1. /\ e \in Episodes /\ e.at = "fail" /\ e.found = old.found
        /\ e.snapshot = old.snapshot /\ e.since = old.since
    BY <1>1 DEF Episodes
  <2>2. SearchesAfterNote(e) /\ LooksAtVersion(e)
    BY <2>1 DEF SearchesAfterNote, LooksAtVersion, Looking, Hitting
  <2>3. episode' = [episode EXCEPT ![c] = e]  BY <1>4 DEF Step, QueryTypes
  <2> QED  BY <1>1, <1>4, <2>1, <2>2, <2>3, EpisodeMoves
<1>5. CASE /\ corpus = old.snapshot /\ \A d \in old.deps : Current(d)
           /\ versions' = Append(versions, made) /\ view' = ready
           /\ episode' = [episode EXCEPT ![c] = NoEpisode]
  <2>1. old.since = corpus
    BY <1>1, <1>5 DEF SearchesAfterNote, Episodes
  <2>2. made \in Versions /\ made.covered = corpus /\ made.since = corpus
        /\ made.deps = old.deps
    BY <1>1, <2>1 DEF Versions, Episodes
  <2>3. ready \in Views /\ ready.status = "ready" /\ ready.version = Len(versions) + 1
    <3>1. \A n \in Nat : LET w == [view EXCEPT !.status = "ready", !.nonce = Alone,
                                               !.leased = FALSE, !.version = n]
                         IN  w \in Views /\ w.status = "ready" /\ w.version = n
      BY <1>1 DEF Views, Alone
    <3>2. view.version + 1 \in Nat /\ view.version + 1 = Len(versions) + 1  BY <1>1
    <3> QED  BY <3>1, <3>2
  <2>4. /\ versions' \in Seq(Versions) /\ Len(versions') = Len(versions) + 1
        /\ \A i \in 1 .. Len(versions) : versions'[i] = versions[i]
        /\ versions'[Len(versions) + 1] = made
    BY <1>1, <1>5, <2>2, AppendProperties
  <2>5. QueryTypes'
    BY <1>1, <1>5, <2>3, <2>4, NoEpisodeIsTyped DEF QueryTypes
  <2>6. ViewNamesTheLast'  BY <1>1, <1>5, <2>3, <2>4 DEF ViewNamesTheLast
  <2>7. CoversItsSearch'
    <3> SUFFICES ASSUME NEW i \in 1 .. Len(versions) + 1
                 PROVE  versions'[i].since = versions'[i].covered
      BY <2>4 DEF CoversItsSearch
    <3>1. CASE i = Len(versions) + 1  BY <2>2, <2>4, <3>1
    <3>2. CASE i \in 1 .. Len(versions)  BY <2>4, <3>2 DEF CoversItsSearch
    <3> QED  BY <1>1, <3>1, <3>2
  <2>8. ReadyCitesWhatIs'
    BY <1>1, <1>5, <2>2, <2>3, <2>4 DEF ReadyCitesWhatIs, Current
  <2>9. ASSUME NEW d \in Controllers
        PROVE  (SearchesAfterNote(episode[d]) /\ LooksAtVersion(episode[d]))'
    <3>1. CASE d = c
      <4>1. episode'[d] = NoEpisode  BY <1>5, <3>1 DEF QueryTypes
      <4> QED  BY <1>1, <4>1, NoEpisodeIsTyped
               DEF SearchesAfterNote, LooksAtVersion, Looking, Hitting
    <3>2. CASE d # c
      <4>1. episode'[d] = episode[d]  BY <1>5, <3>2 DEF QueryTypes
      <4>2. SearchesAfterNote(episode[d]) /\ LooksAtVersion(episode[d])  OBVIOUS
      <4> QED  BY <1>1, <2>4, <4>1, <4>2 DEF SearchesAfterNote, LooksAtVersion
    <3> QED  BY <3>1, <3>2
  <2> QED  BY <2>5, <2>6, <2>7, <2>8, <2>9
<1> QED  BY <1>2, <1>3, <1>4, <1>5 DEF PublishReady

(* Time only passes.                                                       *)
LEMMA LeaseRunsOutInv ==
    ASSUME QueryInv, LeaseRunsOut
    PROVE  QueryInv'
<1> USE DEF QueryInv
<1>1. /\ view' \in Views /\ view'.version = view.version /\ view'.status = view.status
      /\ UNCHANGED <<corpus, text, versions, episode>>
  BY DEF LeaseRunsOut, QueryTypes, Views
<1> QED  BY <1>1 DEF QueryTypes, ViewNamesTheLast, CoversItsSearch, SearchesAfterNote,
                     LooksAtVersion, ReadyCitesWhatIs, Current

LEMMA TtlPassesInv ==
    ASSUME QueryInv, TtlPasses
    PROVE  QueryInv'
<1> USE DEF QueryInv
<1>1. /\ versions \in Seq(Versions) /\ view.version \in 1 .. Len(versions)
      /\ versions' = [versions EXCEPT ![view.version].old = TRUE]
      /\ UNCHANGED <<corpus, text, view, episode>>
  BY LenProperties DEF TtlPasses, QueryTypes, ViewNamesTheLast
<1> DEFINE aged == [versions[view.version] EXCEPT !.old = TRUE]
<1>2. versions[view.version] \in Versions  BY <1>1, ElementOfSeq
<1>3. aged \in Versions /\ aged.covered = versions[view.version].covered
      /\ aged.since = versions[view.version].since /\ aged.deps = versions[view.version].deps
  BY <1>2 DEF Versions
<1>4. versions' = [versions EXCEPT ![view.version] = aged]  BY <1>1
<1> HIDE DEF aged
<1>5. /\ versions' \in Seq(Versions) /\ Len(versions') = Len(versions)
      /\ \A i \in 1 .. Len(versions) : versions'[i] = IF i = view.version THEN aged ELSE versions[i]
  <2> DEFINE n == view.version
  <2>1. n \in 1 .. Len(versions) /\ versions \in Seq(Versions) /\ aged \in Versions
    BY <1>1, <1>3
  <2>2. versions' = [versions EXCEPT ![n] = aged]  BY <1>4
  <2> HIDE DEF n
  <2>3. /\ [versions EXCEPT ![n] = aged] \in Seq(Versions)
        /\ Len([versions EXCEPT ![n] = aged]) = Len(versions)
        /\ \A i \in 1 .. Len(versions) :
              [versions EXCEPT ![n] = aged][i] = IF i = n THEN aged ELSE versions[i]
    BY <2>1, ExceptSeq
  <2> QED  BY <2>2, <2>3 DEF n
<1>6. \A i \in 1 .. Len(versions) : /\ versions'[i].covered = versions[i].covered
                                   /\ versions'[i].since = versions[i].since
                                   /\ versions'[i].deps = versions[i].deps
  BY <1>3, <1>5
<1>7. ReadyCitesWhatIs'  BY <1>1, <1>6 DEF ReadyCitesWhatIs, Current
<1> QED  BY <1>1, <1>5, <1>6, <1>7 DEF QueryTypes, ViewNamesTheLast, CoversItsSearch,
                                       SearchesAfterNote, LooksAtVersion

-----------------------------------------------------------------------------
LEMMA QueryStepInv == QueryInv /\ [QueryNext]_queryVars => QueryInv'
<1> SUFFICES ASSUME QueryInv, [QueryNext]_queryVars PROVE QueryInv'
  OBVIOUS
<1>1. ASSUME NEW r \in Rows, InsertMessage(r) \/ UpdateMessage(r) \/ DeleteMessage(r)
      PROVE  QueryInv'
  <2>1. text[r] + 1 \in Int /\ 1 \in Int /\ Gone \in Int
    BY DEF QueryInv, QueryTypes, Gone
  <2> QED  BY <1>1, <2>1, MessageChanges DEF InsertMessage, UpdateMessage, DeleteMessage
<1>2. ASSUME NEW c \in Controllers,
             \/ StartEpisode(c) \/ ReadView(c) \/ ReadSources(c) \/ ReadCorpus(c)
             \/ LookAgain(c) \/ ConfirmHit(c)
      PROVE  QueryInv'
  BY <1>2, LookUpSteps
<1>3. ASSUME NEW c \in Controllers,
             ExpireView(c) \/ MarkStale(c) \/ MarkFailed(c) \/ EndEpisode(c)
      PROVE  QueryInv'
  BY <1>3, CurationSteps
<1>4. ASSUME NEW c \in Controllers,
             Retrieve(c) \/ ClaimBuild(c) \/ Cite(c) \/ PublishReady(c)
      PROVE  QueryInv'
  BY <1>4, BuildSteps, QueryPublishInv
<1>5. CASE UNCHANGED queryVars
  BY <1>5 DEF queryVars, QueryInv, QueryTypes, ViewNamesTheLast, CoversItsSearch,
              SearchesAfterNote, LooksAtVersion, ReadyCitesWhatIs, Current
<1> QED  BY <1>1, <1>2, <1>3, <1>4, <1>5, LeaseRunsOutInv, TtlPassesInv DEF QueryNext

(* Whoever changes messages and whichever builds race, a view that is      *)
(* ready cites rows as they are.                                           *)
THEOREM ReadyIsTrue == QuerySpec => []ReadyCitesWhatIs
<1>1. QueryInv => ReadyCitesWhatIs  BY DEF QueryInv
<1> QED  BY QueryInitInv, QueryStepInv, <1>1, PTL DEF QuerySpec

(* What a look-up calls a hit was found entirely in the corpus the look-up *)
(* compares it with.                                                       *)
THEOREM HitsAreComplete == QuerySpec => []HitMissesNothing
<1>1. QueryInv => HitMissesNothing
  <2> SUFFICES ASSUME QueryInv, NEW c \in Controllers, episode[c].at \in Hitting
               PROVE  versions[episode[c].version].since = episode[c].seen
    BY DEF HitMissesNothing, Hitting
  <2>1. LooksAtVersion(episode[c]) /\ CoversItsSearch  BY DEF QueryInv
  <2> QED  BY <2>1 DEF LooksAtVersion, CoversItsSearch
<1> QED  BY QueryInitInv, QueryStepInv, <1>1, PTL DEF QuerySpec

-----------------------------------------------------------------------------
(***************************************************************************)
(* Assertions                                                              *)
(***************************************************************************)
AssertionsSpec == AssertionsInit /\ [][AssertionsNext]_assertionVars

Texts == {"raw", "rewritten"}

AssertionsTypes ==
    /\ rowText \in [Sources -> Texts \cup {"gone"}]
    /\ current \subseteq Keys
    /\ batch \in [Extractors -> Seq(Keys)]
    /\ \A e \in Extractors : reading[e].ready = TRUE => batch[e] # << >>
    /\ reading \in [Extractors -> [words : SUBSET Words, ready : BOOLEAN,
                                   links : SUBSET (Claims \X Claims)]]

\* What makes every query go through: a receipt in force was read from the
\* text its row has now.
CurrentMatches == \A k \in current : Matches(k)

AssertionsInv == AssertionsTypes /\ CurrentMatches

-----------------------------------------------------------------------------
LEMMA AssertionsInitInv == AssertionsInit => AssertionsInv
<1> SUFFICES ASSUME AssertionsInit PROVE AssertionsInv
  OBVIOUS
<1>1. << >> \in Seq(Keys)  BY EmptySeq
<1> QED  BY <1>1 DEF AssertionsInit, AssertionsInv, AssertionsTypes, CurrentMatches,
                     NothingRead, Texts

(* A trigger takes a row's receipts away in the transaction that changes   *)
(* the row.                                                                *)
LEMMA TextChanges ==
    ASSUME AssertionsInv, NEW s \in Sources, NEW now \in Texts \cup {"gone"},
           rowText' = [rowText EXCEPT ![s] = now] \/ rowText' = rowText,
           current' = StandingBut(s), UNCHANGED <<batch, reading>>
    PROVE  AssertionsInv'
<1> USE DEF AssertionsInv
<1>1. AssertionsTypes'  BY DEF AssertionsTypes, StandingBut
<1>2. CurrentMatches'
  <2> SUFFICES ASSUME NEW k \in current, k[1] # s PROVE rowText'[k[1]] = k[2]
    BY DEF CurrentMatches, StandingBut, Matches
  <2>1. k[1] \in Sources  BY DEF AssertionsTypes, Keys
  <2>2. rowText[k[1]] = k[2]  BY DEF CurrentMatches, Matches
  <2> QED  BY <2>1, <2>2 DEF AssertionsTypes
<1> QED  BY <1>1, <1>2

LEMMA TakeBatchInv ==
    ASSUME AssertionsInv, NEW e \in Extractors, TakeBatch(e)
    PROVE  AssertionsInv'
<1> USE DEF AssertionsInv
<1>1. PICK chosen \in SUBSET Pending :
        /\ Cardinality(chosen) \in 1 .. MaxBatch
        /\ \E order \in SetToSeqs(chosen) :
              batch' = [batch EXCEPT ![e] = [i \in DOMAIN order |->
                                                <<order[i], rowText[order[i]]>>]]
  BY DEF TakeBatch
<1>2. PICK order \in SetToSeqs(chosen) :
        batch' = [batch EXCEPT ![e] = [i \in DOMAIN order |->
                                          <<order[i], rowText[order[i]]>>]]
  BY <1>1
<1> DEFINE taken == [i \in DOMAIN order |-> <<order[i], rowText[order[i]]>>]
           n == Cardinality(chosen)
<1>3. n \in Nat /\ order \in [1 .. n -> chosen] /\ n >= 1
  BY <1>1, <1>2 DEF SetToSeqs
<1>4. \A s \in chosen : <<s, rowText[s]>> \in Keys
  BY DEF Pending, AssertionsTypes, Keys, Texts
<1>5. taken \in [1 .. n -> Keys]  BY <1>3, <1>4
<1>6. taken \in Seq(Keys) /\ taken # << >>
  <2>1. taken \in Seq(Keys)  BY <1>3, <1>5, SeqDef
  <2>2. 1 \in DOMAIN taken  BY <1>3, <1>5
  <2> QED  BY <2>1, <2>2
<1>7. batch' = [batch EXCEPT ![e] = taken]  BY <1>2
<1>8. UNCHANGED <<rowText, current, reading>>  BY DEF TakeBatch
<1>9. AssertionsTypes'  BY <1>6, <1>7, <1>8 DEF AssertionsTypes
<1> QED  BY <1>8, <1>9 DEF CurrentMatches, Matches

(* After a row the extractor goes on with a shorter batch, or with none.   *)
LEMMA BatchShrinks ==
    ASSUME AssertionsInv, NEW e \in Extractors, NEW rest \in Seq(Keys),
           batch' = [batch EXCEPT ![e] = rest],
           reading' = [reading EXCEPT ![e] = NothingRead],
           UNCHANGED rowText, current' \subseteq Keys
    PROVE  AssertionsTypes'
BY DEF AssertionsInv, AssertionsTypes, NothingRead

LEMMA DoneIsTyped ==
    ASSUME AssertionsInv, NEW e \in Extractors, batch[e] # << >>, Done(e),
           UNCHANGED rowText, current' \subseteq Keys
    PROVE  AssertionsTypes'
<1>1. batch[e] \in Seq(Keys)  BY DEF AssertionsInv, AssertionsTypes
<1>2. Tail(batch[e]) \in Seq(Keys)  BY <1>1, HeadTailProperties
<1>3. batch' = [batch EXCEPT ![e] = Tail(batch[e])]
  BY DEF Done, AssertionsInv, AssertionsTypes
<1> QED  BY <1>2, <1>3, BatchShrinks DEF Done

LEMMA AssertionsPublishInv ==
    ASSUME AssertionsInv, NEW e \in Extractors, PublishAssertions(e)
    PROVE  AssertionsInv'
<1> DEFINE k == Head(batch[e])
           o == [words |-> reading[e].words, links |-> reading[e].links]
<1>1. batch[e] # << >> /\ batch[e] \in Seq(Keys)
  BY Zenon DEF AssertionsInv, AssertionsTypes, PublishAssertions
<1>2. k \in Keys  BY <1>1, HeadTailProperties
<1>3. /\ current' = current \/ (current' = current \cup {k} /\ Matches(k))
      /\ UNCHANGED rowText /\ Done(e)
  BY DEF PublishAssertions, Accepts
<1>4. current' \subseteq Keys
  BY <1>2, <1>3 DEF AssertionsInv, AssertionsTypes
<1>5. AssertionsTypes'  BY <1>1, <1>3, <1>4, DoneIsTyped
<1>6. CurrentMatches'
  BY <1>3 DEF AssertionsInv, CurrentMatches, Matches
<1> QED  BY <1>5, <1>6 DEF AssertionsInv

LEMMA ExtractInv ==
    ASSUME AssertionsInv, NEW e \in Extractors, Extract(e)
    PROVE  AssertionsInv'
<1> USE DEF AssertionsInv
<1>1. /\ batch[e] # << >> /\ batch[e] \in Seq(Keys)
      /\ UNCHANGED <<rowText, current, batch>>
  BY DEF Extract, AssertionsTypes
<1>2. Head(batch[e]) \in Keys  BY <1>1, HeadTailProperties
<1>3. PICK words \in SUBSET Words :
        LET own == {<<Head(batch[e]), w>> : w \in words}
            ends == own \cup ActiveClaims
        IN  \E links \in SUBSET {l \in own \X ends : l[1] # l[2]} :
              reading' = [reading EXCEPT ![e] =
                            [words |-> words, links |-> links, ready |-> TRUE]]
  BY DEF Extract
<1> DEFINE own == {<<Head(batch[e]), w>> : w \in words}
           ends == own \cup ActiveClaims
<1>4. PICK links \in SUBSET {l \in own \X ends : l[1] # l[2]} :
        reading' = [reading EXCEPT ![e] =
                      [words |-> words, links |-> links, ready |-> TRUE]]
  BY <1>3
<1>5. own \subseteq Claims /\ ActiveClaims \subseteq Claims
  BY <1>2 DEF Claims, ActiveClaims
<1>6. links \subseteq Claims \X Claims  BY <1>4, <1>5
<1>7. AssertionsTypes'  BY <1>1, <1>4, <1>6 DEF AssertionsTypes
<1> QED  BY <1>1, <1>7 DEF CurrentMatches, Matches

LEMMA AssertionsStepInv == AssertionsInv /\ [AssertionsNext]_assertionVars => AssertionsInv'
<1> SUFFICES ASSUME AssertionsInv, [AssertionsNext]_assertionVars PROVE AssertionsInv'
  OBVIOUS
<1>1. ASSUME NEW s \in Sources, RewriteText(s) PROVE AssertionsInv'
  BY <1>1, TextChanges DEF RewriteText, Texts
<1>2. ASSUME NEW s \in Sources, DeleteText(s) PROVE AssertionsInv'
  BY <1>2, TextChanges DEF DeleteText
<1>3. ASSUME NEW s \in Sources, Invalidate(s) PROVE AssertionsInv'
  BY <1>3, TextChanges DEF Invalidate, Texts
<1>4. ASSUME NEW e \in Extractors, TakeBatch(e) \/ Extract(e) \/ PublishAssertions(e)
      PROVE  AssertionsInv'
  BY <1>4, TakeBatchInv, ExtractInv, AssertionsPublishInv
<1>5. ASSUME NEW e \in Extractors, SkipCurrent(e) \/ FailExtract(e)
      PROVE  AssertionsInv'
  <2>1. /\ batch[e] # << >> /\ Done(e) /\ UNCHANGED <<rowText, current>>
        /\ current' \subseteq Keys
    BY <1>5 DEF SkipCurrent, FailExtract, AssertionsInv, AssertionsTypes
  <2> QED  BY <2>1, DoneIsTyped DEF AssertionsInv, CurrentMatches, Matches
<1>6. ASSUME NEW e \in Extractors, StopExtractor(e) PROVE AssertionsInv'
  <2>1. /\ batch' = [batch EXCEPT ![e] = << >>]
        /\ reading' = [reading EXCEPT ![e] = NothingRead]
        /\ UNCHANGED <<rowText, current>> /\ current' \subseteq Keys
    BY <1>6 DEF StopExtractor, AssertionsInv, AssertionsTypes
  <2> QED  BY <2>1, EmptySeq, BatchShrinks DEF AssertionsInv, CurrentMatches, Matches
<1>7. CASE UNCHANGED assertionVars
  BY <1>7 DEF assertionVars, AssertionsInv, AssertionsTypes, CurrentMatches, Matches
<1> QED  BY <1>1, <1>2, <1>3, <1>4, <1>5, <1>6, <1>7 DEF AssertionsNext

-----------------------------------------------------------------------------
LEMMA MatchingIsAnswered == CurrentMatches => QueriesAreAnswered
<1> SUFFICES ASSUME CurrentMatches PROVE ~Refused
  BY DEF QueriesAreAnswered
<1>1. \A c \in ActiveClaims : Matches(c[1])
  BY DEF ActiveClaims, CurrentMatches
<1>2. \A l \in ActiveLinks : Matches(l[1][1]) /\ Matches(l[2][1])
  BY <1>1 DEF ActiveLinks
<1> QED  BY <1>1, <1>2 DEF Refused

(* However extractors race with rewrites, deletions and one another, no    *)
(* query meets a receipt whose text is not the row's.                      *)
THEOREM AnswersAreCurrent == AssertionsSpec => []QueriesAreAnswered
<1>1. AssertionsInv => QueriesAreAnswered  BY MatchingIsAnswered DEF AssertionsInv
<1> QED  BY AssertionsInitInv, AssertionsStepInv, <1>1, PTL DEF AssertionsSpec

(* What was published for a text stays, in force or set aside.             *)
THEOREM TextsAreReadOnce == AssertionsSpec => ReadOnce
<1> DEFINE Kept == \A k \in DOMAIN outcome : k \in DOMAIN outcome' /\ outcome'[k] = outcome[k]
<1>1. [AssertionsNext]_assertionVars => [Kept]_assertionVars
  <2> SUFFICES ASSUME AssertionsNext, NEW k \in DOMAIN outcome
               PROVE  k \in DOMAIN outcome' /\ outcome'[k] = outcome[k]
    OBVIOUS
  <2>1. ASSUME NEW e \in Extractors, PublishAssertions(e)
        PROVE  k \in DOMAIN outcome' /\ outcome'[k] = outcome[k]
    BY <2>1 DEF PublishAssertions, Accepts, Agrees, Record
  <2> QED  BY <2>1 DEF AssertionsNext, RewriteText, DeleteText, Invalidate,
              TakeBatch, SkipCurrent, Extract, FailExtract, StopExtractor
<1> QED  BY <1>1, PTL DEF AssertionsSpec, ReadOnce

=============================================================================
