--------------------------- MODULE MessageStore_proofs ---------------------------
(***************************************************************************)
(* Whatever a host handed over can be read back from the message store, and *)
(* the references to the outputs it keeps in files lead to whole outputs,  *)
(* for any number of engines, turns, outputs and files.                    *)
(***************************************************************************)
EXTENDS IngestReconcile, ToolSidecars, FiniteSetTheorems, FunctionTheorems,
        SequenceTheorems, WellFoundedInduction, TLAPS

-----------------------------------------------------------------------------
(***************************************************************************)
(* The sidecar files: the invariant                                        *)
(***************************************************************************)
Names == 1 .. issued
File == [of : Outputs, whole : BOOLEAN, by : {"engine", "script"}]
Entry == [of : Outputs, ref : Names]
Tasks == {"ingest", "serialize", "collect"}
Work == {AtRest} \cup [doing : Tasks, at : {"find"}, of : Outputs]
                 \cup [doing : Tasks, at : {"write", "sync", "commit"}, of : Outputs,
                       ref : Names \cup {Inline}]
Script == {NoScript} \cup [doing : {"apply"}, todo : SUBSET Outputs]
                     \cup [doing : {"make", "own"}, todo : SUBSET Outputs, entry : Entry]
                     \cup [doing : {"rollback"}, refs : SUBSET Names]

Entries == journal.pending \cup journal.owned
Scripted == {r \in DOMAIN files : files[r].by = "script"}

SidecarTypes ==
    /\ issued \in Nat
    /\ \A r \in DOMAIN files : r \in Names /\ files[r] \in File
    /\ held \in [Outputs -> Names \cup {NoRow, Inline}]
    /\ cited \subseteq Names
    /\ work \in [Writers -> Work]
    /\ journal \in [pending : SUBSET Entry, owned : SUBSET Entry, complete : BOOLEAN]
    /\ script \in Script
    /\ unsynced \subseteq Names

Lasting(r) == r = Inline \/ Whole(r) \/ r \in unsynced

(* A writer has a file of its own until it is whole and durable, and what  *)
(* is about to be referred to lasts.                                       *)
WorkOK ==
    /\ \A e \in Writers :
         /\ work[e].at \in {"write", "sync"} => work[e].ref \in DOMAIN files
         /\ work[e].at = "write" => ~files[work[e].ref].whole
         /\ work[e].at \in {"sync", "commit"} => Lasting(work[e].ref)
    /\ \A d, e \in Writers :
         work[d].at \in {"write", "sync"} /\ work[e].at \in {"write", "sync"}
            /\ work[d].ref = work[e].ref => d = e

(* Engines rest while the script runs, and a rollback takes back only what *)
(* nothing refers to.                                                      *)
ScriptOK ==
    /\ script # NoScript => Quiet
    /\ script.doing = "rollback" => script.refs \cap Referenced = {}
    /\ script.doing \in {"make", "own"} => script.entry \in journal.pending

(* A name is in one entry at most; an output has at most one entry without *)
(* a file that is known to be the script's, and at most one such file.     *)
JournalOK ==
    /\ \A p, q \in Entries : p.ref = q.ref => p = q
    /\ \A p, q \in journal.pending : p.of = q.of => p = q
    /\ \A r \in Scripted : files[r].whole /\ \E p \in Entries : p.ref = r
    /\ \A r \in Scripted, p \in journal.pending : files[r].of = p.of => p.ref = r
    /\ \A r, n \in Scripted : files[r].of = files[n].of => r = n

SidecarInv == SidecarTypes /\ WorkOK /\ ScriptOK /\ JournalOK /\ ReferencesResolve

-----------------------------------------------------------------------------
(***************************************************************************)
(* What a step keeps                                                       *)
(***************************************************************************)
Making(w) == w.at \in {"write", "sync"}

LEMMA NamesGrow ==
    ASSUME issued \in Nat, issued' \in {issued, issued + 1}
    PROVE  /\ issued' \in Nat /\ Names \subseteq Names' /\ NewName \notin Names
           /\ Entry \subseteq Entry' /\ Work \subseteq Work' /\ Script \subseteq Script'
<1>1. Names \subseteq Names' /\ NewName \notin Names /\ issued' \in Nat  BY DEF Names, NewName
<1>2. Entry \subseteq Entry'  BY <1>1 DEF Entry
<1> QED  BY <1>1, <1>2 DEF Work, Script

(* The work of an engine, by where it is.                                  *)
LEMMA WorkIs ==
    ASSUME NEW w \in Work
    PROVE  /\ w # AtRest => w.doing \in Tasks /\ w.of \in Outputs
           /\ w.at \in {"write", "sync", "commit"} => w.ref \in Names \cup {Inline}
           /\ w.at \in {"find", "write", "sync", "commit"} => w # AtRest
BY DEF Work, AtRest

LEMMA WorkOf == SidecarInv => \A e \in Writers : work[e] \in Work
BY DEF SidecarInv, SidecarTypes

(* An engine at work: the script is not running.                           *)
LEMMA Alone ==
    ASSUME SidecarInv, NEW e \in Writers, work[e] # AtRest
    PROVE  script = NoScript
BY DEF SidecarInv, ScriptOK, Quiet

LEMMA NoScriptIs == NoScript.doing = "nothing" /\ NoScript \in Script
BY DEF NoScript, Script

(* Only files of the script matter to the journal.                         *)
LEMMA JournalKept ==
    ASSUME JournalOK, UNCHANGED journal,
           \A r \in DOMAIN files' : files'[r].by = "script"
              => r \in DOMAIN files /\ files[r].by = "script"
                 /\ files'[r].of = files[r].of /\ files'[r].whole
    PROVE  JournalOK'
BY DEF JournalOK, Scripted, Entries

LEMMA ReferencesKept ==
    ASSUME ReferencesResolve,
           \A r : Lasting(r) => Lasting(r)',
           \A r \in Referenced' : r \in Referenced \/ r = NoRow \/ Lasting(r)'
    PROVE  ReferencesResolve'
BY DEF ReferencesResolve, Lasting

(* An engine goes on: the files of the others are as they were.            *)
LEMMA WorkMoves ==
    ASSUME SidecarInv, NEW e \in Writers, NEW w, Turn(e, w),
           \A r \in DOMAIN files : \/ r \in DOMAIN files' /\ files'[r] = files[r]
                                   \/ Making(work[e]) /\ r = work[e].ref,
           \A r : Lasting(r) => Lasting(r)',
           Making(w) => /\ w.ref \in DOMAIN files'
                        /\ \A d \in Writers \ {e} : Making(work[d]) => work[d].ref # w.ref,
           w.at = "write" => ~files'[w.ref].whole,
           w.at \in {"sync", "commit"} => Lasting(w.ref)'
    PROVE  WorkOK'
<1>1. \A d \in Writers : work'[d] = IF d = e THEN w ELSE work[d]
  BY DEF Turn, SidecarInv, SidecarTypes
<1>2. \A d \in Writers \ {e} : Making(work[d]) =>
         /\ work[d].ref \in DOMAIN files' /\ files'[work[d].ref] = files[work[d].ref]
  BY DEF SidecarInv, WorkOK, Making
<1>3. ASSUME NEW d \in Writers, NEW v, v = work'[d]
      PROVE  /\ Making(v) => v.ref \in DOMAIN files'
             /\ v.at = "write" => ~files'[v.ref].whole
             /\ v.at \in {"sync", "commit"} => Lasting(v.ref)'
  <2>1. CASE d = e
    <3>1. v = w  BY <1>1, <1>3, <2>1
    <3> QED  BY <3>1
  <2>2. CASE d # e
    <3>1. v = work[d]  BY <1>1, <1>3, <2>2
    <3>2. v.at \in {"sync", "commit"} => Lasting(v.ref)
      BY <3>1 DEF SidecarInv, WorkOK
    <3>3. v.at = "write" => Making(v) /\ ~files[v.ref].whole
      BY <3>1 DEF SidecarInv, WorkOK, Making
    <3>4. Making(v) => v.ref \in DOMAIN files' /\ files'[v.ref] = files[v.ref]
      BY <1>2, <2>2, <3>1
    <3> QED  BY <3>2, <3>3, <3>4
  <2> QED  BY <2>1, <2>2
<1>4. \A d, f \in Writers :
         Making(work'[d]) /\ Making(work'[f]) /\ work'[d].ref = work'[f].ref => d = f
  BY <1>1 DEF SidecarInv, WorkOK, Making
<1>5. \A d \in Writers : /\ Making(work'[d]) => work'[d].ref \in DOMAIN files'
                         /\ work'[d].at = "write" => ~files'[work'[d].ref].whole
  BY <1>3
<1>6. (\A d \in Writers : work[d].at \in {"sync", "commit"} => Lasting(work[d].ref))'
  BY <1>3 DEF Lasting, Whole
<1> QED  BY <1>4, <1>5, <1>6 DEF WorkOK, Making

(* The steps of an engine that leave the files alone.                      *)
LEMMA FilesStay ==
    ASSUME UNCHANGED <<files, unsynced>>
    PROVE  \A r : Lasting(r) => Lasting(r)'
BY DEF Lasting, Whole

LEMMA EngineKeeps ==
    ASSUME SidecarInv, NEW e \in Writers, NEW w \in Work, Turn(e, w), script = NoScript,
           UNCHANGED <<files, issued, held, cited, journal, script, unsynced>>,
           Making(w) => Making(work[e]) /\ w.ref = work[e].ref,
           w.at = "write" => work[e].at = "write",
           w.at \in {"sync", "commit"} => Lasting(w.ref)
    PROVE  SidecarInv'
<1>1. issued \in Nat /\ issued' = issued /\ work \in [Writers -> Work]
  BY DEF SidecarInv, SidecarTypes
<1>2. /\ Work' = Work /\ Entry' = Entry /\ Script' = Script /\ Names' = Names
  BY DEF Names, Entry, Work, Script
<1>3. SidecarTypes'
  BY <1>1, <1>2 DEF SidecarInv, SidecarTypes, Turn
<1>4. WorkOK'
  BY FilesStay, WorkMoves DEF SidecarInv, WorkOK, Making
<1>5. ScriptOK'  BY NoScriptIs DEF SidecarInv, ScriptOK
<1>6. JournalOK'  BY JournalKept DEF SidecarInv, JournalOK, Scripted
<1>7. ReferencesResolve'  BY DEF SidecarInv, ReferencesResolve, Referenced, Whole
<1> QED  BY <1>3, <1>4, <1>5, <1>6, <1>7 DEF SidecarInv

-----------------------------------------------------------------------------
(***************************************************************************)
(* Engines                                                                 *)
(***************************************************************************)
LEMMA BeginWorkInv ==
    ASSUME SidecarInv, NEW e \in Writers, NEW o \in Outputs, BeginWork(e, o)
    PROVE  SidecarInv'
<1>1. PICK task \in Tasks : Turn(e, [doing |-> task, at |-> "find", of |-> o])
  BY DEF BeginWork, Tasks
<1>2. PICK w : w = [doing |-> task, at |-> "find", of |-> o]  OBVIOUS
<1>3. w \in Work /\ w.at = "find" /\ ~Making(w)  BY <1>2 DEF Work, Making
<1> QED  BY <1>1, <1>2, <1>3, EngineKeeps DEF BeginWork, Stopped

LEMMA WriterDiesInv ==
    ASSUME SidecarInv, NEW e \in Writers, WriterDies(e)
    PROVE  SidecarInv'
<1>1. PICK w : w = AtRest  OBVIOUS
<1>2. w \in Work /\ w.at = "-" /\ ~Making(w)  BY <1>1 DEF Work, AtRest, Making
<1> QED  BY <1>1, <1>2, Alone, EngineKeeps DEF WriterDies

LEMMA SyncedInv ==
    ASSUME SidecarInv, NEW e \in Writers, Synced(e)
    PROVE  SidecarInv'
<1>1. work[e] \in Work /\ work[e].at = "sync" /\ Lasting(work[e].ref)
  BY WorkOf DEF Synced, SidecarInv, WorkOK
<1>2. PICK w : w = [work[e] EXCEPT !.at = "commit"]  OBVIOUS
<1>3. w \in Work /\ w.at = "commit" /\ w.ref = work[e].ref /\ ~Making(w)
  BY <1>1, <1>2 DEF Work, AtRest, Making
<1>4. work[e] # AtRest  BY <1>1 DEF AtRest
<1> QED  BY <1>1, <1>2, <1>3, <1>4, Alone, EngineKeeps DEF Synced

LEMMA AtWork ==
    ASSUME SidecarInv, NEW e \in Writers,
           work[e].at \in {"find", "write", "sync", "commit"}
    PROVE  /\ work[e] \in Work /\ work[e].doing \in Tasks /\ work[e].of \in Outputs
           /\ work[e].at # "find" => work[e].ref \in Names \cup {Inline}
           /\ script = NoScript
BY WorkOf, WorkIs, Alone

(* The steps of an engine that change files.                               *)
LEMMA EngineWrites ==
    ASSUME SidecarInv, NEW e \in Writers, NEW w, Turn(e, w), script = NoScript,
           UNCHANGED <<held, cited, journal, script>>,
           SidecarTypes',
           \A r \in DOMAIN files : \/ r \in DOMAIN files' /\ files'[r] = files[r]
                                   \/ Making(work[e]) /\ r = work[e].ref,
           \A r \in DOMAIN files' : files'[r].by = "script"
              => r \in DOMAIN files /\ files[r].by = "script"
                 /\ files'[r].of = files[r].of /\ files'[r].whole,
           \A r : Lasting(r) => Lasting(r)',
           Making(w) => /\ w.ref \in DOMAIN files'
                        /\ \A d \in Writers \ {e} : Making(work[d]) => work[d].ref # w.ref,
           w.at = "write" => ~files'[w.ref].whole,
           w.at \in {"sync", "commit"} => Lasting(w.ref)'
    PROVE  SidecarInv'
<1>1. WorkOK'  BY WorkMoves
<1>2. ScriptOK'  BY NoScriptIs DEF ScriptOK
<1>3. JournalOK'  BY JournalKept DEF SidecarInv
<1>4. ReferencesResolve'
  BY ReferencesKept DEF SidecarInv, Referenced
<1> QED  BY <1>1, <1>2, <1>3, <1>4 DEF SidecarInv

LEMMA FindInv ==
    ASSUME SidecarInv, NEW e \in Writers, Find(e)
    PROVE  SidecarInv'
<1>1. /\ work[e] \in Work /\ work[e].doing \in Tasks /\ work[e].of \in Outputs
      /\ script = NoScript /\ work[e].at = "find"
  BY AtWork DEF Find
<1>2. ASSUME NEW r \in Names \cup {Inline}, Lasting(r), Keep(e, "commit", r),
             UNCHANGED <<files, issued>>
      PROVE  SidecarInv'
  <2>1. PICK w : w = [doing |-> work[e].doing, at |-> "commit", of |-> work[e].of, ref |-> r]
    OBVIOUS
  <2>2. w \in Work /\ w.at = "commit" /\ w.ref = r /\ ~Making(w)
    BY <1>1, <2>1 DEF Work, Making
  <2>3. Turn(e, w) /\ UNCHANGED <<held, cited, journal, script, unsynced>>
    BY <1>2, <2>1 DEF Keep, Find
  <2> QED  BY <1>1, <1>2, <2>2, <2>3, EngineKeeps
<1>3. ASSUME NEW r \in Found(work[e].of), Keep(e, "commit", r), UNCHANGED <<files, issued>>
      PROVE  SidecarInv'
  <2>1. r \in DOMAIN files /\ Whole(r)  BY <1>3 DEF Found
  <2>2. r \in Names /\ Lasting(r)  BY <2>1 DEF SidecarInv, SidecarTypes, Lasting
  <2> QED  BY <1>2, <1>3, <2>2
<1>4. CASE Keep(e, "commit", Inline) /\ UNCHANGED <<files, issued>>
  BY <1>2, <1>4 DEF Lasting
<1>5. ASSUME files' = With(NewName, [of |-> work[e].of, whole |-> FALSE, by |-> "engine"]),
             issued' = NewName, Keep(e, "write", NewName)
      PROVE  SidecarInv'
  <2>1. PICK n : n = NewName  OBVIOUS
  <2>2. PICK f : f = [of |-> work[e].of, whole |-> FALSE, by |-> "engine"]  OBVIOUS
  <2>3. PICK w : w = [doing |-> work[e].doing, at |-> "write", of |-> work[e].of, ref |-> n]
    OBVIOUS
  <2>4. issued \in Nat /\ issued' \in {issued, issued + 1} /\ n = issued + 1
    BY <1>5, <2>1 DEF NewName, SidecarInv, SidecarTypes
  <2>5. /\ Names \subseteq Names' /\ n \in Names' /\ n \notin Names /\ n # Inline
        /\ Entry \subseteq Entry' /\ Work \subseteq Work' /\ issued' \in Nat
        /\ \A r \in DOMAIN files : r \in Names /\ files[r] \in File
    BY <1>5, <2>1, <2>4, NamesGrow DEF Names, NewName, Inline, SidecarInv, SidecarTypes
  <2>6. /\ DOMAIN files' = DOMAIN files \cup {n}
        /\ \A r \in DOMAIN files' : files'[r] = IF r = n THEN f ELSE files[r]
    BY <1>5, <2>1, <2>2 DEF With
  <2>7. f \in File /\ f.by = "engine" /\ ~f.whole  BY <1>1, <2>2 DEF File
  <2>8. w \in Work' /\ w.at = "write" /\ w.ref = n  BY <1>1, <2>3, <2>5 DEF Work
  <2>9. Turn(e, w) /\ UNCHANGED <<held, cited, journal, script, unsynced>>
    BY <1>5, <2>1, <2>3 DEF Keep, Find
  <2>10. SidecarTypes'
    <3>1. \A r \in DOMAIN files' : r \in Names' /\ files'[r] \in File
      BY <2>5, <2>6, <2>7
    <3>2. work' \in [Writers -> Work']
      BY <2>5, <2>8, <2>9 DEF Turn, SidecarInv, SidecarTypes
    <3>3. /\ held' \in [Outputs -> Names' \cup {NoRow, Inline}] /\ cited' \subseteq Names'
          /\ journal' \in [pending : SUBSET Entry', owned : SUBSET Entry', complete : BOOLEAN]
          /\ unsynced' \subseteq Names'
      BY <2>5, <2>9 DEF SidecarInv, SidecarTypes
    <3>4. script' \in Script'
      BY <1>1, <2>9 DEF Script
    <3> QED  BY <2>5, <3>1, <3>2, <3>3, <3>4 DEF SidecarTypes, File
  <2>11. \A r \in DOMAIN files : r \in DOMAIN files' /\ files'[r] = files[r]
    BY <2>5, <2>6
  <2>12. \A r : Lasting(r) => Lasting(r)'  BY <2>9, <2>11 DEF Lasting, Whole
  <2>13. \A r \in DOMAIN files' : files'[r].by = "script"
            => r \in DOMAIN files /\ files[r].by = "script"
               /\ files'[r].of = files[r].of /\ files'[r].whole
    BY <2>6, <2>7, <2>11 DEF SidecarInv, JournalOK, Scripted
  <2>14. \A d \in Writers \ {e} : Making(work[d]) => work[d].ref # n
    BY <2>5 DEF Making, SidecarInv, WorkOK
  <2> QED
    BY <1>1, <2>6, <2>7, <2>8, <2>9, <2>10, <2>11, <2>12, <2>13, <2>14, EngineWrites
<1> QED  BY <1>3, <1>4, <1>5 DEF Find

LEMMA WriteWholeInv ==
    ASSUME SidecarInv, NEW e \in Writers, WriteWhole(e)
    PROVE  SidecarInv'
<1>1. /\ work[e] \in Work /\ work[e].doing \in Tasks /\ work[e].of \in Outputs
      /\ work[e].ref \in Names \cup {Inline} /\ script = NoScript /\ work[e].at = "write"
  BY AtWork DEF WriteWhole
<1>2. PICK n : n = work[e].ref  OBVIOUS
<1>3. n \in DOMAIN files /\ n \in Names /\ files[n] \in File /\ Making(work[e])
  BY <1>1, <1>2 DEF SidecarInv, WorkOK, SidecarTypes, Making
<1>4. PICK f : f = [files[n] EXCEPT !.whole = TRUE]  OBVIOUS
<1>5. f \in File /\ f.whole /\ f.by = files[n].by /\ f.of = files[n].of
  BY <1>3, <1>4 DEF File
<1>6. /\ DOMAIN files' = DOMAIN files
      /\ \A r \in DOMAIN files' : files'[r] = IF r = n THEN f ELSE files[r]
  BY <1>2, <1>3, <1>4 DEF WriteWhole, With
<1>7. PICK w : w = [work[e] EXCEPT !.at = "sync"]  OBVIOUS
<1>8. w \in Work /\ w.at = "sync" /\ w.ref = n
  BY <1>1, <1>2, <1>7 DEF Work, AtRest
<1>9. Turn(e, w) /\ UNCHANGED <<issued, held, cited, journal, script, unsynced>>
  BY <1>7 DEF WriteWhole
<1>10. SidecarTypes'
  BY <1>5, <1>6, <1>8, <1>9
     DEF SidecarInv, SidecarTypes, Turn, Names, File, Entry, Work, Script
<1>11. \A r : Lasting(r) => Lasting(r)'  BY <1>5, <1>6, <1>9 DEF Lasting, Whole
<1>12. \A r \in DOMAIN files' : files'[r].by = "script"
          => r \in DOMAIN files /\ files[r].by = "script"
             /\ files'[r].of = files[r].of /\ files'[r].whole
  BY <1>5, <1>6 DEF SidecarInv, JournalOK, Scripted
<1>13. \A d \in Writers \ {e} : Making(work[d]) => work[d].ref # n
  BY <1>1, <1>2 DEF Making, SidecarInv, WorkOK
<1>14. Lasting(n)'  BY <1>3, <1>5, <1>6 DEF Lasting, Whole
<1> QED
  BY <1>1, <1>2, <1>3, <1>6, <1>8, <1>9, <1>10, <1>11, <1>12, <1>13, <1>14, EngineWrites

LEMMA FailWriteInv ==
    ASSUME SidecarInv, NEW e \in Writers, FailWrite(e)
    PROVE  SidecarInv'
<1>1. /\ work[e] \in Work /\ work[e].doing \in Tasks /\ work[e].of \in Outputs
      /\ work[e].ref \in Names \cup {Inline} /\ script = NoScript
      /\ work[e].at \in {"write", "sync"} /\ Making(work[e])
  BY AtWork DEF FailWrite, Making
<1>2. PICK n : n = work[e].ref  OBVIOUS
<1>3. n \in DOMAIN files /\ n \in Names
  BY <1>1, <1>2 DEF SidecarInv, WorkOK, SidecarTypes
<1>4. /\ DOMAIN files' = DOMAIN files \ {n}
      /\ \A r \in DOMAIN files' : files'[r] = files[r]
  BY <1>2 DEF FailWrite, Without
<1>5. PICK w : w = [work[e] EXCEPT !.at = "commit", !.ref = Inline]  OBVIOUS
<1>6. w \in Work /\ w.at = "commit" /\ w.ref = Inline /\ ~Making(w)
  <2>1. work[e] \in [doing : Tasks, at : {"write", "sync", "commit"}, of : Outputs,
                     ref : Names \cup {Inline}]
    BY <1>1 DEF Work, AtRest
  <2>2. w \in [doing : Tasks, at : {"write", "sync", "commit"}, of : Outputs,
               ref : Names \cup {Inline}]
    BY <1>5, <2>1
  <2> QED  BY <1>5, <2>1, <2>2 DEF Work, Making
<1>7. Turn(e, w) /\ UNCHANGED <<issued, held, cited, journal, script>>
  BY <1>5 DEF FailWrite
<1>8. /\ unsynced \subseteq unsynced' /\ unsynced' \subseteq unsynced \cup {n}
      /\ work[e].at = "sync" => n \in unsynced'
  BY <1>2 DEF FailWrite
<1>9. SidecarTypes'
  BY <1>3, <1>4, <1>6, <1>7, <1>8
     DEF SidecarInv, SidecarTypes, Turn, Names, File, Entry, Work, Script
<1>10. ASSUME NEW r, Lasting(r)  PROVE Lasting(r)'
  <2>1. CASE r = n
    <3>1. work[e].at = "write" => ~Whole(n)
      BY <1>2 DEF SidecarInv, WorkOK, Whole
    <3>2. n # Inline  BY <1>3 DEF Names, Inline, SidecarInv, SidecarTypes
    <3> QED  BY <1>1, <1>8, <1>10, <2>1, <3>1, <3>2 DEF Lasting
  <2>2. CASE r # n  BY <1>4, <1>8, <1>10, <2>2 DEF Lasting, Whole
  <2> QED  BY <2>1, <2>2
<1>11. \A r \in DOMAIN files' : files'[r].by = "script"
          => r \in DOMAIN files /\ files[r].by = "script"
             /\ files'[r].of = files[r].of /\ files'[r].whole
  BY <1>4 DEF SidecarInv, JournalOK, Scripted
<1>12. Lasting(w.ref)'  BY <1>6 DEF Lasting
<1> QED  BY <1>1, <1>2, <1>4, <1>6, <1>7, <1>9, <1>10, <1>11, <1>12, EngineWrites

LEMMA CommitInv ==
    ASSUME SidecarInv, NEW e \in Writers, Commit(e)
    PROVE  SidecarInv'
<1>1. /\ work[e] \in Work /\ work[e].doing \in Tasks /\ work[e].of \in Outputs
      /\ work[e].ref \in Names \cup {Inline} /\ script = NoScript /\ work[e].at = "commit"
  BY AtWork DEF Commit
<1>2. PICK w : w = AtRest  OBVIOUS
<1>3. w \in Work /\ w.at = "-" /\ ~Making(w)  BY <1>2 DEF Work, AtRest, Making
<1>4. Turn(e, w) /\ UNCHANGED <<files, issued, journal, script, unsynced>>
  BY <1>2 DEF Commit
<1>5. PICK ref : ref = work[e].ref  OBVIOUS
<1>6. Lasting(ref)  BY <1>1, <1>5 DEF SidecarInv, WorkOK
<1>7. /\ cited' \subseteq cited \cup ({ref} \ {Inline})
      /\ held' = held \/ held' = [held EXCEPT ![work[e].of] =
                                     IF @ = NoRow \/ ref # Inline THEN ref ELSE @]
  BY <1>5 DEF Commit
<1>8. \A o \in Outputs : held'[o] = held[o] \/ held'[o] = ref
  BY <1>1, <1>7 DEF SidecarInv, SidecarTypes
<1>9. held' \in [Outputs -> Names \cup {NoRow, Inline}] /\ cited' \subseteq Names
  BY <1>1, <1>5, <1>7 DEF SidecarInv, SidecarTypes
<1>10. SidecarTypes'
  BY <1>3, <1>4, <1>9
     DEF SidecarInv, SidecarTypes, Turn, Names, File, Entry, Work, Script
<1>11. WorkOK'  BY <1>3, <1>4, FilesStay, WorkMoves
<1>12. ScriptOK'  BY <1>1, <1>4, NoScriptIs DEF ScriptOK
<1>13. JournalOK'  BY <1>4, JournalKept DEF SidecarInv, JournalOK, Scripted
<1>14. \A r : Lasting(r) => Lasting(r)'  BY <1>4, FilesStay
<1>15. \A r \in Referenced' : r \in Referenced \/ r = ref
  BY <1>7, <1>8 DEF Referenced
<1>16. Lasting(ref)'  BY <1>6, <1>14
<1>17. ReferencesResolve'
  BY <1>14, <1>15, <1>16, ReferencesKept DEF SidecarInv
<1> QED  BY <1>10, <1>11, <1>12, <1>13, <1>17 DEF SidecarInv

-----------------------------------------------------------------------------
(***************************************************************************)
(* The script                                                              *)
(***************************************************************************)
(* While it runs the engines rest, so their work says nothing.             *)
LEMMA AllRest ==
    ASSUME Quiet, UNCHANGED work
    PROVE  WorkOK'
<1>1. \A e \in Writers : work'[e].at = "-"  BY DEF Quiet, AtRest
<1> QED  BY <1>1 DEF WorkOK

LEMMA SameReferences ==
    ASSUME SidecarInv, UNCHANGED <<held, cited>>, \A r : Lasting(r) => Lasting(r)'
    PROVE  ReferencesResolve'
BY ReferencesKept DEF SidecarInv, Referenced

LEMMA ScriptIs ==
    ASSUME SidecarInv, script # NoScript
    PROVE  /\ Quiet
           /\ script.doing = "apply" => script \in [doing : {"apply"}, todo : SUBSET Outputs]
           /\ script.doing \in {"make", "own"} =>
                 script \in [doing : {"make", "own"}, todo : SUBSET Outputs, entry : Entry]
           /\ script.doing = "rollback" => script \in [doing : {"rollback"}, refs : SUBSET Names]
BY DEF SidecarInv, SidecarTypes, ScriptOK, Script, NoScript

LEMMA AtWorkScript ==
    ASSUME script.doing \in {"apply", "make", "own", "rollback"}  PROVE script # NoScript
BY DEF NoScript

(* It goes on, and no file or entry is made.                               *)
LEMMA ScriptKeeps ==
    ASSUME SidecarInv, NEW s \in Script, script' = s, Quiet,
           UNCHANGED <<files, issued, held, cited, work, unsynced>>,
           UNCHANGED <<journal.pending, journal.owned>>,
           journal' \in [pending : SUBSET Entry, owned : SUBSET Entry, complete : BOOLEAN],
           s.doing = "rollback" => s.refs \cap Referenced = {},
           s.doing \in {"make", "own"} => s.entry \in journal.pending
    PROVE  SidecarInv'
<1>1. SidecarTypes'
  BY DEF SidecarInv, SidecarTypes, Names, File, Entry, Work, Script
<1>2. ScriptOK'  BY DEF ScriptOK, Quiet, Referenced
<1>3. JournalOK'  BY DEF SidecarInv, JournalOK, Scripted, Entries
<1>4. ReferencesResolve'  BY FilesStay, SameReferences
<1> QED  BY <1>1, <1>2, <1>3, <1>4, AllRest DEF SidecarInv

LEMMA BeginApplyInv ==
    ASSUME SidecarInv, BeginApply
    PROVE  SidecarInv'
<1>1. PICK s : s = [doing |-> "apply", todo |-> {o \in Outputs : held[o] = Inline}]  OBVIOUS
<1>2. s \in Script /\ s.doing = "apply"  BY <1>1 DEF Script
<1>3. /\ journal' \in [pending : SUBSET Entry, owned : SUBSET Entry, complete : BOOLEAN]
      /\ UNCHANGED <<journal.pending, journal.owned>>
  BY DEF BeginApply, SidecarInv, SidecarTypes
<1> QED  BY <1>1, <1>2, <1>3, ScriptKeeps DEF BeginApply

LEMMA EndApplyInv ==
    ASSUME SidecarInv, EndApply
    PROVE  SidecarInv'
<1>1. /\ journal' \in [pending : SUBSET Entry, owned : SUBSET Entry, complete : BOOLEAN]
      /\ UNCHANGED <<journal.pending, journal.owned>>
  <2>1. journal \in [pending : SUBSET Entry, owned : SUBSET Entry, complete : BOOLEAN]
    BY DEF SidecarInv, SidecarTypes
  <2>2. PICK c : c = (journal.pending = {})  OBVIOUS
  <2>3. c \in BOOLEAN  BY <2>2
  <2>4. journal' = [journal EXCEPT !.complete = c]  BY <2>2 DEF EndApply
  <2> QED  BY <2>1, <2>3, <2>4
<1>2. Quiet  BY AtWorkScript, ScriptIs DEF EndApply
<1>3. PICK s : s = NoScript  OBVIOUS
<1> QED  BY <1>1, <1>2, <1>3, NoScriptIs, ScriptKeeps DEF EndApply

LEMMA GivesUpInv ==
    ASSUME SidecarInv, EndRollback \/ ScriptDies
    PROVE  SidecarInv'
<1>1. Quiet  BY AtWorkScript, ScriptIs DEF EndRollback, ScriptDies
<1>2. PICK s : s = NoScript  OBVIOUS
<1> QED
  BY <1>1, <1>2, NoScriptIs, ScriptKeeps DEF EndRollback, ScriptDies, SidecarInv, SidecarTypes

LEMMA FailFileInv ==
    ASSUME SidecarInv, FailFile
    PROVE  SidecarInv'
<1>1. Quiet /\ script \in [doing : {"make", "own"}, todo : SUBSET Outputs, entry : Entry]
  BY AtWorkScript, ScriptIs DEF FailFile
<1>2. PICK s : s = [doing |-> "apply", todo |-> script.todo]  OBVIOUS
<1>3. s \in Script /\ s.doing = "apply"  BY <1>1, <1>2 DEF Script
<1> QED  BY <1>1, <1>2, <1>3, ScriptKeeps DEF FailFile, SidecarInv, SidecarTypes

LEMMA BeginRollbackInv ==
    ASSUME SidecarInv, BeginRollback
    PROVE  SidecarInv'
<1>1. PICK refs : refs = {p.ref : p \in {q \in journal.owned :
                             /\ Whole(q.ref) /\ files[q.ref].by = "script"
                             /\ q.ref \notin Collected}}
  OBVIOUS
<1>2. refs \in SUBSET Names /\ refs \cap Referenced = {}
  BY <1>1 DEF Collected, SidecarInv, SidecarTypes, Entry
<1>3. PICK s : s = [doing |-> "rollback", refs |-> refs]  OBVIOUS
<1>4. s \in Script /\ s.doing = "rollback" /\ s.refs = refs  BY <1>2, <1>3 DEF Script
<1> QED
  BY <1>1, <1>2, <1>3, <1>4, ScriptKeeps DEF BeginRollback, SidecarInv, SidecarTypes

LEMMA TakeBackInv ==
    ASSUME SidecarInv, NEW r, TakeBack(r)
    PROVE  SidecarInv'
<1>1. Quiet /\ script \in [doing : {"rollback"}, refs : SUBSET Names]
  BY AtWorkScript, ScriptIs DEF TakeBack
<1>2. r \in script.refs /\ r \notin Referenced /\ script.refs \cap Referenced = {}
  BY DEF TakeBack, SidecarInv, ScriptOK
<1>3. /\ DOMAIN files' = DOMAIN files \ {r}
      /\ \A n \in DOMAIN files' : files'[n] = files[n]
  BY DEF TakeBack, Without
<1>4. PICK s : s = [script EXCEPT !.refs = @ \ {r}]  OBVIOUS
<1>5. s \in Script /\ s.doing = "rollback" /\ s.refs \subseteq script.refs
  BY <1>1, <1>4 DEF Script
<1>6. script' = s /\ UNCHANGED <<issued, held, cited, work, journal, unsynced>>
  BY <1>4 DEF TakeBack
<1>7. SidecarTypes'
  BY <1>3, <1>5, <1>6 DEF SidecarInv, SidecarTypes, Names, File, Entry, Work, Script
<1>8. ScriptOK'  BY <1>1, <1>2, <1>5, <1>6 DEF ScriptOK, Quiet, Referenced
<1>9. JournalOK'  BY <1>3, <1>6, JournalKept DEF SidecarInv, JournalOK, Scripted
<1>10. ReferencesResolve'
  BY <1>2, <1>3, <1>6 DEF SidecarInv, ReferencesResolve, Referenced, Whole
<1> QED  BY <1>1, <1>6, <1>7, <1>8, <1>9, <1>10, AllRest DEF SidecarInv

LEMMA OwnInv ==
    ASSUME SidecarInv, Own
    PROVE  SidecarInv'
<1>1. Quiet /\ script \in [doing : {"make", "own"}, todo : SUBSET Outputs, entry : Entry]
  BY AtWorkScript, ScriptIs DEF Own
<1>2. PICK p : p = script.entry  OBVIOUS
<1>3. p \in Entry /\ p \in journal.pending
  BY <1>1, <1>2 DEF Own, SidecarInv, ScriptOK
<1>4. /\ journal' \in [pending : SUBSET Entry, owned : SUBSET Entry, complete : BOOLEAN]
      /\ journal'.pending = journal.pending \ {p} /\ journal'.owned = journal.owned \cup {p}
  BY <1>2, <1>3 DEF Own, SidecarInv, SidecarTypes
<1>5. Entries' = Entries  BY <1>3, <1>4 DEF Entries
<1>6. PICK s : s = [doing |-> "apply", todo |-> script.todo]  OBVIOUS
<1>7. s \in Script /\ s.doing = "apply"  BY <1>1, <1>6 DEF Script
<1>8. script' = s /\ UNCHANGED <<files, issued, held, cited, work, unsynced>>
  BY <1>6 DEF Own
<1>9. SidecarTypes'
  BY <1>4, <1>7, <1>8 DEF SidecarInv, SidecarTypes, Names, File, Entry, Work, Script
<1>10. ScriptOK'  BY <1>1, <1>7, <1>8 DEF ScriptOK, Quiet
<1>11. JournalOK'
  <2>1. Scripted' = Scripted  BY <1>8 DEF Scripted
  <2> QED  BY <1>4, <1>5, <1>8, <2>1 DEF SidecarInv, JournalOK
<1>12. ReferencesResolve'  BY <1>8, FilesStay, SameReferences
<1> QED  BY <1>1, <1>8, <1>9, <1>10, <1>11, <1>12, AllRest DEF SidecarInv

LEMMA VisitRowInv ==
    ASSUME SidecarInv, NEW o \in Outputs, VisitRow(o)
    PROVE  SidecarInv'
<1>1. Quiet /\ script \in [doing : {"apply"}, todo : SUBSET Outputs]
  BY AtWorkScript, ScriptIs DEF VisitRow
<1>2. PICK todo : todo = script.todo \ {o}  OBVIOUS
<1>3. todo \in SUBSET Outputs  BY <1>1, <1>2
<1>4. UNCHANGED <<files, held, cited, work, unsynced>>  BY DEF VisitRow
<1>5. journal \in [pending : SUBSET Entry, owned : SUBSET Entry, complete : BOOLEAN]
  BY DEF SidecarInv, SidecarTypes
<1>6. CASE EntryOf(o) # {}
  <2>1. PICK p \in EntryOf(o) : script' = [doing |-> "make", todo |-> todo, entry |-> p]
    BY <1>2, <1>6 DEF VisitRow
  <2>2. PICK s : s = [doing |-> "make", todo |-> todo, entry |-> p]  OBVIOUS
  <2>3. p \in journal.pending /\ p \in Entry  BY <1>5, <2>1 DEF EntryOf
  <2>4. s \in Script /\ s.doing = "make" /\ s.entry = p
    BY <1>3, <2>2, <2>3 DEF Script
  <2>5. UNCHANGED <<journal, issued>>  BY <1>6 DEF VisitRow
  <2> QED  BY <1>1, <1>4, <1>5, <2>1, <2>2, <2>3, <2>4, <2>5, ScriptKeeps
<1>7. CASE EntryOf(o) = {} /\ Found(o) # {}
  <2>1. PICK s : s = [script EXCEPT !.todo = @ \ {o}]  OBVIOUS
  <2>2. s \in Script /\ s.doing = "apply"  BY <1>1, <2>1 DEF Script
  <2>3. script' = s /\ UNCHANGED <<journal, issued>>  BY <1>7, <2>1 DEF VisitRow
  <2> QED  BY <1>1, <1>4, <1>5, <2>2, <2>3, ScriptKeeps
<1>8. CASE EntryOf(o) = {} /\ Found(o) = {}
  <2>1. PICK p : p = [of |-> o, ref |-> NewName]  OBVIOUS
  <2>2. PICK s : s = [doing |-> "make", todo |-> todo, entry |-> p]  OBVIOUS
  <2>3. /\ script' = s /\ issued' = NewName
        /\ journal' = [journal EXCEPT !.pending = @ \cup {p}]
    BY <1>2, <1>8, <2>1, <2>2 DEF VisitRow, Promised
  <2>4. issued \in Nat /\ issued' \in {issued, issued + 1}
    BY <2>3 DEF NewName, SidecarInv, SidecarTypes
  <2>5. /\ issued' \in Nat /\ Names \subseteq Names' /\ NewName \notin Names
        /\ Entry \subseteq Entry' /\ Work \subseteq Work' /\ NewName \in Names'
    BY <2>3, <2>4, NamesGrow DEF Names, NewName
  <2>6. p \in Entry' /\ p.ref = NewName /\ p.of = o  BY <2>1, <2>5 DEF Entry
  <2>7. /\ journal'.pending = journal.pending \cup {p} /\ journal'.owned = journal.owned
        /\ journal' \in [pending : SUBSET Entry', owned : SUBSET Entry', complete : BOOLEAN]
    BY <1>5, <2>3, <2>5, <2>6
  <2>8. s \in Script' /\ s.doing = "make" /\ s.entry = p
    BY <1>3, <2>2, <2>6 DEF Script
  <2>9. SidecarTypes'
    <3>1. \A r \in DOMAIN files' : r \in Names' /\ files'[r] \in File
      BY <1>4, <2>5 DEF SidecarInv, SidecarTypes
    <3>2. /\ work' \in [Writers -> Work'] /\ cited' \subseteq Names'
          /\ held' \in [Outputs -> Names' \cup {NoRow, Inline}] /\ unsynced' \subseteq Names'
      BY <1>4, <2>5 DEF SidecarInv, SidecarTypes
    <3> QED  BY <2>3, <2>5, <2>7, <2>8, <3>1, <3>2 DEF SidecarTypes, File
  <2>10. ScriptOK'  BY <1>1, <1>4, <2>3, <2>7, <2>8 DEF ScriptOK, Quiet
  <2>11. JournalOK'
    <3>1. Scripted' = Scripted /\ Entries' = Entries \cup {p}
      BY <1>4, <2>7 DEF Scripted, Entries
    <3>2. \A q \in Entries : q.ref # p.ref
      BY <1>5, <2>5, <2>6 DEF Entries, Entry
    <3>3. \A q \in journal.pending : q.of # o  BY <1>8 DEF EntryOf
    <3>4. \A r \in Scripted : files[r].of # o
      BY <1>8 DEF Found, Whole, Scripted, SidecarInv, JournalOK
    <3>5. (\A r \in Scripted : files[r].whole /\ \E q \in Entries : q.ref = r)'
      BY <1>4, <3>1 DEF SidecarInv, JournalOK
    <3>6. (\A q1, q2 \in Entries : q1.ref = q2.ref => q1 = q2)'
      BY <3>1, <3>2 DEF SidecarInv, JournalOK
    <3>7. (\A q1, q2 \in journal.pending : q1.of = q2.of => q1 = q2)'
      BY <2>6, <2>7, <3>3 DEF SidecarInv, JournalOK
    <3>8. (\A r \in Scripted, q \in journal.pending : files[r].of = q.of => q.ref = r)'
      BY <1>4, <2>6, <2>7, <3>1, <3>4 DEF SidecarInv, JournalOK
    <3>9. (\A r, n \in Scripted : files[r].of = files[n].of => r = n)'
      BY <1>4, <3>1 DEF SidecarInv, JournalOK
    <3> QED  BY <3>5, <3>6, <3>7, <3>8, <3>9 DEF JournalOK
  <2>12. ReferencesResolve'  BY <1>4, FilesStay, SameReferences
  <2> QED  BY <1>1, <1>4, <2>9, <2>10, <2>11, <2>12, AllRest DEF SidecarInv
<1> QED  BY <1>6, <1>7, <1>8

LEMMA MakeFileInv ==
    ASSUME SidecarInv, MakeFile
    PROVE  SidecarInv'
<1>1. Quiet /\ script \in [doing : {"make", "own"}, todo : SUBSET Outputs, entry : Entry]
  BY AtWorkScript, ScriptIs DEF MakeFile
<1>2. PICK p : p = script.entry  OBVIOUS
<1>3. p \in Entry /\ p \in journal.pending /\ p \in Entries
  BY <1>1, <1>2 DEF MakeFile, SidecarInv, ScriptOK, Entries
<1>4. PICK s : s = [script EXCEPT !.doing = "own"]  OBVIOUS
<1>5. s \in Script /\ s.doing = "own" /\ s.entry = p
  BY <1>1, <1>2, <1>4 DEF Script
<1>6. script' = s /\ UNCHANGED <<issued, held, cited, work, journal, unsynced>>
  BY <1>4 DEF MakeFile
<1>7. CASE files' = files
  BY <1>1, <1>3, <1>5, <1>6, <1>7, ScriptKeeps DEF SidecarInv, SidecarTypes
<1>8. CASE ~Whole(p.ref) /\ files' # files
  <2>1. PICK n : n = p.ref  OBVIOUS
  <2>2. PICK f : f = [of |-> p.of, whole |-> TRUE, by |-> "script"]  OBVIOUS
  <2>3. /\ DOMAIN files' = DOMAIN files \cup {n}
        /\ \A r \in DOMAIN files' : files'[r] = IF r = n THEN f ELSE files[r]
    BY <1>2, <1>8, <2>1, <2>2 DEF MakeFile, With
  <2>4. f \in File /\ f.of = p.of /\ f.whole /\ f.by = "script" /\ n \in Names
    BY <1>3, <2>1, <2>2 DEF File, Entry
  <2>5. SidecarTypes'
    BY <1>5, <1>6, <2>3, <2>4
       DEF SidecarInv, SidecarTypes, Names, File, Entry, Work, Script
  <2>6. ScriptOK'  BY <1>1, <1>3, <1>5, <1>6 DEF ScriptOK, Quiet
  <2>7. \A r : Lasting(r) => Lasting(r)'  BY <1>6, <2>3, <2>4 DEF Lasting, Whole
  <2>8. ReferencesResolve'  BY <1>6, <2>7, SameReferences
  <2>9. n \notin Scripted  BY <1>8, <2>1 DEF Scripted, Whole, SidecarInv, JournalOK
  <2>10. Scripted' = Scripted \cup {n} /\ \A r \in Scripted : files'[r] = files[r] /\ r # n
    BY <2>3, <2>4, <2>9 DEF Scripted
  <2>11. files'[n] = f /\ Entries' = Entries /\ journal' = journal
    BY <1>6, <2>3 DEF Entries
  <2>12. \A r \in Scripted : files[r].of # p.of
    BY <1>3, <2>1, <2>9 DEF SidecarInv, JournalOK
  <2>13. JournalOK'
    <3>1. (\A r \in Scripted : files[r].whole /\ \E q \in Entries : q.ref = r)'
      BY <1>3, <2>1, <2>4, <2>10, <2>11 DEF SidecarInv, JournalOK
    <3>2. (\A r \in Scripted, q \in journal.pending : files[r].of = q.of => q.ref = r)'
      BY <1>3, <2>1, <2>4, <2>10, <2>11 DEF SidecarInv, JournalOK
    <3>3. (\A r, m \in Scripted : files[r].of = files[m].of => r = m)'
      BY <2>4, <2>10, <2>11, <2>12 DEF SidecarInv, JournalOK
    <3> QED  BY <2>11, <3>1, <3>2, <3>3 DEF SidecarInv, JournalOK
  <2> QED  BY <1>1, <1>6, <2>5, <2>6, <2>8, <2>13, AllRest DEF SidecarInv
<1> QED  BY <1>2, <1>7, <1>8 DEF MakeFile

-----------------------------------------------------------------------------
LEMMA SidecarsInitInv == SidecarsInit => SidecarInv
<1> SUFFICES ASSUME SidecarsInit  PROVE SidecarInv  OBVIOUS
<1>1. DOMAIN files = {} /\ issued = 0 /\ cited = {} /\ unsynced = {}
  BY DEF SidecarsInit
<1>2. \A e \in Writers : work[e] = AtRest  BY DEF SidecarsInit
<1>3. SidecarTypes
  BY <1>1, NoScriptIs DEF SidecarsInit, SidecarTypes, Work, EmptyJournal
<1>4. WorkOK  BY <1>2 DEF WorkOK, AtRest
<1>5. ScriptOK  BY NoScriptIs DEF SidecarsInit, ScriptOK
<1>6. JournalOK  BY <1>1 DEF SidecarsInit, JournalOK, EmptyJournal, Entries, Scripted
<1>7. ReferencesResolve
  BY <1>1 DEF SidecarsInit, ReferencesResolve, Referenced
<1> QED  BY <1>3, <1>4, <1>5, <1>6, <1>7 DEF SidecarInv

LEMMA SidecarsStepInv == SidecarInv /\ [SidecarsNext]_sidecarVars => SidecarInv'
<1> SUFFICES ASSUME SidecarInv, [SidecarsNext]_sidecarVars  PROVE SidecarInv'  OBVIOUS
<1>1. ASSUME NEW e \in Writers,
             Find(e) \/ WriteWhole(e) \/ Synced(e) \/ FailWrite(e) \/ Commit(e) \/ WriterDies(e)
      PROVE  SidecarInv'
  BY <1>1, FindInv, WriteWholeInv, SyncedInv, FailWriteInv, CommitInv, WriterDiesInv
<1>2. ASSUME NEW e \in Writers, NEW o \in Outputs, BeginWork(e, o)  PROVE SidecarInv'
  BY <1>2, BeginWorkInv
<1>3. ASSUME NEW o \in Outputs, VisitRow(o)  PROVE SidecarInv'  BY <1>3, VisitRowInv
<1>4. ASSUME NEW r, TakeBack(r)  PROVE SidecarInv'  BY <1>4, TakeBackInv
<1>5. ASSUME BeginApply \/ MakeFile \/ FailFile \/ Own \/ EndApply  PROVE SidecarInv'
  BY <1>5, BeginApplyInv, MakeFileInv, FailFileInv, OwnInv, EndApplyInv
<1>6. ASSUME BeginRollback \/ EndRollback \/ ScriptDies  PROVE SidecarInv'
  BY <1>6, BeginRollbackInv, GivesUpInv
<1>7. ASSUME UNCHANGED sidecarVars  PROVE SidecarInv'
  BY <1>7 DEF sidecarVars, SidecarInv, SidecarTypes, WorkOK, ScriptOK, JournalOK,
     ReferencesResolve, Names, File, Entry, Work, Script, Entries, Scripted, Lasting, Whole,
     Referenced, Quiet
<1> QED  BY <1>1, <1>2, <1>3, <1>4, <1>5, <1>6, <1>7 DEF SidecarsNext

LEMMA SidecarSafe == SidecarsSpec => []SidecarInv
BY SidecarsInitInv, SidecarsStepInv, PTL DEF SidecarsSpec

(* Whatever writers and the script die, fail and race for the same output, *)
(* a reference in a row or a summary leads to its file, unless the sync of *)
(* that very file failed.                                                  *)
THEOREM ReferencesLast == SidecarsSpec => []ReferencesResolve
<1>1. SidecarInv => ReferencesResolve  BY DEF SidecarInv
<1> QED  BY <1>1, SidecarSafe, PTL

(* Every file of the script is in one entry of its journal, and is the     *)
(* only one it made for its output, however often it dies and starts again. *)
THEOREM JournalKnows == SidecarsSpec => []MadeIsJournalled
<1>1. SidecarInv => MadeIsJournalled
  <2> SUFFICES ASSUME SidecarInv, NEW r \in Scripted
               PROVE  /\ Cardinality({p \in Entries : p.ref = r}) = 1
                      /\ \A n \in Scripted : files[n].of = files[r].of => n = r
    BY DEF MadeIsJournalled, Scripted, Entries
  <2>1. PICK p \in Entries : p.ref = r  BY DEF SidecarInv, JournalOK
  <2>2. {q \in Entries : q.ref = r} = {p}  BY <2>1 DEF SidecarInv, JournalOK
  <2>3. Cardinality({q \in Entries : q.ref = r}) = 1  BY <2>2, FS_Singleton
  <2> QED  BY <2>3 DEF SidecarInv, JournalOK
<1> QED  BY <1>1, SidecarSafe, PTL

-----------------------------------------------------------------------------
(***************************************************************************)
(* Ingest: positions of a sequence                                         *)
(***************************************************************************)
(* A set of naturals has a least member: the induction of this module. *)
LEMMA LeastNatural ==
    ASSUME NEW T \in SUBSET Nat, T # {}
    PROVE  \E n \in T : \A m \in T : n <= m
<1>1. PICK n \in T : \A m \in T : ~(<<m, n>> \in OpToRel(<, Nat))
  BY NatLessThanWellFounded, WFMin
<1>2. \A m \in T : ~(m < n)  BY <1>1 DEF OpToRel
<1> QED  BY <1>2

(* Max and Min of sets of naturals are what they are called. *)
LEMMA MaxIsGreatest ==
    ASSUME NEW n \in Nat, NEW S \in SUBSET (0 .. n), S # {}
    PROVE  Max(S) \in S /\ \A y \in S : y <= Max(S)
<1> DEFINE T == {k \in Nat : k <= n /\ n - k \in S}
<1>1. PICK s \in S : TRUE  OBVIOUS
<1>2. s \in 0 .. n  OBVIOUS
<1>3. n - s \in T  BY <1>1, <1>2
<1>4. PICK k \in T : \A m \in T : k <= m  BY <1>3, LeastNatural
<1>5. \A y \in S : y <= n - k
  <2> TAKE y \in S
  <2>1. y \in 0 .. n  OBVIOUS
  <2>2. n - y \in T  BY <2>1
  <2>3. k <= n - y  BY <1>4, <2>2
  <2>4. k \in Nat  BY <1>4
  <2> QED  BY <2>1, <2>3, <2>4
<1>6. n - k \in S  BY <1>4
<1>7. \E x \in S : \A y \in S : x >= y  BY <1>5, <1>6
<1>8. Max(S) \in S /\ \A y \in S : Max(S) >= y  BY <1>7 DEF Max
<1> QED  BY <1>8

(* The least member of a set of naturals. *)
LEMMA MinIsLeast ==
    ASSUME NEW S \in SUBSET Nat, S # {}
    PROVE  Min(S) \in S /\ \A y \in S : Min(S) <= y
<1>1. \E x \in S : \A y \in S : x =< y  BY LeastNatural
<1> QED  BY <1>1 DEF Min

-----------------------------------------------------------------------------
(* Picking positions of a sequence keeps each of them, in its order. *)
LEMMA RankIsOrder ==
    ASSUME NEW n \in Nat, NEW S \in SUBSET (1 .. n)
    PROVE  /\ Cardinality(S) \in Nat
           /\ \A i \in S : Rank(S, i) \in 1 .. Cardinality(S)
           /\ \A i, j \in S : i < j => Rank(S, i) < Rank(S, j)
           /\ \A k \in 1 .. Cardinality(S) : \E i \in S : Rank(S, i) = k
<1> DEFINE Upto(i) == {j \in S : j <= i}
<1>1. IsFiniteSet(S) /\ Cardinality(S) \in Nat
  <2>1. IsFiniteSet(1 .. n)  BY FS_Interval
  <2> QED  BY <2>1, FS_Subset, FS_CardinalityType
<1>2. ASSUME NEW i \in S
      PROVE  IsFiniteSet(Upto(i)) /\ Rank(S, i) \in 1 .. Cardinality(S)
  <2>1. Upto(i) \in SUBSET S /\ i \in Upto(i)  OBVIOUS
  <2>2. IsFiniteSet(Upto(i)) /\ Cardinality(Upto(i)) <= Cardinality(S)
    BY <1>1, <2>1, FS_Subset
  <2>3. Cardinality(Upto(i)) \in Nat /\ Cardinality(Upto(i)) # 0
    BY <2>1, <2>2, FS_CardinalityType, FS_EmptySet
  <2> QED  BY <1>1, <2>2, <2>3 DEF Rank
<1>3. ASSUME NEW i \in S, NEW j \in S, i < j
      PROVE  Rank(S, i) < Rank(S, j)
  <2>1. Upto(i) \in SUBSET Upto(j)
    <3>1. \A k \in S : k \in Nat  OBVIOUS
    <3>2. \A k \in S : k <= i => k <= j  BY <1>3, <3>1
    <3> QED  BY <3>2
  <2>2. j \in Upto(j) /\ j \notin Upto(i)  BY <1>3
  <2>3. IsFiniteSet(Upto(j)) /\ IsFiniteSet(Upto(i))  BY <1>2
  <2>4. /\ Cardinality(Upto(i)) <= Cardinality(Upto(j))
        /\ Cardinality(Upto(i)) # Cardinality(Upto(j))
    BY <2>1, <2>2, <2>3, FS_Subset
  <2>5. Cardinality(Upto(i)) \in Nat /\ Cardinality(Upto(j)) \in Nat
    BY <2>3, FS_CardinalityType
  <2> QED  BY <2>4, <2>5 DEF Rank
<1>4. \A k \in 1 .. Cardinality(S) : \E i \in S : Rank(S, i) = k
  <2> DEFINE f == [i \in S |-> Rank(S, i)]
             N == 1 .. Cardinality(S)
  <2>1. f \in [S -> N]  BY <1>2
  <2>2. \A i, j \in S : f[i] = f[j] => i = j
    <3> SUFFICES ASSUME NEW i \in S, NEW j \in S, Rank(S, i) = Rank(S, j)
                 PROVE  i = j
      OBVIOUS
    <3>1. Rank(S, i) \in 1 .. Cardinality(S)  BY <1>2
    <3>2. Rank(S, i) \in Nat  BY <1>1, <3>1
    <3>3. ~(i < j) /\ ~(j < i)  BY <1>3, <3>2
    <3>4. i \in Nat /\ j \in Nat  OBVIOUS
    <3> QED  BY <3>3, <3>4
  <2>3. f \in Injection(S, N)  BY <2>1, <2>2 DEF Injection, IsInjective
  <2>4. IsFiniteSet(N) /\ Cardinality(N) = Cardinality(S)
    <3>1. Cardinality(N) = IF 1 > Cardinality(S) THEN 0 ELSE Cardinality(S) - 1 + 1
      BY <1>1, FS_Interval
    <3>2. IsFiniteSet(N)  BY <1>1, FS_Interval
    <3> QED  BY <1>1, <3>1, <3>2
  <2>5. f \in Surjection(S, N)  BY <2>3, <2>4, FS_Injection
  <2> QED  BY <2>5 DEF Surjection
<1> QED  BY <1>1, <1>2, <1>3, <1>4

(* What is picked are the messages at the positions, in their order. *)
LEMMA PickProperties ==
    ASSUME NEW M, NEW ms \in Seq(M), NEW S \in SUBSET DOMAIN ms
    PROVE  /\ Pick(ms, S) \in Seq(M)
           /\ Len(Pick(ms, S)) = Cardinality(S) /\ Cardinality(S) \in Nat
           /\ \A i \in S : /\ Rank(S, i) \in DOMAIN Pick(ms, S)
                           /\ Pick(ms, S)[Rank(S, i)] = ms[i]
           /\ \A k \in DOMAIN Pick(ms, S) :
                 \E i \in S : Rank(S, i) = k /\ Pick(ms, S)[k] = ms[i]
           /\ \A i, j \in S : i < j => Rank(S, i) < Rank(S, j)
<1> DEFINE p == Pick(ms, S)
           c == Cardinality(S)
           at(k) == CHOOSE i \in S : Rank(S, i) = k
<1>0. PICK n \in Nat : n = Len(ms)  OBVIOUS
<1>1. S \in SUBSET (1 .. n) /\ \A i \in 1 .. n : ms[i] \in M  BY <1>0
<1>2. /\ c \in Nat
      /\ \A i \in S : Rank(S, i) \in 1 .. c
      /\ \A i, j \in S : i < j => Rank(S, i) < Rank(S, j)
      /\ \A k \in 1 .. c : \E i \in S : Rank(S, i) = k
  BY <1>1, RankIsOrder
<1>3. ASSUME NEW k \in 1 .. c
      PROVE  at(k) \in S /\ Rank(S, at(k)) = k
  BY <1>2
<1>4. \A i \in S : at(Rank(S, i)) = i
  <2> TAKE i \in S
  <2> DEFINE j == at(Rank(S, i))
  <2>1. j \in S /\ Rank(S, j) = Rank(S, i)  BY <1>2, <1>3
  <2>2. i \in 1 .. n /\ j \in 1 .. n /\ Rank(S, i) \in Nat  BY <1>1, <1>2, <2>1
  <2> HIDE DEF j
  <2>3. ~(i < j) /\ ~(j < i)  BY <1>2, <2>1, <2>2
  <2>4. j = i  BY <2>2, <2>3
  <2> QED  BY <2>4 DEF j
<1>5. p = [k \in 1 .. c |-> ms[at(k)]]  BY DEF Pick
<1> HIDE DEF p, at
<1>6. \A k \in 1 .. c : ms[at(k)] \in M  BY <1>1, <1>3
<1>7. p \in Seq(M) /\ Len(p) = c /\ DOMAIN p = 1 .. c  BY <1>2, <1>5, <1>6
<1>8. \A i \in S : Rank(S, i) \in DOMAIN p /\ p[Rank(S, i)] = ms[i]
  BY <1>2, <1>4, <1>5, <1>7
<1>9. \A k \in DOMAIN p : \E i \in S : Rank(S, i) = k /\ p[k] = ms[i]
  BY <1>3, <1>5, <1>7
<1>10. p = Pick(ms, S)  BY DEF p
<1> QED  BY <1>2, <1>7, <1>8, <1>9, <1>10

(* A suffix has nothing that the whole does not have. *)
LEMMA SuffixFrom ==
    ASSUME NEW T, NEW s \in Seq(T), NEW t \in Seq(T), IsSuffix(s, t)
    PROVE  \A i \in DOMAIN s : \E j \in DOMAIN t : t[j] = s[i]
<1>0. PICK m \in Nat, n \in Nat : m = Len(s) /\ n = Len(t)  OBVIOUS
<1> DEFINE rs == Reverse(s)
           rt == Reverse(t)
<1>1. rs = [i \in 1 .. m |-> s[(m - i) + 1]] /\ rt = [i \in 1 .. n |-> t[(n - i) + 1]]
  BY <1>0 DEF Reverse
<1>2. \A i \in 1 .. m : s[i] \in T /\ (m - i) + 1 \in 1 .. m  BY <1>0
<1>3. \A i \in 1 .. n : t[i] \in T /\ (n - i) + 1 \in 1 .. n  BY <1>0
<1>4. rs \in Seq(T) /\ Len(rs) = m /\ rt \in Seq(T) /\ Len(rt) = n
  BY <1>1, <1>2, <1>3
<1>5. m <= n /\ SubSeq(rs, 1, m) = SubSeq(rt, 1, m)
  BY <1>4 DEF IsSuffix, IsPrefix
<1> HIDE DEF rs, rt
<1>6. \A i \in 1 .. m : SubSeq(rs, 1, m)[i] = rs[i] /\ SubSeq(rt, 1, m)[i] = rt[i]
  <2>1. \A i \in 1 .. m : rs[i] \in T /\ rt[i] \in T  BY <1>4, <1>5
  <2>2. /\ \A i \in 1 .. m - 1 + 1 : SubSeq(rs, 1, m)[i] = rs[1 + i - 1]
        /\ \A i \in 1 .. m - 1 + 1 : SubSeq(rt, 1, m)[i] = rt[1 + i - 1]
    BY <2>1, SubSeqProperties
  <2> QED  BY <2>2
<1>7. \A i \in 1 .. m : rs[i] = rt[i]  BY <1>5, <1>6
<1> SUFFICES ASSUME NEW i \in 1 .. m
             PROVE  \E j \in 1 .. n : t[j] = s[i]
  BY <1>0
<1> DEFINE k == (m - i) + 1
<1>8. k \in 1 .. m /\ k \in 1 .. n /\ (m - k) + 1 = i  BY <1>5
<1>9. s[i] = rs[k] /\ rt[k] = t[(n - k) + 1]  BY <1>1, <1>8
<1>10. rs[k] = rt[k]  BY <1>7, <1>8
<1>11. (n - k) + 1 \in 1 .. n  BY <1>8
<1> QED  BY <1>9, <1>10, <1>11

-----------------------------------------------------------------------------
(***************************************************************************)
(* Replayed prefixes                                                       *)
(***************************************************************************)
Message == [text : Texts \cup Scaffold, turn : Nat, at : Nat]
RowFields == [text : Texts \cup {Cleared}, call : Tools \cup {NoCall}, turn : Nat, time : Nat]
StoredRow == {r \in RowFields : r.text = Cleared => r.call \in Tools}
AnyText == Texts \cup Scaffold \cup {Cleared}

(* A row remembers what a message says, or the call that it answers. *)
Recalls(r, t) == r.text = t \/ (r.text = Cleared /\ r.call = t /\ t \in Tools)

(* The texts of messages, one each. *)
LEMMA TextsOfMessages ==
    ASSUME NEW ms \in Seq(Message)
    PROVE  /\ TextsOf(ms) \in Seq(AnyText) /\ DOMAIN TextsOf(ms) = DOMAIN ms
           /\ \A i \in DOMAIN ms : TextsOf(ms)[i] = ms[i].text
<1>1. \A i \in 1 .. Len(ms) : ms[i].text \in AnyText
  <2>1. \A i \in 1 .. Len(ms) : ms[i] \in Message  OBVIOUS
  <2>2. \A m \in Message : m.text \in AnyText  BY DEF Message, AnyText
  <2> QED  BY <2>1, <2>2
<1>2. TextsOf(ms) = [i \in 1 .. Len(ms) |-> ms[i].text]  BY DEF TextsOf
<1>3. TextsOf(ms) \in Seq(AnyText)  BY <1>1, <1>2
<1> QED  BY <1>2, <1>3

(* The texts of rows, one each. *)
LEMMA TextsOfRows ==
    ASSUME NEW stored \in Seq(StoredRow)
    PROVE  /\ TextsOf(stored) \in Seq(AnyText) /\ DOMAIN TextsOf(stored) = DOMAIN stored
           /\ \A i \in DOMAIN stored : TextsOf(stored)[i] = stored[i].text
<1>1. \A i \in 1 .. Len(stored) : stored[i].text \in AnyText
  <2>1. \A i \in 1 .. Len(stored) : stored[i] \in StoredRow  OBVIOUS
  <2>2. \A r \in StoredRow : r.text \in AnyText  BY DEF StoredRow, RowFields, AnyText
  <2> QED  BY <2>1, <2>2
<1>2. TextsOf(stored) = [i \in 1 .. Len(stored) |-> stored[i].text]  BY DEF TextsOf
<1>3. TextsOf(stored) \in Seq(AnyText)  BY <1>1, <1>2
<1> QED  BY <1>2, <1>3

(* A prefix of a list. *)
LEMMA PrefixOf ==
    ASSUME NEW ms \in Seq(Message), NEW c \in 0 .. Len(ms)
    PROVE  /\ SubSeq(ms, 1, c) \in Seq(Message) /\ Len(SubSeq(ms, 1, c)) = c
           /\ \A i \in 1 .. c : SubSeq(ms, 1, c)[i] = ms[i]
<1>1. \A i \in 1 .. c : ms[i] \in Message  OBVIOUS
<1>2. /\ SubSeq(ms, 1, c) \in Seq(Message)
      /\ Len(SubSeq(ms, 1, c)) = IF 1 <= c THEN c - 1 + 1 ELSE 0
      /\ \A i \in 1 .. c - 1 + 1 : SubSeq(ms, 1, c)[i] = ms[1 + i - 1]
  BY <1>1, SubSeqProperties
<1> QED  BY <1>2

(* What follows a prefix of a list. *)
LEMMA RestOf ==
    ASSUME NEW ms \in Seq(Message), NEW c \in 0 .. Len(ms)
    PROVE  /\ SubSeq(ms, c + 1, Len(ms)) \in Seq(Message)
           /\ Len(SubSeq(ms, c + 1, Len(ms))) = Len(ms) - c
           /\ \A i \in 1 .. Len(ms) - c : SubSeq(ms, c + 1, Len(ms))[i] = ms[c + i]
<1> PICK n \in Nat : n = Len(ms)  OBVIOUS
<1>1. \A i \in c + 1 .. n : ms[i] \in Message  OBVIOUS
<1>2. /\ SubSeq(ms, c + 1, n) \in Seq(Message)
      /\ Len(SubSeq(ms, c + 1, n)) = IF c + 1 <= n THEN n - (c + 1) + 1 ELSE 0
      /\ \A i \in 1 .. n - (c + 1) + 1 : SubSeq(ms, c + 1, n)[i] = ms[c + 1 + i - 1]
  BY <1>1, SubSeqProperties
<1>3. Len(SubSeq(ms, c + 1, n)) = n - c  BY <1>2
<1>4. \A i \in 1 .. n - c : i \in 1 .. n - (c + 1) + 1 /\ c + 1 + i - 1 = c + i  OBVIOUS
<1> QED  BY <1>2, <1>3, <1>4

(* What the code reads of a prefix: the texts of its turns. *)
LEMMA RealPrefix ==
    ASSUME NEW ms \in Seq(Message), NEW c \in 0 .. Len(ms)
    PROVE  /\ TextsOf(Real(SubSeq(ms, 1, c))) \in Seq(AnyText)
           /\ \A i \in 1 .. c : ~IsScaffold(ms[i])
                 => \E k \in DOMAIN TextsOf(Real(SubSeq(ms, 1, c))) :
                       TextsOf(Real(SubSeq(ms, 1, c)))[k] = ms[i].text
<1>1. PICK head \in Seq(Message) : head = SubSeq(ms, 1, c)  BY PrefixOf
<1>2. Len(head) = c /\ \A i \in 1 .. c : head[i] = ms[i]  BY <1>1, PrefixOf
<1> DEFINE S == {i \in DOMAIN head : ~IsScaffold(head[i])}
<1>3. Real(head) = Pick(head, S)  BY DEF Real
<1>4. S \in SUBSET DOMAIN head  OBVIOUS
<1>5. PICK r : r = Pick(head, S)  OBVIOUS
<1>6. /\ r \in Seq(Message)
      /\ \A i \in S : Rank(S, i) \in DOMAIN r /\ r[Rank(S, i)] = head[i]
  BY <1>4, <1>5, PickProperties
<1>7. /\ TextsOf(r) \in Seq(AnyText) /\ DOMAIN TextsOf(r) = DOMAIN r
      /\ \A i \in DOMAIN r : TextsOf(r)[i] = r[i].text
  BY <1>6, TextsOfMessages
<1>8. ASSUME NEW i \in 1 .. c, ~IsScaffold(ms[i])
      PROVE  \E k \in DOMAIN TextsOf(r) : TextsOf(r)[k] = ms[i].text
  <2>1. i \in S /\ head[i] = ms[i]  BY <1>2, <1>8
  <2> QED  BY <1>6, <1>7, <2>1
<1> HIDE DEF S
<1>9. Real(SubSeq(ms, 1, c)) = r  BY <1>1, <1>3, <1>5
<1>10. TextsOf(r) \in Seq(AnyText)  BY <1>7
<1> QED  BY <1>8, <1>9, <1>10

(* Cleaning the stored tail adds nothing to it. *)
LEMMA SanitizedFrom ==
    ASSUME NEW tail \in Seq(AnyText)
    PROVE  /\ Sanitized(tail) \in Seq(AnyText)
           /\ \A k \in DOMAIN Sanitized(tail) :
                 \E j \in DOMAIN tail : tail[j] = Sanitized(tail)[k]
<1> DEFINE S == {i \in DOMAIN tail : tail[i] \notin Internal}
<1>1. Sanitized(tail) = Pick(tail, S)  BY DEF Sanitized
<1>2. S \in SUBSET DOMAIN tail  OBVIOUS
<1>3. /\ Pick(tail, S) \in Seq(AnyText)
      /\ \A k \in DOMAIN Pick(tail, S) : \E i \in S : Rank(S, i) = k /\ Pick(tail, S)[k] = tail[i]
  BY <1>2, PickProperties
<1> QED  BY <1>1, <1>2, <1>3

(* A prefix that proves to be a replay holds stored turns only. *)
LEMMA ReplayIsStored ==
    ASSUME NEW ms \in Seq(Message), NEW stored \in Seq(StoredRow),
           NEW c \in 0 .. Len(ms), ProvesReplay(ms, c, TextsOf(stored)),
           NEW i \in 1 .. c, ~IsScaffold(ms[i])
    PROVE  \E j \in DOMAIN stored : stored[j].text = ms[i].text
<1>1. PICK p \in Seq(AnyText) : p = TextsOf(Real(SubSeq(ms, 1, c)))  BY RealPrefix
<1>2. PICK k \in DOMAIN p : p[k] = ms[i].text  BY <1>1, RealPrefix
<1>3. PICK tail \in Seq(AnyText) : tail = TextsOf(stored)  BY TextsOfRows
<1>4. IsSuffix(p, tail) \/ IsSuffix(p, Sanitized(tail))
  <2>1. \/ p = <<>>
        \/ FullReplay(p, tail)
        \/ RawFullReplay(ms, c, p, tail)
        \/ ObjectiveReplay(ms, c, p, tail)
        \/ CleanupReplay(ms, c, p, tail)
    BY <1>1, <1>3 DEF ProvesReplay
  <2>2. p # <<>>  BY <1>2
  <2>3. FullReplay(p, tail) => IsSuffix(p, Sanitized(tail))  BY DEF FullReplay
  <2>4. RawFullReplay(ms, c, p, tail) => IsSuffix(p, tail)  BY DEF RawFullReplay
  <2>5. ObjectiveReplay(ms, c, p, tail) => IsSuffix(p, Sanitized(tail))  BY DEF ObjectiveReplay
  <2>6. CleanupReplay(ms, c, p, tail) => IsSuffix(p, tail)  BY DEF CleanupReplay
  <2> QED  BY <2>1, <2>2, <2>3, <2>4, <2>5, <2>6
<1>5. \E j \in DOMAIN tail : tail[j] = p[k]
  <2>1. CASE IsSuffix(p, tail)  BY <1>2, <2>1, SuffixFrom
  <2>2. CASE IsSuffix(p, Sanitized(tail))
    <3>1. Sanitized(tail) \in Seq(AnyText)  BY SanitizedFrom
    <3>2. PICK m \in DOMAIN Sanitized(tail) : Sanitized(tail)[m] = p[k]
      BY <1>2, <2>2, <3>1, SuffixFrom
    <3> QED  BY <3>2, SanitizedFrom
  <2> QED  BY <1>4, <2>1, <2>2
<1> QED  BY <1>2, <1>3, <1>5, TextsOfRows

(* The cursor that is found ends a proven replay. *)
LEMMA FindCursorProves ==
    ASSUME NEW ms \in Seq(Message), NEW stored \in Seq(StoredRow)
    PROVE  /\ FindCursor(ms, TextsOf(stored)) \in 0 .. Len(ms)
           /\ ProvesReplay(ms, FindCursor(ms, TextsOf(stored)), TextsOf(stored))
           /\ \A c \in 0 .. Len(ms) : ProvesReplay(ms, c, TextsOf(stored))
                                        => c <= FindCursor(ms, TextsOf(stored))
<1>0. PICK n \in Nat : n = Len(ms)  OBVIOUS
<1>1. PICK tail : tail = TextsOf(stored)  OBVIOUS
<1> DEFINE S == {c \in 0 .. Len(ms) : ProvesReplay(ms, c, tail)}
<1>2. ProvesReplay(ms, 0, tail)
  <2>1. SubSeq(ms, 1, 0) = <<>>  BY SubSeqEmpty
  <2>2. {i \in DOMAIN << >> : ~IsScaffold(<< >>[i])} = {}  OBVIOUS
  <2>3. Real(<<>>) = Pick(<<>>, {})  BY <2>2 DEF Real
  <2>4. Pick(<<>>, {}) = <<>>  BY FS_EmptySet DEF Pick
  <2>5. TextsOf(<<>>) = <<>>  BY DEF TextsOf
  <2> QED  BY <2>1, <2>3, <2>4, <2>5 DEF ProvesReplay
<1>3. S \in SUBSET (0 .. n) /\ S # {}  BY <1>0, <1>2
<1>4. Max(S) \in S /\ \A y \in S : y <= Max(S)  BY <1>3, MaxIsGreatest
<1>5. FindCursor(ms, tail) = Max(S)  BY DEF FindCursor
<1> QED  BY <1>1, <1>4, <1>5

-----------------------------------------------------------------------------
(***************************************************************************)
(* The window and the alignment                                            *)
(***************************************************************************)
(* Up to the window cursor every turn but the system prompt is stored. *)
LEMMA WindowIsStored ==
    ASSUME NEW ms \in Seq(Message), NEW stored \in Seq(StoredRow),
           NEW w, w = WindowCursor(ms, TextsOf(stored))
    PROVE  /\ w \in 0 .. Len(ms)
           /\ \A i \in 1 .. w : \/ IsScaffold(ms[i])
                                \/ ms[i].text = System
                                \/ \E j \in DOMAIN stored : stored[j].text = ms[i].text
<1>0. PICK n \in Nat : n = Len(ms)  OBVIOUS
<1>1. PICK tail \in Seq(AnyText) : tail = TextsOf(stored)  BY TextsOfRows
<1>2. PICK z \in Nat : z = Len(tail)  OBVIOUS
<1> DEFINE turns == {i \in DOMAIN ms : ~IsScaffold(ms[i]) /\ ms[i].text # System}
           first == Min(turns)
           tried == {i \in first..Len(ms) : ~IsScaffold(ms[i])}
           anchors == {j \in DOMAIN tail : tail[j] = ms[first].text}
           Stored(t) == Cardinality({j \in Max(anchors)..Len(tail) : tail[j] = t})
           Used(t, i) == Cardinality({j \in tried : j <= i /\ ms[j].text = t})
           replayed == {i \in tried : \A j \in tried :
                           j <= i => Used(ms[j].text, j) <= Stored(ms[j].text)}
           found == /\ turns # {}
                    /\ \E i \in 1..(first - 1) : ms[i].text = Summary
                    /\ anchors # {}
<1>3. w = IF found THEN Max(replayed) ELSE 0
  BY <1>1 DEF WindowCursor
<1>4. CASE ~found
  <2>1. w = 0  BY <1>3, <1>4
  <2> QED  BY <1>0, <2>1
<1>5. CASE found
  <2>1. turns \in SUBSET (1 .. n) /\ turns # {}  BY <1>0, <1>5
  <2>2. turns \in SUBSET Nat  BY <2>1
  <2>3. first \in turns /\ \A y \in turns : first <= y  BY <2>1, <2>2, MinIsLeast
  <2>4. PICK f \in 1 .. n : f = first  BY <2>1, <2>3
  <2>5. f \in turns /\ \A y \in turns : f <= y  BY <2>3, <2>4
  <2>6. tried = {i \in f..n : ~IsScaffold(ms[i])}  BY <1>0, <2>4
  <2>7. anchors = {j \in 1..z : tail[j] = ms[f].text} /\ anchors # {}
    <3>1. DOMAIN tail = 1 .. z  BY <1>2
    <3>2. anchors # {}  BY <1>5
    <3> HIDE DEF first
    <3>3. anchors = {j \in 1..z : tail[j] = ms[f].text}  BY <2>4, <3>1
    <3> QED  BY <3>2, <3>3
  <2> HIDE DEF first, turns, tried
  <2>8. anchors \in SUBSET (0 .. z)  BY <2>7
  <2>9. Max(anchors) \in anchors  BY <2>7, <2>8, MaxIsGreatest
  <2>10. PICK a \in 1 .. z : a = Max(anchors) /\ tail[a] = ms[f].text  BY <2>7, <2>9
  <2>11. \A t : Stored(t) = Cardinality({j \in a..z : tail[j] = t})  BY <1>2, <2>10
  <2> HIDE DEF anchors
  <2>12. \A t : IsFiniteSet({j \in a..z : tail[j] = t})
    <3> TAKE t
    <3>1. IsFiniteSet(a .. z)  BY FS_Interval
    <3>2. {j \in a..z : tail[j] = t} \in SUBSET (a .. z)  OBVIOUS
    <3> QED  BY <3>1, <3>2, FS_Subset
  <2>13. \A t, i : IsFiniteSet({j \in tried : j <= i /\ ms[j].text = t})
    <3> TAKE t, i
    <3>1. IsFiniteSet(f .. n)  BY FS_Interval
    <3>2. {j \in tried : j <= i /\ ms[j].text = t} \in SUBSET (f .. n)  BY <2>6
    <3> QED  BY <3>1, <3>2, FS_Subset
  <2>14. ASSUME NEW i \in tried, Used(ms[i].text, i) <= Stored(ms[i].text)
         PROVE  \E j \in 1 .. z : tail[j] = ms[i].text
    <3> DEFINE U == {j \in tried : j <= i /\ ms[j].text = ms[i].text}
               V == {j \in a..z : tail[j] = ms[i].text}
    <3>1. i \in U  BY <2>6
    <3>2. IsFiniteSet(U) /\ IsFiniteSet(V)  BY <2>12, <2>13
    <3>3. Cardinality(U) \in Nat /\ Cardinality(U) # 0 /\ Cardinality(V) \in Nat
      BY <3>1, <3>2, FS_CardinalityType, FS_EmptySet
    <3>4. Cardinality(U) <= Cardinality(V)  BY <2>11, <2>14
    <3>5. Cardinality(V) # 0  BY <3>3, <3>4
    <3>6. V # {}  BY <3>5, FS_EmptySet
    <3> QED  BY <3>6
  <2>15. f \in replayed
    <3>1. f \in tried  BY <2>5, <2>6 DEF turns
    <3>2. \A j \in tried : j <= f => j = f  BY <2>6
    <3>3. Used(ms[f].text, f) <= Stored(ms[f].text)
      <4> DEFINE U == {j \in tried : j <= f /\ ms[j].text = ms[f].text}
                 V == {j \in a..z : tail[j] = ms[f].text}
      <4>1. U = {f}  BY <3>1, <3>2, <2>6
      <4>2. Cardinality(U) = 1  BY <4>1, FS_Singleton
      <4>3. a \in V  BY <2>10
      <4>4. IsFiniteSet(V)  BY <2>12
      <4>5. Cardinality(V) \in Nat /\ Cardinality(V) # 0
        BY <4>3, <4>4, FS_CardinalityType, FS_EmptySet
      <4>6. Cardinality(U) <= Cardinality(V)  BY <4>2, <4>5
      <4> QED  BY <2>11, <4>6
    <3> QED  BY <3>1, <3>2, <3>3
  <2>16. replayed \in SUBSET (0 .. n)  BY <2>6
  <2>17. Max(replayed) \in replayed  BY <2>15, <2>16, MaxIsGreatest
  <2>18. w = Max(replayed)  BY <1>3, <1>5
  <2>19. w \in replayed  BY <2>17, <2>18
  <2>20. w \in 1 .. n  BY <2>6, <2>19
  <2>21. ASSUME NEW i \in 1 .. w
         PROVE  \/ IsScaffold(ms[i])
                \/ ms[i].text = System
                \/ \E j \in DOMAIN stored : stored[j].text = ms[i].text
    <3>1. i \in 1 .. n  BY <2>20
    <3>2. CASE i < f
      <4>1. i \notin turns  BY <2>5, <3>1, <3>2
      <4> QED  BY <1>0, <3>1, <4>1 DEF turns
    <3>3. CASE i >= f /\ ~IsScaffold(ms[i])
      <4>1. i \in tried /\ i <= w  BY <2>6, <2>20, <3>1, <3>3
      <4>2. Used(ms[i].text, i) <= Stored(ms[i].text)  BY <2>19, <4>1
      <4>3. PICK j \in 1 .. z : tail[j] = ms[i].text  BY <2>14, <4>1, <4>2
      <4> QED  BY <1>1, <1>2, <4>3, TextsOfRows
    <3> QED  BY <3>1, <3>2, <3>3
  <2> QED  BY <1>0, <2>20, <2>21
<1> QED  BY <1>4, <1>5

(* A message the mask leaves out is remembered by a row. *)
LEMMA MaskIsStored ==
    ASSUME IngestAssumption, NEW ms \in Seq(Message), NEW stored \in Seq(StoredRow),
           NEW i \in Mask(ms, stored)
    PROVE  /\ i \in DOMAIN ms
           /\ \E j \in DOMAIN stored : Recalls(stored[j], ms[i].text)
<1>1. PICK k \in KeysOf(stored) : i \in Carried(ms, k, stored)  BY DEF Mask
<1>2. PICK j \in DOMAIN stored : k = KeyOfRow(stored[j])  BY <1>1 DEF KeysOf
<1>3. k[1] = stored[j].text /\ k[2] = stored[j].call  BY <1>2 DEF KeyOfRow
<1>4. stored[j] \in StoredRow  BY <1>2
<1>5. CASE i \in Exact(ms, k, stored)
  <2>1. i \in DOMAIN ms /\ KeyOfMsg(ms[i]) = k  BY <1>5 DEF Exact
  <2>2. ms[i].text = k[1]  BY <2>1 DEF KeyOfMsg
  <2> QED  BY <1>2, <1>3, <2>1, <2>2 DEF Recalls
<1>6. CASE i \in ByCall(ms, k, stored)
  <2> DEFINE same == {m \in DOMAIN ms : CallOf(ms[m]) = k[2] /\ NotFresh(ms[m], k, stored)}
  <2>1. ByCall(ms, k, stored) = IF Rewritten(k) /\ same # {} THEN {Min(same)} ELSE {}
    BY DEF ByCall
  <2>2. Rewritten(k) /\ same # {} /\ i = Min(same)  BY <1>6, <2>1
  <2>3. same \in SUBSET Nat  OBVIOUS
  <2>4. i \in same  BY <2>2, <2>3, MinIsLeast
  <2>5. i \in DOMAIN ms /\ CallOf(ms[i]) = stored[j].call /\ stored[j].text = Cleared
    BY <1>3, <2>2, <2>4 DEF Rewritten
  <2>6. stored[j].call \in Tools  BY <1>4, <2>5 DEF StoredRow
  <2>7. ms[i].text \in Tools /\ ms[i].text = stored[j].call
    BY <2>5, <2>6 DEF CallOf, IngestAssumption
  <2> QED  BY <2>5, <2>6, <2>7 DEF Recalls
<1> QED  BY <1>1, <1>5, <1>6 DEF Carried

-----------------------------------------------------------------------------
(***************************************************************************)
(* What reconciliation decides                                             *)
(***************************************************************************)
HeadOnly(ms) == \A i, j \in DOMAIN ms : i <= j /\ IsScaffold(ms[j]) => IsScaffold(ms[i])

(* What may be left out: scaffolding, the prompt, and what a row recalls. *)
Remembered(t, stored) ==
    (t = System /\ stored # <<>>) \/ \E j \in DOMAIN stored : Recalls(stored[j], t)

(* What the mask past a scaffold leaves out is remembered. *)
LEMMA ScaffoldMaskIsStored ==
    ASSUME IngestAssumption, NEW ms \in Seq(Message), NEW stored \in Seq(StoredRow),
           NEW c \in 0 .. Len(ms), NEW i \in ScaffoldMask(ms, c, stored)
    PROVE  \E j \in DOMAIN stored : Recalls(stored[j], ms[i].text)
<1>1. PICK rest \in Seq(Message) : rest = SubSeq(ms, c + 1, Len(ms))  BY RestOf
<1>2. Len(rest) = Len(ms) - c /\ \A k \in 1 .. Len(ms) - c : rest[k] = ms[c + k]
  BY <1>1, RestOf
<1>3. CASE i \in Mask(ms, stored)
  BY <1>3, MaskIsStored
<1>4. CASE i \in Shift(Mask(rest, stored), c)
  <2>1. PICK k \in Mask(rest, stored) : i = k + c  BY <1>4 DEF Shift
  <2>2. k \in DOMAIN rest /\ \E j \in DOMAIN stored : Recalls(stored[j], rest[k].text)
    BY MaskIsStored
  <2>3. k \in 1 .. Len(ms) - c /\ k + c = c + k  BY <1>2, <2>2
  <2>4. rest[k] = ms[i]  BY <1>2, <2>1, <2>3
  <2> QED  BY <2>2, <2>4
<1>5. i \in Mask(ms, stored) \/ i \in Shift(Mask(rest, stored), c)
  <2> DEFINE g == Gate(rest, Covered(ms, stored), Span(ms, stored),
                       Shift(After(Mask(ms, stored), c), -c), InOrder(ms, stored))
  <2>1. ScaffoldMask(ms, c, stored) =
          IF IsReplay(rest, stored) THEN Shift(Mask(rest, stored), c)
          ELSE IF g THEN Mask(ms, stored) ELSE {}
    BY <1>1 DEF ScaffoldMask
  <2> HIDE DEF g
  <2> QED  BY <2>1
<1> QED  BY <1>3, <1>4, <1>5

(* A prefix of scaffolding proves itself. *)
LEMMA ScaffoldIsReplay ==
    ASSUME NEW ms \in Seq(Message), NEW c \in 0 .. Len(ms), NEW tail,
           \A i \in 1 .. c : IsScaffold(ms[i])
    PROVE  ProvesReplay(ms, c, tail)
<1>1. PICK head \in Seq(Message) : head = SubSeq(ms, 1, c)  BY PrefixOf
<1>2. Len(head) = c /\ \A i \in 1 .. c : head[i] = ms[i]  BY <1>1, PrefixOf
<1>3. {i \in DOMAIN head : ~IsScaffold(head[i])} = {}  BY <1>2
<1>4. Real(head) = Pick(head, {})  BY <1>3 DEF Real
<1>5. Pick(head, {}) = <<>>  BY FS_EmptySet DEF Pick
<1>6. TextsOf(<<>>) = <<>>  BY DEF TextsOf
<1> QED  BY <1>1, <1>4, <1>5, <1>6 DEF ProvesReplay

(* Reconciliation skips and leaves out nothing but what is remembered. *)
LEMMA ReconcileIsSound ==
    ASSUME IngestAssumption, NEW ms \in Seq(Message), NEW stored \in Seq(StoredRow),
           NEW v, v = Reconcile(ms, stored)
    PROVE  /\ v.cursor \in 0 .. Len(ms) /\ v.deferred \in BOOLEAN
           /\ \A i \in DOMAIN ms : i <= v.cursor \/ i \in v.out
                 => IsScaffold(ms[i]) \/ Remembered(ms[i].text, stored)
           /\ stored # <<>> /\ HeadOnly(ms)
                 => \A i \in DOMAIN ms : IsScaffold(ms[i]) => i <= v.cursor
<1>0. PICK n \in Nat : n = Len(ms)  OBVIOUS
<1>1. PICK tail : tail = TextsOf(stored)  OBVIOUS
<1>2. PICK c \in 0 .. n : c = FindCursor(ms, tail)  BY <1>0, <1>1, FindCursorProves
<1>3. ProvesReplay(ms, c, tail) /\ \A d \in 0 .. n : ProvesReplay(ms, d, tail) => d <= c
  BY <1>0, <1>1, <1>2, FindCursorProves
<1>4. PICK w \in 0 .. n : w = WindowCursor(ms, tail)  BY <1>0, <1>1, WindowIsStored
<1>5. PICK only \in BOOLEAN, same \in BOOLEAN :
         /\ only = (Real(SubSeq(ms, 1, c)) = <<>>)
         /\ same = IsReplay(ms, stored)
  <2>1. IsReplay(ms, stored) \in BOOLEAN  BY DEF IsReplay, Gate
  <2> QED  BY <2>1
<1>6. PICK mask, past : mask = Mask(ms, stored) /\ past = ScaffoldMask(ms, c, stored)
  OBVIOUS
<1>7. v = IF stored = <<>> \/ ms = <<>> THEN Verdict(0, {}, FALSE)
          ELSE IF only /\ w > c THEN Verdict(w, {}, FALSE)
          ELSE IF c > 0 /\ ~only THEN Verdict(c, mask, FALSE)
          ELSE IF c > 0 THEN Verdict(c, past, FALSE)
          ELSE IF same THEN Verdict(0, mask, TRUE)
          ELSE Verdict(0, {}, FALSE)
  BY <1>1, <1>2, <1>4, <1>5, <1>6 DEF Reconcile
<1>8. \/ v.cursor = 0 /\ v.out = {} /\ v.deferred = FALSE /\ (stored = <<>> \/ ms = <<>> \/ c = 0)
      \/ stored # <<>> /\ w > c /\ v.cursor = w /\ v.out = {} /\ v.deferred = FALSE
      \/ stored # <<>> /\ v.cursor = c /\ v.out = mask /\ v.deferred = FALSE
      \/ stored # <<>> /\ v.cursor = c /\ v.out = past /\ v.deferred = FALSE
      \/ stored # <<>> /\ c = 0 /\ v.cursor = 0 /\ v.out = mask /\ v.deferred = TRUE
  BY <1>7 DEF Verdict
<1>9. \A i \in 1 .. n : i <= c => \/ IsScaffold(ms[i])
                                  \/ Remembered(ms[i].text, stored)
  <2> SUFFICES ASSUME NEW i \in 1 .. n, i <= c, ~IsScaffold(ms[i])
               PROVE  Remembered(ms[i].text, stored)
    OBVIOUS
  <2>1. i \in 1 .. c /\ c \in 0 .. Len(ms)  BY <1>0
  <2>2. \E j \in DOMAIN stored : stored[j].text = ms[i].text
    BY <1>1, <1>3, <2>1, ReplayIsStored
  <2> QED  BY <2>2 DEF Remembered, Recalls
<1>10. stored # <<>> => \A i \in 1 .. n : i <= w => \/ IsScaffold(ms[i])
                                                    \/ Remembered(ms[i].text, stored)
  <2> SUFFICES ASSUME stored # <<>>, NEW i \in 1 .. n, i <= w
               PROVE  IsScaffold(ms[i]) \/ Remembered(ms[i].text, stored)
    OBVIOUS
  <2>1. i \in 1 .. w  OBVIOUS
  <2>2. \/ IsScaffold(ms[i])
        \/ ms[i].text = System
        \/ \E j \in DOMAIN stored : stored[j].text = ms[i].text
    BY <1>1, <1>4, <2>1, WindowIsStored
  <2> QED  BY <2>2 DEF Remembered, Recalls
<1>11. \A i \in Mask(ms, stored) \cup ScaffoldMask(ms, c, stored) :
          Remembered(ms[i].text, stored)
  <2>1. \A i \in Mask(ms, stored) : \E j \in DOMAIN stored : Recalls(stored[j], ms[i].text)
    BY MaskIsStored
  <2>2. c \in 0 .. Len(ms)  BY <1>0
  <2>3. \A i \in ScaffoldMask(ms, c, stored) :
           \E j \in DOMAIN stored : Recalls(stored[j], ms[i].text)
    BY <2>2, ScaffoldMaskIsStored
  <2> QED  BY <2>1, <2>3 DEF Remembered
<1>12. v.cursor \in 0 .. n /\ v.deferred \in BOOLEAN
  <2>1. v.cursor \in 0 .. n  BY <1>8
  <2>2. v.deferred = TRUE \/ v.deferred = FALSE  BY <1>8
  <2> QED  BY <2>1, <2>2
<1>13. \A i \in 1 .. n : i <= v.cursor \/ i \in v.out
                           => IsScaffold(ms[i]) \/ Remembered(ms[i].text, stored)
  <2> SUFFICES ASSUME NEW i \in 1 .. n, i <= v.cursor \/ i \in v.out
               PROVE  IsScaffold(ms[i]) \/ Remembered(ms[i].text, stored)
    OBVIOUS
  <2>1. \/ i <= 0 \/ i <= c \/ (stored # <<>> /\ i <= w)
        \/ i \in Mask(ms, stored) \cup ScaffoldMask(ms, c, stored)
    BY <1>6, <1>8
  <2>2. ~(i <= 0)  OBVIOUS
  <2> QED  BY <1>9, <1>10, <1>11, <2>1, <2>2
<1>14. ASSUME stored # <<>>, HeadOnly(ms), NEW i \in 1 .. n, IsScaffold(ms[i])
       PROVE  i <= v.cursor
  <2>1. \A k \in 1 .. i : IsScaffold(ms[k])  BY <1>0, <1>14 DEF HeadOnly
  <2>2. i \in 0 .. Len(ms)  BY <1>0
  <2>3. ProvesReplay(ms, i, tail)  BY <2>1, <2>2, ScaffoldIsReplay
  <2>4. i <= c  BY <1>3, <2>3
  <2>5. ms # <<>>  BY <1>0
  <2> QED  BY <1>8, <1>14, <2>4, <2>5
<1> QED  BY <1>0, <1>12, <1>13, <1>14

(* So does the cursor that never had to reconcile. *)
LEMMA ContinueIsSound ==
    ASSUME IngestAssumption, NEW ms \in Seq(Message), NEW stored \in Seq(StoredRow),
           NEW c \in Nat, NEW v, v = Continue(ms, c, stored)
    PROVE  /\ v.cursor \in 0 .. Len(ms) /\ v.cursor <= c /\ v.deferred \in BOOLEAN
           /\ c <= Len(ms) => v.cursor = c
           /\ \A i \in v.out : Remembered(ms[i].text, stored)
           /\ stored = <<>> => v.out = {}
<1>0. PICK n \in Nat : n = Len(ms)  OBVIOUS
<1>1. PICK g \in BOOLEAN : g = (c = 0 /\ Len(ms) >= 3 /\ stored # <<>> /\ IsReplay(ms, stored))
  OBVIOUS
<1>2. v = IF g THEN Verdict(0, Mask(ms, stored), TRUE)
          ELSE Verdict(Min({c, Len(ms)}), {}, FALSE)
  BY <1>1 DEF Continue
<1>4. \A i \in Mask(ms, stored) : Remembered(ms[i].text, stored)
  BY MaskIsStored DEF Remembered
<1>5. PICK m : m = Min({c, n})  OBVIOUS
<1>6. m \in {c, n} /\ m <= c /\ m <= n
  <2>1. {c, n} \in SUBSET Nat /\ {c, n} # {}  OBVIOUS
  <2>2. Min({c, n}) \in {c, n} /\ \A y \in {c, n} : Min({c, n}) <= y  BY <2>1, MinIsLeast
  <2> QED  BY <1>5, <2>2
<1>7. CASE g
  <2>1. v.cursor = 0 /\ v.out = Mask(ms, stored) /\ v.deferred = TRUE  BY <1>2, <1>7 DEF Verdict
  <2>2. v.deferred \in BOOLEAN  BY <2>1
  <2>3. stored # <<>> /\ c = 0  BY <1>1, <1>7
  <2> QED  BY <1>0, <1>4, <2>1, <2>2, <2>3
<1>8. CASE ~g
  <2>1. v.cursor = m /\ v.out = {} /\ v.deferred = FALSE  BY <1>0, <1>2, <1>5, <1>8 DEF Verdict
  <2>2. v.deferred \in BOOLEAN  BY <2>1
  <2> QED  BY <1>0, <1>6, <2>1, <2>2
<1> QED  BY <1>7, <1>8

-----------------------------------------------------------------------------
(***************************************************************************)
(* What one append stores                                                  *)
(***************************************************************************)
TurnMessage == {m \in Message : ~IsScaffold(m)}

(* The row that is made of a turn. *)
LEMMA RowOfTurn ==
    ASSUME IngestAssumption, now \in Nat, NEW m \in TurnMessage
    PROVE  /\ RowOf(m) \in StoredRow
           /\ RowOf(m).text = m.text /\ RowOf(m).turn = m.turn /\ RowOf(m).call = CallOf(m)
           /\ RowOf(m).time = IF m.at = NoTime THEN now ELSE m.at
<1>1. /\ m.text \in Texts /\ m.turn \in Nat /\ m.at \in Nat
  BY DEF TurnMessage, Message, IsScaffold
<1>2. CallOf(m) \in Tools \cup {NoCall}  BY DEF CallOf
<1>3. m.text # Cleared  BY <1>1 DEF IngestAssumption
<1> PICK c \in Tools \cup {NoCall}, t \in Nat :
         c = CallOf(m) /\ t = IF m.at = NoTime THEN now ELSE m.at
  BY <1>1, <1>2
<1>4. RowOf(m) = [text |-> m.text, call |-> c, turn |-> m.turn, time |-> t]
  BY DEF RowOf
<1>5. RowOf(m) \in RowFields  BY <1>1, <1>4 DEF RowFields
<1>6. RowOf(m) \in StoredRow  BY <1>3, <1>4, <1>5 DEF StoredRow
<1> QED  BY <1>4, <1>6

Appending(f, ms, guard) ==
    /\ f[0] = rows
    /\ \A i \in 1 .. Len(ms) :
          f[i] = IF guard /\ IsDuplicateReplay(ms[i], f[i - 1]) THEN f[i - 1]
                 ELSE Append(f[i - 1], RowOf(ms[i]))

(* One transaction appends the messages one after the other. *)
LEMMA AppendedStepwise ==
    ASSUME IngestAssumption, rows \in Seq(StoredRow), now \in Nat,
           NEW ms \in Seq(TurnMessage), NEW guard \in BOOLEAN
    PROVE  \E f \in [0 .. Len(ms) -> Seq(StoredRow)] :
              Appending(f, ms, guard) /\ Appended(ms, guard) = f[Len(ms)]
<1>0. PICK n \in Nat : n = Len(ms)  OBVIOUS
<1> DEFINE Step(i, before) == IF guard /\ IsDuplicateReplay(ms[i], before) THEN before
                              ELSE Append(before, RowOf(ms[i]))
           Upto(f, k) == /\ f \in [0 .. k -> Seq(StoredRow)]
                         /\ f[0] = rows
                         /\ \A i \in 1 .. k : f[i] = Step(i, f[i - 1])
           T == {k \in 0 .. n : ~ \E f : Upto(f, k)}
<1>1. \A i \in 1 .. n : \A before \in Seq(StoredRow) : Step(i, before) \in Seq(StoredRow)
  <2> TAKE i \in 1 .. n
  <2> TAKE before \in Seq(StoredRow)
  <2>1. ms[i] \in TurnMessage  BY <1>0
  <2>2. RowOf(ms[i]) \in StoredRow  BY <2>1, RowOfTurn
  <2> QED  BY <2>2
<1> HIDE DEF Step
<1>2. T = {}
  <2> SUFFICES ASSUME T # {} PROVE FALSE  OBVIOUS
  <2>1. T \in SUBSET Nat  OBVIOUS
  <2>2. PICK k \in T : \A m \in T : k <= m  BY <2>1, LeastNatural
  <2>3. k \in 0 .. n /\ ~ \E f : Upto(f, k)  BY <2>2
  <2>4. CASE k = 0
    <3>1. Upto([i \in 0 .. 0 |-> rows], 0)  OBVIOUS
    <3> QED  BY <2>3, <2>4, <3>1
  <2>5. CASE k # 0
    <3>1. k - 1 \in 0 .. n /\ ~(k <= k - 1)  BY <2>3, <2>5
    <3>2. k - 1 \notin T
      <4> HIDE DEF T
      <4> QED  BY <2>2, <3>1
    <3>3. PICK f : Upto(f, k - 1)
      <4> HIDE DEF Upto
      <4> QED  BY <3>1, <3>2
    <3> DEFINE g == [i \in 0 .. k |-> IF i = k THEN Step(k, f[k - 1]) ELSE f[i]]
    <3>4. k \in 1 .. n /\ \A i \in 0 .. k : i # k => i \in 0 .. k - 1  BY <2>3, <2>5
    <3>5. f[k - 1] \in Seq(StoredRow)  BY <3>3, <3>4
    <3>6. Step(k, f[k - 1]) \in Seq(StoredRow)  BY <1>1, <3>4, <3>5
    <3>7. g \in [0 .. k -> Seq(StoredRow)]  BY <3>3, <3>4, <3>6
    <3>8. g[0] = rows  BY <3>3, <3>4
    <3>9. \A i \in 1 .. k : g[i] = Step(i, g[i - 1])
      <4> TAKE i \in 1 .. k
      <4>1. i - 1 \in 0 .. k - 1 /\ i - 1 # k  BY <3>4
      <4>2. g[i - 1] = f[i - 1]  BY <3>4, <4>1
      <4>3. CASE i = k  BY <4>2, <4>3
      <4>4. CASE i # k
        <5>1. i \in 1 .. k - 1  BY <3>4, <4>4
        <5> QED  BY <3>3, <4>2, <4>4, <5>1
      <4> QED  BY <4>3, <4>4
    <3> HIDE DEF g
    <3>10. Upto(g, k)  BY <3>7, <3>8, <3>9
    <3> QED  BY <2>3, <3>10
  <2> QED  BY <2>4, <2>5
<1>3. PICK f : Upto(f, n)
  <2>1. n \in 0 .. n  OBVIOUS
  <2>2. n \notin T
    <3> HIDE DEF T
    <3> QED  BY <1>2
  <2> HIDE DEF Upto
  <2> QED  BY <2>1, <2>2
<1> DEFINE Is(h) == h = [i \in 0 .. Len(ms) |-> IF i = 0 THEN rows ELSE Step(i, h[i - 1])]
           after == CHOOSE h : Is(h)
<1>4. Is(f)
  <2>1. f = [i \in 0 .. n |-> f[i]]  BY <1>3
  <2>2. \A i \in 0 .. n : f[i] = IF i = 0 THEN rows ELSE Step(i, f[i - 1])
    <3> TAKE i \in 0 .. n
    <3>1. i = 0 \/ i \in 1 .. n  OBVIOUS
    <3> QED  BY <1>3, <3>1
  <2> HIDE DEF Upto
  <2>3. [i \in 0 .. n |-> f[i]] = [i \in 0 .. n |-> IF i = 0 THEN rows ELSE Step(i, f[i - 1])]
    BY <2>2
  <2> QED  BY <1>0, <2>1, <2>3
<1>5. Is(after)  BY <1>4
<1>6. Appended(ms, guard) = after[Len(ms)]
  BY DEF Appended, Step
<1> HIDE DEF after
<1>7. after = [i \in 0 .. n |-> after[i]]
  <2>1. after = [i \in 0 .. n |-> IF i = 0 THEN rows ELSE Step(i, after[i - 1])]
    BY <1>0, <1>5
  <2> QED  BY <2>1
<1>8. \A i \in 0 .. n : after[i] = IF i = 0 THEN rows ELSE Step(i, after[i - 1])
  BY <1>0, <1>5
<1>9. after = f
  <2> DEFINE D == {i \in 0 .. n : after[i] # f[i]}
  <2>1. D = {}
    <3> SUFFICES ASSUME D # {} PROVE FALSE  OBVIOUS
    <3>1. D \in SUBSET Nat  OBVIOUS
    <3>2. PICK i \in D : \A m \in D : i <= m  BY <3>1, LeastNatural
    <3>3. i \in 0 .. n /\ after[i] # f[i]  BY <3>2
    <3>4. i # 0  BY <1>3, <1>8, <3>3
    <3>5. i - 1 \in 0 .. n /\ i - 1 \notin D  BY <3>2, <3>3, <3>4
    <3>6. after[i - 1] = f[i - 1]  BY <3>5
    <3>7. i \in 1 .. n  BY <3>3, <3>4
    <3>8. f[i] = Step(i, f[i - 1])  BY <1>3, <3>7
    <3>9. after[i] = Step(i, after[i - 1])  BY <1>8, <3>3, <3>4
    <3> QED  BY <3>3, <3>6, <3>8, <3>9
  <2>2. \A i \in 0 .. n : after[i] = f[i]  BY <2>1
  <2>3. f = [i \in 0 .. n |-> f[i]]  BY <1>3
  <2> QED  BY <1>7, <2>2, <2>3
<1>10. Appending(f, ms, guard)  BY <1>0, <1>3 DEF Appending, Step
<1> QED  BY <1>0, <1>3, <1>6, <1>9, <1>10

(* Nothing stored is lost, nothing comes from elsewhere, and every message  *)
(* has a row that says the same.                                            *)
(* Nothing stored is lost, nothing comes from elsewhere, and every message  *)
(* has a row that says the same.                                            *)
StoresBatch(a, ms) ==
    /\ a \in Seq(StoredRow) /\ Len(rows) <= Len(a)
    /\ \A r \in DOMAIN rows : a[r] = rows[r]
    /\ \A r \in DOMAIN a : \/ r \in DOMAIN rows
                           \/ \E i \in DOMAIN ms : a[r] = RowOf(ms[i])
    /\ \A i \in DOMAIN ms : \E r \in DOMAIN a : a[r].text = ms[i].text

(* One append stores its batch. *)
LEMMA AppendedKeeps ==
    ASSUME IngestAssumption, rows \in Seq(StoredRow), now \in Nat,
           NEW ms \in Seq(TurnMessage), NEW guard \in BOOLEAN
    PROVE  StoresBatch(Appended(ms, guard), ms)
<1> PICK a : a = Appended(ms, guard)  OBVIOUS
<1>0. PICK n \in Nat : n = Len(ms)  OBVIOUS
<1>1. PICK l \in Nat : l = Len(rows)  OBVIOUS
<1>2. PICK f \in [0 .. n -> Seq(StoredRow)] : Appending(f, ms, guard) /\ a = f[n]
  BY <1>0, AppendedStepwise
<1> DEFINE Holds(s, k) == /\ l <= Len(s)
                          /\ \A r \in 1 .. l : s[r] = rows[r]
                          /\ \A r \in DOMAIN s : \/ r \in 1 .. l
                                                 \/ \E i \in 1 .. n : s[r] = RowOf(ms[i])
                          /\ \A i \in 1 .. k : \E r \in DOMAIN s : s[r].text = ms[i].text
           T == {k \in 0 .. n : ~Holds(f[k], k)}
<1>3. ASSUME NEW k \in 1 .. n, NEW s \in Seq(StoredRow), Holds(s, k - 1),
             NEW t, t = IF guard /\ IsDuplicateReplay(ms[k], s) THEN s ELSE Append(s, RowOf(ms[k]))
      PROVE  Holds(t, k)
  <2>1. ms[k] \in TurnMessage  BY <1>0
  <2>2. PICK row \in StoredRow : row = RowOf(ms[k]) /\ row.text = ms[k].text
    BY <2>1, RowOfTurn
  <2>3. CASE guard /\ IsDuplicateReplay(ms[k], s)
    <3>1. t = s  BY <1>3, <2>3
    <3>2. \E r \in DOMAIN s : s[r].text = ms[k].text  BY <2>3 DEF IsDuplicateReplay
    <3>3. \A i \in 1 .. k : \E r \in DOMAIN s : s[r].text = ms[i].text
      <4> TAKE i \in 1 .. k
      <4>1. i = k \/ i \in 1 .. k - 1  OBVIOUS
      <4> QED  BY <1>3, <3>2, <4>1
    <3> QED  BY <1>3, <3>1, <3>3
  <2>4. CASE ~(guard /\ IsDuplicateReplay(ms[k], s))
    <3>1. t = Append(s, row)  BY <1>3, <2>2, <2>4
    <3>2. PICK z \in Nat : z = Len(s)  OBVIOUS
    <3>3. /\ t \in Seq(StoredRow) /\ Len(t) = z + 1 /\ t[z + 1] = row
          /\ \A r \in 1 .. z : t[r] = s[r]
      BY <3>1, <3>2, AppendProperties
    <3>4. DOMAIN t = 1 .. z + 1 /\ DOMAIN s = 1 .. z  BY <3>2, <3>3
    <3>5. l <= z  BY <1>3, <3>2
    <3>6. l <= Len(t) /\ \A r \in 1 .. l : t[r] = rows[r]
      <4>1. \A r \in 1 .. l : r \in 1 .. z /\ s[r] = rows[r]  BY <1>3, <3>5
      <4> QED  BY <3>3, <3>5, <4>1
    <3>7. \A r \in DOMAIN t : \/ r \in 1 .. l
                              \/ \E i \in 1 .. n : t[r] = RowOf(ms[i])
      <4> TAKE r \in DOMAIN t
      <4>1. CASE r = z + 1  BY <2>2, <3>3, <4>1
      <4>2. CASE r \in 1 .. z  BY <1>3, <3>3, <3>4, <4>2
      <4> QED  BY <3>4, <4>1, <4>2
    <3>8. \A i \in 1 .. k : \E r \in DOMAIN t : t[r].text = ms[i].text
      <4> TAKE i \in 1 .. k
      <4>1. CASE i = k
        <5>1. z + 1 \in DOMAIN t  BY <3>4
        <5>2. t[z + 1].text = ms[i].text  BY <2>2, <3>3, <4>1
        <5> QED  BY <5>1, <5>2
      <4>2. CASE i # k
        <5>0. i \in 1 .. k - 1  BY <4>2
        <5>1. PICK r \in 1 .. z : s[r].text = ms[i].text  BY <1>3, <3>4, <5>0
        <5>2. t[r] = s[r] /\ r \in DOMAIN t  BY <3>3, <3>4, <5>1
        <5> QED  BY <5>1, <5>2
      <4> QED  BY <4>1, <4>2
    <3> QED  BY <3>6, <3>7, <3>8
  <2> QED  BY <2>3, <2>4
<1>4. Holds(f[0], 0)
  <2>1. f[0] = rows  BY <1>2 DEF Appending
  <2> QED  BY <1>1, <2>1
<1> HIDE DEF Holds
<1>5. T = {}
  <2> SUFFICES ASSUME T # {} PROVE FALSE  OBVIOUS
  <2>1. T \in SUBSET Nat  OBVIOUS
  <2>2. PICK k \in T : \A m \in T : k <= m  BY <2>1, LeastNatural
  <2>3. k \in 0 .. n /\ ~Holds(f[k], k)  BY <2>2
  <2>4. k \in 1 .. n  BY <1>4, <2>3
  <2>5. k - 1 \in 0 .. n /\ ~(k <= k - 1)  BY <2>4
  <2>6. k - 1 \notin T
    <3> HIDE DEF T
    <3> QED  BY <2>2, <2>5
  <2>7. Holds(f[k - 1], k - 1) /\ f[k - 1] \in Seq(StoredRow)  BY <2>5, <2>6
  <2>8. f[k] = IF guard /\ IsDuplicateReplay(ms[k], f[k - 1]) THEN f[k - 1]
               ELSE Append(f[k - 1], RowOf(ms[k]))
    BY <1>0, <1>2, <2>4 DEF Appending
  <2> QED  BY <1>3, <2>3, <2>4, <2>7, <2>8
<1>6. n \notin T
  <2> HIDE DEF T
  <2> QED  BY <1>5
<1>7. Holds(a, n)  BY <1>2, <1>6
<1>8. a \in Seq(StoredRow)  BY <1>2
<1>9. DOMAIN ms = 1 .. n /\ DOMAIN rows = 1 .. l  BY <1>0, <1>1
<1>10. /\ l <= Len(a)
       /\ \A r \in 1 .. l : a[r] = rows[r]
       /\ \A r \in DOMAIN a : r \in 1 .. l \/ \E i \in 1 .. n : a[r] = RowOf(ms[i])
       /\ \A i \in 1 .. n : \E r \in DOMAIN a : a[r].text = ms[i].text
  BY <1>7 DEF Holds
<1>11. StoresBatch(a, ms)  BY <1>1, <1>8, <1>9, <1>10 DEF StoresBatch
<1> QED  BY <1>11

-----------------------------------------------------------------------------
(***************************************************************************)
(* Ingest: the invariant                                                   *)
(***************************************************************************)
SpokenTurn == [text : Texts, at : Nat]
Batch == [busy : BOOLEAN, batch : Seq(TurnMessage), guard : BOOLEAN]

IngestTypes ==
    /\ said \in Seq(SpokenTurn)
    /\ now \in Nat
    /\ rows \in Seq(StoredRow)
    /\ list \in [Workers -> Seq(Message)]
    /\ cursor \in [Workers -> Nat]
    /\ needs \in [Workers -> BOOLEAN]
    /\ pending \in [Workers -> Batch]
    /\ handed \in SUBSET DOMAIN said
    /\ stamped \in BOOLEAN

(* What the store has of what was said. *)
InStore(t) == \E r \in DOMAIN rows : said[rows[r].turn].text = t

MadeOfTurn(r) ==
    /\ r.turn \in DOMAIN said
    /\ r.call = CallOf(said[r.turn])
    /\ r.text = said[r.turn].text \/ r.text = Cleared

OpensWithSystem == \A i \in DOMAIN said : said[i].text = System => i = 1

StoreInv ==
    /\ \A r \in DOMAIN rows : MadeOfTurn(rows[r])
    /\ OpensWithSystem
    /\ rows = <<>> => handed = {}
    /\ rows # <<>> => said # <<>> /\ InStore(said[1].text)

(* The list, the cursor and the batch of one worker. *)
Genuine(m) ==
    IF IsScaffold(m) THEN m.turn = 0
    ELSE m.turn \in DOMAIN said /\ m.text = said[m.turn].text

InBatch(b, t) == \E i \in DOMAIN b : b[i].text = t

ListOK(l) == HeadOnly(l) /\ \A i \in DOMAIN l : Genuine(l[i])

(* As long as nothing is stored, whatever comes next begins at the first turn. *)
FromTheFirst(l, c, n, p) ==
    rows = <<>> => /\ c = 0 /\ ~n
                   /\ \A i \in DOMAIN l : ~IsScaffold(l[i])
                   /\ l # <<>> => l[1].turn = 1
                   /\ p.busy => said # <<>> /\ InBatch(p.batch, said[1].text)

(* Behind the cursor everything is stored. *)
CursorOK(l, c) ==
    /\ l # <<>> => c <= Len(l)
    /\ \A i \in DOMAIN l : IF i <= c THEN IsScaffold(l[i]) \/ InStore(l[i].text)
                                     ELSE ~IsScaffold(l[i])

(* What a decision left out of its batch is stored. *)
BatchOK(l, n, b) ==
    /\ ~n /\ l # <<>>
    /\ \A i \in DOMAIN l : IsScaffold(l[i]) \/ InStore(l[i].text) \/ InBatch(b, l[i].text)

WorkerInv(l, c, n, p) ==
    /\ ListOK(l)
    /\ \A i \in DOMAIN p.batch : Genuine(p.batch[i])
    /\ FromTheFirst(l, c, n, p)
    /\ ~n /\ ~p.busy => CursorOK(l, c)
    /\ p.busy => BatchOK(l, n, p.batch)

IngestInv == /\ IngestTypes /\ StoreInv /\ HandedIsKept
             /\ \A w \in Workers : WorkerInv(list[w], cursor[w], needs[w], pending[w])

(* The invariant holds before anything was said. *)
LEMMA IngestInitial == IngestAssumption /\ IngestInit => IngestInv
<1> SUFFICES ASSUME IngestAssumption, IngestInit PROVE IngestInv
  OBVIOUS
<1>1. Idle \in Batch /\ Idle.busy = FALSE /\ Idle.batch = <<>>
  <2>1. <<>> \in Seq(TurnMessage)  OBVIOUS
  <2> QED  BY <2>1 DEF Idle, Batch
<1>2. IngestTypes  BY <1>1 DEF IngestInit, IngestTypes, IngestAssumption
<1>3. StoreInv /\ HandedIsKept
  BY DEF IngestInit, StoreInv, OpensWithSystem, HandedIsKept
<1>4. WorkerInv(<<>>, 0, FALSE, Idle)
  <2>1. ListOK(<<>>) /\ CursorOK(<<>>, 0)  BY DEF ListOK, HeadOnly, CursorOK
  <2>2. FromTheFirst(<<>>, 0, FALSE, Idle)  BY <1>1 DEF FromTheFirst
  <2>3. \A i \in DOMAIN Idle.batch : Genuine(Idle.batch[i])  BY <1>1
  <2>4. ~Idle.busy  BY <1>1
  <2> QED  BY <2>1, <2>2, <2>3, <2>4 DEF WorkerInv
<1>5. ASSUME NEW w \in Workers PROVE WorkerInv(list[w], cursor[w], needs[w], pending[w])
  <2>1. list[w] = <<>> /\ cursor[w] = 0 /\ needs[w] = FALSE /\ pending[w] = Idle
    BY DEF IngestInit
  <2> QED  BY <1>4, <2>1
<1> QED  BY <1>2, <1>3, <1>5 DEF IngestInv

(* Turns do not read like scaffolding or a cleared row. *)
LEMMA TurnTexts == ASSUME IngestAssumption, NEW t \in Texts
                   PROVE  t \notin Scaffold /\ t # Cleared
BY DEF IngestAssumption, Scaffold

(* What the invariant says of one worker. *)
LEMMA WorkerTypes ==
    ASSUME IngestInv, NEW w \in Workers
    PROVE  /\ list[w] \in Seq(Message) /\ cursor[w] \in Nat /\ needs[w] \in BOOLEAN
           /\ pending[w] \in Batch
           /\ WorkerInv(list[w], cursor[w], needs[w], pending[w])
BY DEF IngestInv, IngestTypes

(* What holds of a worker goes on to hold while the store only grows. *)
StoreGrows ==
    /\ \A m : Genuine(m) => Genuine(m)'
    /\ \A t : InStore(t) => InStore(t)'
    /\ rows' = <<>> => rows = <<>>
    /\ said # <<>> => said' # <<>> /\ said'[1] = said[1]

(* The invariant of a worker outlasts the growth of the store. *)
LEMMA WorkerRests ==
    ASSUME StoreGrows, NEW l, NEW c, NEW n, NEW p, WorkerInv(l, c, n, p)
    PROVE  WorkerInv(l, c, n, p)'
<1>1. ListOK(l)'  BY DEF WorkerInv, ListOK, StoreGrows
<1>2. (\A i \in DOMAIN p.batch : Genuine(p.batch[i]))'  BY DEF WorkerInv, StoreGrows
<1>3. FromTheFirst(l, c, n, p)'
  <2> SUFFICES ASSUME rows' = <<>>
               PROVE  /\ c = 0 /\ ~n
                      /\ \A i \in DOMAIN l : ~IsScaffold(l[i])
                      /\ l # <<>> => l[1].turn = 1
                      /\ p.busy => said' # <<>> /\ InBatch(p.batch, said'[1].text)
    BY DEF FromTheFirst
  <2>1. rows = <<>>  BY DEF StoreGrows
  <2> QED  BY <2>1 DEF WorkerInv, FromTheFirst, StoreGrows
<1>4. CursorOK(l, c) => CursorOK(l, c)'  BY DEF CursorOK, StoreGrows
<1>5. BatchOK(l, n, p.batch) => BatchOK(l, n, p.batch)'  BY DEF BatchOK, StoreGrows
<1> QED  BY <1>1, <1>2, <1>3, <1>4, <1>5 DEF WorkerInv

(* The invariant of a worker whose state does not change. *)
LEMMA WorkersRest ==
    ASSUME StoreGrows, IngestInv, NEW w \in Workers,
           list'[w] = list[w], cursor'[w] = cursor[w], needs'[w] = needs[w],
           pending'[w] = pending[w]
    PROVE  WorkerInv(list[w], cursor[w], needs[w], pending[w])'
<1>1. PICK l, c, n, p : l = list[w] /\ c = cursor[w] /\ n = needs[w] /\ p = pending[w]
  OBVIOUS
<1>2. WorkerInv(l, c, n, p)'  BY <1>1, WorkerTypes, WorkerRests
<1>3. list'[w] = l /\ cursor'[w] = c /\ needs'[w] = n /\ pending'[w] = p  BY <1>1
<1> QED  BY <1>2, <1>3

(* The store side of a step that stores nothing and says nothing. *)
LEMMA StoreRests ==
    ASSUME IngestInv, UNCHANGED <<said, rows, handed>>
    PROVE  StoreGrows /\ StoreInv' /\ HandedIsKept'
<1>1. StoreGrows  BY DEF StoreGrows, Genuine, InStore
<1>2. StoreInv'
  BY DEF IngestInv, StoreInv, MadeOfTurn, OpensWithSystem, InStore
<1>3. HandedIsKept'  BY DEF IngestInv, HandedIsKept
<1> QED  BY <1>1, <1>2, <1>3

(* Time passes. *)
LEMMA TickKeeps == ASSUME IngestInv, Tick PROVE IngestInv'
<1>1. /\ UNCHANGED <<said, rows, list, cursor, needs, pending, handed, stamped>>
      /\ now' = now + 1
  BY DEF Tick
<1>2. StoreGrows /\ StoreInv' /\ HandedIsKept'  BY <1>1, StoreRests
<1>3. IngestTypes'  BY <1>1 DEF IngestInv, IngestTypes
<1>4. ASSUME NEW w \in Workers PROVE WorkerInv(list[w], cursor[w], needs[w], pending[w])'
  BY <1>1, <1>2, WorkersRest
<1> QED  BY <1>2, <1>3, <1>4 DEF IngestInv

-----------------------------------------------------------------------------
(***************************************************************************)
(* New turns and rewritten rows                                            *)
(***************************************************************************)
(* A turn that is appended to a list. *)
LEMMA SpeakKeeps ==
    ASSUME IngestAssumption, IngestInv, NEW w \in Workers, NEW t \in Texts, Speak(w, t)
    PROVE  IngestInv'
<1>1. PICK n \in Nat : n = Len(said)  BY DEF IngestInv, IngestTypes
<1>2. PICK turn \in SpokenTurn : turn = [text |-> t, at |-> now]
  BY DEF IngestInv, IngestTypes, SpokenTurn
<1>3. PICK m : m = [text |-> t, turn |-> n + 1, at |-> NoTime]  OBVIOUS
<1>4. m \in Message /\ ~IsScaffold(m) /\ m.text = t /\ m.turn = n + 1 /\ turn.text = t
  <2>1. m.text = t /\ m.turn = n + 1 /\ turn.text = t  BY <1>2, <1>3
  <2>2. m \in Message  BY <1>1, <1>3 DEF Message, NoTime
  <2> QED  BY <2>1, <2>2, TurnTexts DEF IsScaffold
<1>5. PICK old \in Seq(Message), l \in Nat : old = list[w] /\ l = Len(old)
  BY WorkerTypes
<1>6. PICK new : new = Append(old, m)  OBVIOUS
<1>7. /\ said' = Append(said, turn) /\ list' = [list EXCEPT ![w] = new]
      /\ ~pending[w].busy /\ (list[w] # <<>> \/ said = <<>>)
      /\ (t = System) => said = <<>>
      /\ UNCHANGED <<now, rows, cursor, needs, pending, handed, stamped>>
  BY <1>1, <1>2, <1>3, <1>5, <1>6 DEF Speak
<1>8. /\ said' \in Seq(SpokenTurn) /\ DOMAIN said = 1 .. n /\ DOMAIN said' = 1 .. n + 1
      /\ said'[n + 1] = turn /\ \A i \in 1 .. n : said'[i] = said[i]
  BY <1>1, <1>7, AppendProperties DEF IngestInv, IngestTypes
<1>9. /\ new \in Seq(Message) /\ Len(new) = l + 1 /\ new # <<>>
      /\ DOMAIN old = 1 .. l /\ DOMAIN new = 1 .. l + 1
      /\ new[l + 1] = m /\ \A i \in 1 .. l : new[i] = old[i]
  BY <1>4, <1>5, <1>6, AppendProperties
<1>10. /\ list' \in [Workers -> Seq(Message)] /\ list'[w] = new
       /\ \A u \in Workers : u # w => list'[u] = list[u]
  BY <1>7, <1>9 DEF IngestInv, IngestTypes
<1>11. IngestTypes'  BY <1>7, <1>8, <1>10 DEF IngestInv, IngestTypes
<1>12. \A x : Genuine(x) => Genuine(x)'  BY <1>8 DEF Genuine
<1>13. \A r \in DOMAIN rows : rows[r].turn \in 1 .. n
  BY <1>8 DEF IngestInv, StoreInv, MadeOfTurn
<1>14. \A x : InStore(x) => InStore(x)'  BY <1>7, <1>8, <1>13 DEF InStore
<1>15. said # <<>> => n # 0 /\ said' # <<>> /\ said'[1] = said[1]
  <2>1. said # <<>> => n # 0  BY <1>1 DEF IngestInv, IngestTypes
  <2>2. said' # <<>>  BY <1>8
  <2> QED  BY <1>8, <2>1, <2>2
<1>16. StoreGrows  BY <1>7, <1>12, <1>14, <1>15 DEF StoreGrows
<1>17. said = <<>> => n = 0 /\ rows = <<>>  BY <1>1 DEF IngestInv, StoreInv
<1>18. StoreInv'
  <2>1. \A r \in DOMAIN rows : MadeOfTurn(rows[r])'
    <3> TAKE r \in DOMAIN rows
    <3>1. MadeOfTurn(rows[r])  BY DEF IngestInv, StoreInv
    <3>2. rows[r].turn \in 1 .. n /\ rows'[r] = rows[r]  BY <1>7, <1>13
    <3> QED  BY <1>8, <3>1, <3>2 DEF MadeOfTurn
  <2>2. OpensWithSystem'
    <3> SUFFICES ASSUME NEW i \in 1 .. n + 1, said'[i].text = System PROVE i = 1
      BY <1>8 DEF OpensWithSystem
    <3>1. CASE i = n + 1  BY <1>4, <1>7, <1>8, <1>17, <3>1
    <3>2. CASE i \in 1 .. n  BY <1>8, <3>2 DEF IngestInv, StoreInv, OpensWithSystem
    <3> QED  BY <3>1, <3>2
  <2>3. rows' # <<>> => (said # <<>> /\ InStore(said[1].text))'
    <3> SUFFICES ASSUME rows # <<>> PROVE said' # <<>> /\ InStore(said[1].text)'
      BY <1>7
    <3>1. PICK x : x = said[1].text  OBVIOUS
    <3>2. said # <<>> /\ InStore(x)  BY <3>1 DEF IngestInv, StoreInv
    <3>3. said'[1].text = x  BY <1>15, <3>1, <3>2
    <3>4. InStore(x)'  BY <1>14, <3>2
    <3> QED  BY <1>15, <3>2, <3>3, <3>4
  <2>4. rows' = <<>> => handed' = {}  BY <1>7 DEF IngestInv, StoreInv
  <2>5. \A r \in DOMAIN rows' : MadeOfTurn(rows[r])'  BY <1>7, <2>1
  <2> QED  BY <2>2, <2>3, <2>4, <2>5 DEF StoreInv
<1>19. HandedIsKept'
  <2> SUFFICES ASSUME NEW i \in handed
               PROVE  \E r \in DOMAIN rows : said'[rows[r].turn].text = said'[i].text
    BY <1>7 DEF HandedIsKept
  <2>1. i \in 1 .. n  BY <1>8 DEF IngestInv, IngestTypes
  <2>2. PICK r \in DOMAIN rows : said[rows[r].turn].text = said[i].text
    BY DEF IngestInv, HandedIsKept
  <2> QED  BY <1>8, <1>13, <2>1, <2>2
<1>20. WorkerInv(list[w], cursor[w], needs[w], pending[w])'
  <2>1. PICK c \in Nat, d \in BOOLEAN, p \in Batch :
             c = cursor[w] /\ d = needs[w] /\ p = pending[w]
    BY DEF IngestInv, IngestTypes
  <2>2. WorkerInv(old, c, d, p)  BY <1>5, <2>1 DEF IngestInv
  <2>3. ListOK(old)' /\ (\A i \in DOMAIN p.batch : Genuine(p.batch[i]))'
    BY <1>16, <2>2, WorkerRests DEF WorkerInv
  <2>4. Genuine(m)'  BY <1>4, <1>8 DEF Genuine
  <2>5. ListOK(new)'
    <3>1. HeadOnly(new)
      <4>1. HeadOnly(old)  BY <2>2 DEF WorkerInv, ListOK
      <4> SUFFICES ASSUME NEW i \in 1 .. l + 1, NEW j \in 1 .. l + 1,
                          i <= j, IsScaffold(new[j])
                   PROVE  IsScaffold(new[i])
        BY <1>9 DEF HeadOnly
      <4>2. j # l + 1  BY <1>4, <1>9
      <4>3. i \in 1 .. l /\ j \in 1 .. l  BY <4>2
      <4> QED  BY <1>9, <4>1, <4>3 DEF HeadOnly
    <3>2. \A i \in 1 .. l + 1 : Genuine(new[i])'
      <4> TAKE i \in 1 .. l + 1
      <4>1. CASE i = l + 1  BY <1>9, <2>4, <4>1
      <4>2. CASE i \in 1 .. l  BY <1>9, <2>3, <4>2 DEF ListOK
      <4> QED  BY <4>1, <4>2
    <3> QED  BY <1>9, <3>1, <3>2 DEF ListOK
  <2>6. FromTheFirst(new, c, d, p)'
    <3> SUFFICES ASSUME rows = <<>>
                 PROVE  /\ c = 0 /\ ~d
                        /\ \A i \in DOMAIN new : ~IsScaffold(new[i])
                        /\ new[1].turn = 1
                        /\ ~p.busy
      BY <1>7 DEF FromTheFirst
    <3>1. /\ c = 0 /\ ~d /\ \A i \in DOMAIN old : ~IsScaffold(old[i])
          /\ old # <<>> => old[1].turn = 1
      BY <2>2 DEF WorkerInv, FromTheFirst
    <3>2. \A i \in 1 .. l + 1 : ~IsScaffold(new[i])
      <4> TAKE i \in 1 .. l + 1
      <4>1. CASE i = l + 1  BY <1>4, <1>9, <4>1
      <4>2. CASE i \in 1 .. l  BY <1>9, <3>1, <4>2
      <4> QED  BY <4>1, <4>2
    <3>3. new[1].turn = 1
      <4>1. CASE l = 0
        <5>1. old = <<>>  BY <1>5, <4>1, EmptySeq
        <5>2. n = 0  BY <1>5, <1>7, <1>17, <5>1
        <5> QED  BY <1>4, <1>9, <4>1, <5>2
      <4>2. CASE l # 0
        <5>1. old # <<>> /\ 1 \in 1 .. l  BY <1>5, <4>2
        <5> QED  BY <1>9, <3>1, <5>1
      <4> QED  BY <4>1, <4>2
    <3> QED  BY <1>7, <1>9, <2>1, <3>1, <3>2, <3>3
  <2>7. ~d => CursorOK(new, c)'
    <3> SUFFICES ASSUME ~d PROVE CursorOK(new, c)'  OBVIOUS
    <3>1. CursorOK(old, c)  BY <1>7, <2>1, <2>2 DEF WorkerInv
    <3>2. c <= l
      <4>1. CASE old = <<>>
        <5>1. rows = <<>>  BY <1>5, <1>7, <1>17, <4>1
        <5> QED  BY <2>2, <5>1 DEF WorkerInv, FromTheFirst
      <4>2. CASE old # <<>>  BY <1>5, <3>1, <4>2 DEF CursorOK
      <4> QED  BY <4>1, <4>2
    <3>3. ASSUME NEW i \in 1 .. l + 1
          PROVE  IF i <= c THEN IsScaffold(new[i]) \/ InStore(new[i].text)'
                           ELSE ~IsScaffold(new[i])
      <4>1. CASE i = l + 1  BY <1>4, <1>9, <3>2, <4>1
      <4>2. CASE i \in 1 .. l
        <5>1. IF i <= c THEN IsScaffold(old[i]) \/ InStore(old[i].text) ELSE ~IsScaffold(old[i])
          BY <1>9, <3>1, <4>2 DEF CursorOK
        <5>2. new[i] = old[i]  BY <1>9, <4>2
        <5> QED  BY <1>14, <5>1, <5>2
      <4> QED  BY <4>1, <4>2
    <3> QED  BY <1>9, <3>2, <3>3 DEF CursorOK
  <2>8. WorkerInv(new, c, d, p)'
    <3>1. ~p.busy  BY <1>7, <2>1
    <3> QED  BY <2>3, <2>5, <2>6, <2>7, <3>1 DEF WorkerInv
  <2>9. list'[w] = new /\ cursor'[w] = c /\ needs'[w] = d /\ pending'[w] = p
    BY <1>7, <1>10, <2>1
  <2> QED  BY <2>8, <2>9
<1>21. ASSUME NEW u \in Workers, u # w
       PROVE  WorkerInv(list[u], cursor[u], needs[u], pending[u])'
  <2>1. /\ list'[u] = list[u] /\ cursor'[u] = cursor[u] /\ needs'[u] = needs[u]
        /\ pending'[u] = pending[u]
    BY <1>7, <1>10, <1>21
  <2> QED  BY <1>16, <2>1, WorkersRest
<1>22. \A u \in Workers : WorkerInv(list[u], cursor[u], needs[u], pending[u])'
  BY <1>20, <1>21
<1> QED  BY <1>11, <1>18, <1>19, <1>22 DEF IngestInv

(* A stored tool row that is rewritten still answers its call. *)
LEMMA RewriteKeeps ==
    ASSUME IngestAssumption, IngestInv, NEW i \in DOMAIN rows, Rewrite(i)
    PROVE  IngestInv'
<1>1. /\ rows' = [rows EXCEPT ![i].text = Cleared] /\ rows[i].text \in Tools
      /\ UNCHANGED <<said, now, list, cursor, needs, pending, handed, stamped>>
  BY DEF Rewrite
<1>2. PICK r : r = rows[i]  OBVIOUS
<1>3. PICK s : s = [r EXCEPT !.text = Cleared]  OBVIOUS
<1>4. r \in StoredRow /\ MadeOfTurn(r)
  BY <1>2 DEF IngestInv, IngestTypes, StoreInv
<1>5. r.call \in Tools
  <2>1. r.text \in Tools /\ r.text \in Texts  BY <1>1, <1>2 DEF Texts
  <2>2. r.text = said[r.turn].text  BY <1>4, <2>1, TurnTexts DEF MadeOfTurn
  <2> QED  BY <1>4, <2>1, <2>2 DEF MadeOfTurn, CallOf
<1>6. s \in RowFields /\ s.text = Cleared /\ s.call = r.call /\ s.turn = r.turn
  BY <1>3, <1>4 DEF StoredRow, RowFields
<1>7. s \in StoredRow  BY <1>5, <1>6 DEF StoredRow
<1>8. rows' = [rows EXCEPT ![i] = s]  BY <1>1, <1>2, <1>3
<1>9. /\ rows' \in Seq(StoredRow) /\ DOMAIN rows' = DOMAIN rows
      /\ \A j \in DOMAIN rows : rows'[j] = IF j = i THEN s ELSE rows[j]
  BY <1>7, <1>8 DEF IngestInv, IngestTypes
<1>10. \A j \in DOMAIN rows : rows'[j].turn = rows[j].turn
  BY <1>2, <1>6, <1>9
<1>11. rows # <<>> /\ rows' # <<>>  BY <1>9
<1>12. \A t : InStore(t) <=> InStore(t)'  BY <1>1, <1>9, <1>10 DEF InStore
<1>13. StoreGrows  BY <1>1, <1>11, <1>12 DEF StoreGrows, Genuine
<1>14. StoreInv'
  <2>1. MadeOfTurn(s)'  BY <1>1, <1>4, <1>6 DEF MadeOfTurn
  <2>2. ASSUME NEW j \in DOMAIN rows PROVE MadeOfTurn(rows[j])'
    <3>1. PICK q : q = rows'[j]  OBVIOUS
    <3>2. CASE j = i  BY <1>9, <2>1, <3>2
    <3>3. CASE j # i
      <4>1. rows'[j] = rows[j] /\ MadeOfTurn(rows[j])  BY <1>9, <3>3 DEF IngestInv, StoreInv
      <4> QED  BY <1>1, <4>1 DEF MadeOfTurn
    <3> QED  BY <3>2, <3>3
  <2>3. (said # <<>> /\ InStore(said[1].text))'
    <3>1. PICK x : x = said[1].text  OBVIOUS
    <3>2. said # <<>> /\ InStore(x)  BY <1>11, <3>1 DEF IngestInv, StoreInv
    <3>3. InStore(x)'  BY <1>12, <3>2
    <3> QED  BY <1>1, <3>1, <3>2, <3>3
  <2>4. OpensWithSystem'  BY <1>1 DEF IngestInv, StoreInv, OpensWithSystem
  <2> QED  BY <1>9, <1>11, <2>2, <2>3, <2>4 DEF StoreInv
<1>15. HandedIsKept'
  BY <1>1, <1>9, <1>10 DEF IngestInv, HandedIsKept
<1>16. IngestTypes'  BY <1>1, <1>9 DEF IngestInv, IngestTypes
<1>17. ASSUME NEW w \in Workers PROVE WorkerInv(list[w], cursor[w], needs[w], pending[w])'
  BY <1>1, <1>13, WorkersRest
<1> QED  BY <1>14, <1>15, <1>16, <1>17 DEF IngestInv

-----------------------------------------------------------------------------
(***************************************************************************)
(* Decisions                                                               *)
(***************************************************************************)
(* What a turn says is in the store when a row recalls it. *)
LEMMA RememberedIsStored ==
    ASSUME IngestAssumption, IngestInv, NEW m \in Message, ~IsScaffold(m), Genuine(m),
           Remembered(m.text, rows)
    PROVE  InStore(m.text)
<1>1. m.text \in Texts /\ m.turn \in DOMAIN said /\ m.text = said[m.turn].text
  BY DEF Message, IsScaffold, Genuine
<1>2. CASE m.text = System /\ rows # <<>>
  <2>1. m.turn = 1  BY <1>1, <1>2 DEF IngestInv, StoreInv, OpensWithSystem
  <2> QED  BY <1>1, <1>2, <2>1 DEF IngestInv, StoreInv
<1>3. CASE \E j \in DOMAIN rows : Recalls(rows[j], m.text)
  <2>1. PICK j \in DOMAIN rows : Recalls(rows[j], m.text)  BY <1>3
  <2>2. PICK r : r = rows[j]  OBVIOUS
  <2>3. MadeOfTurn(r)  BY <2>2 DEF IngestInv, StoreInv
  <2>4. said[r.turn] \in SpokenTurn  BY <2>3 DEF MadeOfTurn, IngestInv, IngestTypes
  <2>5. said[r.turn].text \in Texts  BY <2>4 DEF SpokenTurn
  <2>6. CASE r.text = m.text
    <3>1. r.text # Cleared  BY <1>1, <2>6, TurnTexts
    <3> QED  BY <2>2, <2>3, <2>6, <3>1 DEF MadeOfTurn, InStore
  <2>7. CASE r.text = Cleared /\ r.call = m.text /\ m.text \in Tools
    <3>1. CallOf(said[r.turn]) = m.text  BY <2>3, <2>7 DEF MadeOfTurn
    <3>2. said[r.turn].text = m.text  BY <2>7, <3>1 DEF CallOf, IngestAssumption
    <3> QED  BY <2>2, <3>2 DEF InStore
  <2> QED  BY <2>1, <2>2, <2>6, <2>7 DEF Recalls
<1> QED  BY <1>2, <1>3 DEF Remembered

(* A decision leaves out what is stored, and nothing of an empty store's list. *)
LEMMA DecideKeeps ==
    ASSUME IngestAssumption, IngestInv, NEW w \in Workers, Decide(w)
    PROVE  IngestInv'
<1>1. PICK ms \in Seq(Message), c \in Nat, d \in BOOLEAN, p \in Batch :
         /\ ms = list[w] /\ c = cursor[w] /\ d = needs[w] /\ p = pending[w]
         /\ WorkerInv(ms, c, d, p)
  BY WorkerTypes
<1>2. PICK stored \in Seq(StoredRow) : stored = rows  BY DEF IngestInv, IngestTypes
<1>3. PICK v : v = IF d THEN Reconcile(ms, stored) ELSE Continue(ms, c, stored)
  OBVIOUS
<1>4. PICK kept : kept = Kept(ms, v, d, stored)  OBVIOUS
<1>5. PICK guard : guard = (v.deferred \/ ~d)  OBVIOUS
<1>6. PICK q : q = [busy |-> TRUE, batch |-> Pick(ms, kept), guard |-> guard]  OBVIOUS
<1>7. /\ ~p.busy /\ ms # <<>>
      /\ pending' = [pending EXCEPT ![w] = q]
      /\ needs' = [needs EXCEPT ![w] = FALSE]
      /\ UNCHANGED <<said, now, rows, list, cursor, handed, stamped>>
  BY <1>1, <1>2, <1>3, <1>4, <1>5, <1>6 DEF Decide
<1>8. StoreGrows /\ StoreInv' /\ HandedIsKept'  BY <1>7, StoreRests
<1>9. PICK n \in Nat : n = Len(ms) /\ n # 0 /\ DOMAIN ms = 1 .. n
  BY <1>7, EmptySeq
<1>10. /\ v.cursor \in 0 .. n /\ v.deferred \in BOOLEAN
       /\ \A i \in 1 .. n : i <= v.cursor \/ i \in v.out
             => IsScaffold(ms[i]) \/ InStore(ms[i].text)
       /\ \A i \in 1 .. n : IsScaffold(ms[i]) => i <= v.cursor
       /\ stored = <<>> => v.cursor = 0 /\ v.out = {}
  <2>1. \A i \in 1 .. n : ms[i] \in Message /\ Genuine(ms[i])
    BY <1>1, <1>9 DEF WorkerInv, ListOK
  <2>2. \A i \in 1 .. n : Remembered(ms[i].text, stored)
           => IsScaffold(ms[i]) \/ InStore(ms[i].text)
    BY <1>2, <2>1, RememberedIsStored
  <2>3. CASE d
    <3>1. v = Reconcile(ms, stored)  BY <1>3, <2>3
    <3>2. /\ v.cursor \in 0 .. n /\ v.deferred \in BOOLEAN
          /\ \A i \in 1 .. n : i <= v.cursor \/ i \in v.out
                => IsScaffold(ms[i]) \/ Remembered(ms[i].text, stored)
          /\ stored # <<>> /\ HeadOnly(ms)
                => \A i \in 1 .. n : IsScaffold(ms[i]) => i <= v.cursor
      BY <1>9, <3>1, ReconcileIsSound
    <3>3. stored # <<>>  BY <1>1, <1>2, <2>3 DEF WorkerInv, FromTheFirst
    <3>4. HeadOnly(ms)  BY <1>1 DEF WorkerInv, ListOK
    <3> QED  BY <2>2, <3>2, <3>3, <3>4
  <2>4. CASE ~d
    <3>1. v = Continue(ms, c, stored)  BY <1>3, <2>4
    <3>2. /\ v.cursor \in 0 .. n /\ v.cursor <= c /\ v.deferred \in BOOLEAN
          /\ c <= n => v.cursor = c
          /\ \A i \in v.out : Remembered(ms[i].text, stored)
          /\ stored = <<>> => v.out = {}
      BY <1>9, <3>1, ContinueIsSound
    <3>3. CursorOK(ms, c)  BY <1>1, <1>7, <2>4 DEF WorkerInv
    <3>4. v.cursor = c  BY <1>7, <1>9, <3>2, <3>3 DEF CursorOK
    <3>5. stored = <<>> => c = 0  BY <1>1, <1>2 DEF WorkerInv, FromTheFirst
    <3>6. \A i \in 1 .. n : IF i <= c THEN IsScaffold(ms[i]) \/ InStore(ms[i].text)
                                      ELSE ~IsScaffold(ms[i])
      BY <1>9, <3>3 DEF CursorOK
    <3> QED  BY <2>2, <3>2, <3>4, <3>5, <3>6
  <2> QED  BY <2>3, <2>4
<1>11. kept \in SUBSET (1 .. n) /\ \A i \in kept : i > v.cursor
  BY <1>4, <1>9 DEF Kept
<1>12. \A i \in 1 .. n : i \in kept \/ i <= v.cursor \/ i \in v.out
  BY <1>4, <1>9, <1>10 DEF Kept
<1>13. PICK b : b = Pick(ms, kept)  OBVIOUS
<1>14. /\ b \in Seq(Message)
       /\ \A i \in kept : \E k \in DOMAIN b : b[k] = ms[i]
       /\ \A k \in DOMAIN b : \E i \in kept : b[k] = ms[i]
  <2>1. kept \in SUBSET DOMAIN ms  BY <1>9, <1>11
  <2> QED  BY <1>13, <2>1, PickProperties
<1>15. \A k \in DOMAIN b : b[k] \in TurnMessage /\ Genuine(b[k])
  <2> TAKE k \in DOMAIN b
  <2>1. PICK i \in kept : b[k] = ms[i]  BY <1>14
  <2>2. i \in 1 .. n /\ ~(i <= v.cursor)  BY <1>10, <1>11
  <2>3. ms[i] \in Message /\ Genuine(ms[i])  BY <1>1, <1>9, <2>2 DEF WorkerInv, ListOK
  <2>4. ~IsScaffold(ms[i])  BY <1>10, <2>2
  <2> QED  BY <2>1, <2>3, <2>4 DEF TurnMessage
<1>16. b \in Seq(TurnMessage)
  <2>1. PICK k \in Nat : k = Len(b) /\ DOMAIN b = 1 .. k  BY <1>14
  <2>2. b \in [1 .. k -> TurnMessage]  BY <1>14, <1>15, <2>1
  <2> QED  BY <2>1, <2>2
<1>17. q.busy = TRUE /\ q.batch = b /\ q \in Batch
  <2>1. guard \in BOOLEAN  BY <1>5
  <2> QED  BY <1>6, <1>13, <1>16, <2>1 DEF Batch
<1>18. IngestTypes'  BY <1>7, <1>17 DEF IngestInv, IngestTypes
<1>19. BatchOK(ms, FALSE, b)
  <2>1. ASSUME NEW i \in 1 .. n
        PROVE  IsScaffold(ms[i]) \/ InStore(ms[i].text) \/ InBatch(b, ms[i].text)
    <3>1. CASE i \in kept  BY <1>14, <3>1 DEF InBatch
    <3> QED  BY <1>10, <1>12, <3>1
  <2> QED  BY <1>7, <1>9, <2>1 DEF BatchOK
<1>20. FromTheFirst(ms, c, FALSE, q)
  <2> SUFFICES ASSUME rows = <<>>
               PROVE  /\ c = 0
                      /\ \A i \in DOMAIN ms : ~IsScaffold(ms[i])
                      /\ ms # <<>> => ms[1].turn = 1
                      /\ said # <<>> /\ InBatch(b, said[1].text)
    BY <1>17 DEF FromTheFirst
  <2>1. c = 0 /\ (\A i \in DOMAIN ms : ~IsScaffold(ms[i])) /\ ms[1].turn = 1
    BY <1>1, <1>7 DEF WorkerInv, FromTheFirst
  <2>2. 1 \in 1 .. n  BY <1>9
  <2>3. Genuine(ms[1]) /\ ~IsScaffold(ms[1])  BY <1>1, <1>9, <2>1, <2>2 DEF WorkerInv, ListOK
  <2>4. 1 \in DOMAIN said /\ ms[1].text = said[1].text  BY <2>1, <2>3 DEF Genuine
  <2>5. 1 \in kept  BY <1>2, <1>10, <1>12, <2>2
  <2>6. InBatch(b, said[1].text)  BY <1>14, <2>4, <2>5 DEF InBatch
  <2> QED  BY <2>1, <2>4, <2>6
<1>21. WorkerInv(ms, c, FALSE, q)
  <2>1. ListOK(ms)  BY <1>1 DEF WorkerInv
  <2> QED  BY <1>15, <1>17, <1>19, <1>20, <2>1 DEF WorkerInv
<1>22. WorkerInv(list[w], cursor[w], needs[w], pending[w])'
  <2>1. WorkerInv(ms, c, FALSE, q)'  BY <1>8, <1>21, WorkerRests
  <2>2. list'[w] = ms /\ cursor'[w] = c /\ needs'[w] = FALSE /\ pending'[w] = q
    BY <1>1, <1>7 DEF IngestInv, IngestTypes
  <2> QED  BY <2>1, <2>2
<1>23. ASSUME NEW u \in Workers, u # w
       PROVE  WorkerInv(list[u], cursor[u], needs[u], pending[u])'
  <2>1. /\ list'[u] = list[u] /\ cursor'[u] = cursor[u] /\ needs'[u] = needs[u]
        /\ pending'[u] = pending[u]
    BY <1>7, <1>23 DEF IngestInv, IngestTypes
  <2> QED  BY <1>8, <2>1, WorkersRest
<1>24. \A u \in Workers : WorkerInv(list[u], cursor[u], needs[u], pending[u])'
  BY <1>22, <1>23
<1> QED  BY <1>8, <1>18, <1>24 DEF IngestInv

-----------------------------------------------------------------------------
(***************************************************************************)
(* Appends and compactions                                                 *)
(***************************************************************************)
(* An append stores what the batch says. *)
LEMMA AppendBatchKeeps ==
    ASSUME IngestAssumption, IngestInv, NEW w \in Workers, AppendBatch(w)
    PROVE  IngestInv'
<1>1. PICK ms \in Seq(Message), c \in Nat, d \in BOOLEAN, p \in Batch :
         /\ ms = list[w] /\ c = cursor[w] /\ d = needs[w] /\ p = pending[w]
         /\ WorkerInv(ms, c, d, p)
  BY WorkerTypes
<1>2. PICK b \in Seq(TurnMessage), guard \in BOOLEAN : b = p.batch /\ guard = p.guard
  BY DEF Batch
<1>3. PICK n \in Nat : n = Len(ms) /\ DOMAIN ms = 1 .. n  OBVIOUS
<1>4. PICK turns : turns = {ms[i].turn : i \in DOMAIN ms} \ {0}  OBVIOUS
<1>5. /\ p.busy /\ rows' = Appended(b, guard)
      /\ cursor' = [cursor EXCEPT ![w] = n]
      /\ handed' = handed \cup turns
      /\ pending' = [pending EXCEPT ![w] = Idle]
      /\ UNCHANGED <<said, now, list, needs, stamped>>
  BY <1>1, <1>2, <1>3, <1>4 DEF AppendBatch
<1>6. PICK a : a = Appended(b, guard)  OBVIOUS
<1>7. /\ a \in Seq(StoredRow) /\ Len(rows) <= Len(a)
      /\ \A r \in DOMAIN rows : a[r] = rows[r]
      /\ \A r \in DOMAIN a : \/ r \in DOMAIN rows
                             \/ \E i \in DOMAIN b : a[r] = RowOf(b[i])
      /\ \A i \in DOMAIN b : \E r \in DOMAIN a : a[r].text = b[i].text
  <2>1. rows \in Seq(StoredRow) /\ now \in Nat  BY DEF IngestInv, IngestTypes
  <2>2. StoresBatch(Appended(b, guard), b)  BY <2>1, AppendedKeeps
  <2>3. StoresBatch(a, b)  BY <1>6, <2>2
  <2> QED  BY <2>3 DEF StoresBatch
<1>8. rows' = a  BY <1>5, <1>6
<1>9. \A i \in DOMAIN b : b[i] \in TurnMessage /\ Genuine(b[i])
  BY <1>1, <1>2 DEF WorkerInv
<1>10. ASSUME NEW m \in TurnMessage, Genuine(m)
       PROVE  MadeOfTurn(RowOf(m))
  <2>1. m.turn \in DOMAIN said /\ m.text = said[m.turn].text
    BY <1>10 DEF TurnMessage, Genuine
  <2>2. /\ RowOf(m).text = m.text /\ RowOf(m).turn = m.turn /\ RowOf(m).call = CallOf(m)
    BY <1>10, RowOfTurn DEF IngestInv, IngestTypes
  <2>3. CallOf(m) = CallOf(said[m.turn])  BY <2>1 DEF CallOf
  <2> QED  BY <2>1, <2>2, <2>3 DEF MadeOfTurn
<1>11. ASSUME NEW r \in DOMAIN a PROVE MadeOfTurn(a[r])
  <2>1. CASE r \in DOMAIN rows  BY <1>7, <2>1 DEF IngestInv, StoreInv
  <2>2. CASE \E i \in DOMAIN b : a[r] = RowOf(b[i])  BY <1>9, <1>10, <2>2
  <2> QED  BY <1>7, <2>1, <2>2
<1>12. \A r \in DOMAIN rows : r \in DOMAIN a
  BY <1>7 DEF IngestInv, IngestTypes
<1>13. \A x : InStore(x) => InStore(x)'
  BY <1>5, <1>7, <1>8, <1>12 DEF InStore
<1>14. ASSUME NEW x, InBatch(b, x)
       PROVE  InStore(x)'
  <2>1. PICK i \in DOMAIN b : b[i].text = x  BY <1>14 DEF InBatch
  <2>2. PICK r \in DOMAIN a : a[r].text = x  BY <1>7, <2>1
  <2>3. x \in Texts  BY <1>9, <2>1 DEF TurnMessage, Message, IsScaffold
  <2>4. said[a[r].turn].text = x  BY <1>11, <2>2, <2>3, TurnTexts DEF MadeOfTurn
  <2> QED  BY <1>5, <1>8, <2>2, <2>4 DEF InStore
<1>15. a # <<>>
  <2>1. CASE rows = <<>>
    <3>1. InBatch(b, said[1].text)  BY <1>1, <1>2, <1>5, <2>1 DEF WorkerInv, FromTheFirst
    <3>2. InStore(said[1].text)'
      <4>1. PICK x : x = said[1].text  OBVIOUS
      <4>2. InStore(x)'  BY <1>14, <3>1, <4>1
      <4> QED  BY <1>5, <4>1, <4>2
    <3>3. \E r \in DOMAIN a : TRUE  BY <1>8, <3>2 DEF InStore
    <3> QED  BY <3>3
  <2>2. CASE rows # <<>>
    <3>1. Len(rows) \in Nat /\ Len(rows) # 0  BY <2>2, EmptySeq DEF IngestInv, IngestTypes
    <3> QED  BY <1>7, <3>1
  <2> QED  BY <2>1, <2>2
<1>16. StoreGrows
  <2>1. \A m : Genuine(m) => Genuine(m)'  BY <1>5 DEF Genuine
  <2> QED  BY <1>5, <1>8, <1>13, <1>15, <2>1 DEF StoreGrows
<1>17. BatchOK(ms, d, b)  BY <1>1, <1>2, <1>5 DEF WorkerInv
<1>18. \A i \in 1 .. n : IsScaffold(ms[i]) \/ InStore(ms[i].text)'
  BY <1>3, <1>13, <1>14, <1>17 DEF BatchOK
<1>19. ASSUME NEW t \in turns PROVE t \in DOMAIN said /\ InStore(said[t].text)'
  <2>1. PICK i \in 1 .. n : t = ms[i].turn /\ t # 0  BY <1>3, <1>4
  <2>2. Genuine(ms[i])  BY <1>1, <1>3 DEF WorkerInv, ListOK
  <2>3. ~IsScaffold(ms[i]) /\ t \in DOMAIN said /\ ms[i].text = said[t].text
    BY <2>1, <2>2 DEF Genuine
  <2>4. PICK x : x = ms[i].text  OBVIOUS
  <2>5. InStore(x)'  BY <1>18, <2>3, <2>4
  <2> QED  BY <1>5, <2>3, <2>4, <2>5
<1>20. StoreInv'
  <2>1. \A r \in DOMAIN a : MadeOfTurn(a[r])'  BY <1>5, <1>11 DEF MadeOfTurn
  <2>2. \A r \in DOMAIN rows' : MadeOfTurn(rows[r])'  BY <1>8, <2>1
  <2>3. OpensWithSystem'  BY <1>5 DEF IngestInv, StoreInv, OpensWithSystem
  <2>4. (said # <<>> /\ InStore(said[1].text))'
    <3>1. PICK x : x = said[1].text  OBVIOUS
    <3>2. CASE rows = <<>>
      <4>1. said # <<>> /\ InBatch(b, x)
        BY <1>1, <1>2, <1>5, <3>1, <3>2 DEF WorkerInv, FromTheFirst
      <4>2. InStore(x)'  BY <1>14, <4>1
      <4> QED  BY <1>5, <3>1, <4>1, <4>2
    <3>3. CASE rows # <<>>
      <4>1. said # <<>> /\ InStore(x)  BY <3>1, <3>3 DEF IngestInv, StoreInv
      <4>2. InStore(x)'  BY <1>13, <4>1
      <4> QED  BY <1>5, <3>1, <4>1, <4>2
    <3> QED  BY <3>2, <3>3
  <2>5. rows' # <<>>  BY <1>8, <1>15
  <2> QED  BY <2>2, <2>3, <2>4, <2>5 DEF StoreInv
<1>21. HandedIsKept'
  <2> SUFFICES ASSUME NEW i \in handed'
               PROVE  InStore(said[i].text)'
    BY <1>5 DEF HandedIsKept, InStore
  <2>1. CASE i \in turns  BY <1>19, <2>1
  <2>2. CASE i \in handed
    <3>1. PICK x : x = said[i].text  OBVIOUS
    <3>2. InStore(x)  BY <2>2, <3>1 DEF IngestInv, HandedIsKept, InStore
    <3>3. InStore(x)'  BY <1>13, <3>2
    <3> QED  BY <1>5, <3>1, <3>3
  <2> QED  BY <1>5, <2>1, <2>2
<1>22. PICK idle \in Batch : idle = Idle /\ idle.busy = FALSE /\ idle.batch = <<>>
  <2>1. <<>> \in Seq(TurnMessage)  OBVIOUS
  <2>2. Idle \in Batch /\ Idle.busy = FALSE /\ Idle.batch = <<>>  BY <2>1 DEF Idle, Batch
  <2> QED  BY <2>2
<1>23. IngestTypes'
  <2>1. handed' \in SUBSET DOMAIN said'  BY <1>5, <1>19 DEF IngestInv, IngestTypes
  <2> QED  BY <1>3, <1>5, <1>7, <1>8, <1>22, <2>1 DEF IngestInv, IngestTypes
<1>24. WorkerInv(ms, n, d, idle)'
  <2>1. ListOK(ms)'  BY <1>1, <1>16, WorkerRests DEF WorkerInv
  <2>2. CursorOK(ms, n)'  BY <1>3, <1>18 DEF CursorOK
  <2>3. FromTheFirst(ms, n, d, idle)'  BY <1>8, <1>15 DEF FromTheFirst
  <2>4. (\A i \in DOMAIN idle.batch : Genuine(idle.batch[i]))'  BY <1>22
  <2>5. ~idle.busy  BY <1>22
  <2> QED  BY <2>1, <2>2, <2>3, <2>4, <2>5 DEF WorkerInv
<1>25. WorkerInv(list[w], cursor[w], needs[w], pending[w])'
  <2>1. list'[w] = ms /\ cursor'[w] = n /\ needs'[w] = d /\ pending'[w] = idle
    BY <1>1, <1>5, <1>22 DEF IngestInv, IngestTypes
  <2> QED  BY <1>24, <2>1
<1>26. ASSUME NEW u \in Workers, u # w
       PROVE  WorkerInv(list[u], cursor[u], needs[u], pending[u])'
  <2>1. /\ list'[u] = list[u] /\ cursor'[u] = cursor[u] /\ needs'[u] = needs[u]
        /\ pending'[u] = pending[u]
    BY <1>5, <1>26 DEF IngestInv, IngestTypes
  <2> QED  BY <1>16, <2>1, WorkersRest
<1>27. \A u \in Workers : WorkerInv(list[u], cursor[u], needs[u], pending[u])'
  BY <1>25, <1>26
<1> QED  BY <1>20, <1>21, <1>23, <1>27 DEF IngestInv

(* A shortened list is a summary, other scaffolding, and turns of the list   *)
(* before, in their order and without the first.                            *)
Shortens(short, ms) ==
    /\ short \in Seq(Message) /\ short # <<>> /\ short[1].text = Summary
    /\ \A i \in DOMAIN short :
          \/ IsScaffold(short[i]) /\ short[i].turn = 0 /\ short[i].at = NoTime
          \/ ~IsScaffold(short[i]) /\ \E j \in 2 .. Len(ms) : short[i] = ms[j]
    /\ \A i, j \in DOMAIN short : i < j /\ ~IsScaffold(short[i])
          => /\ ~IsScaffold(short[j])
             /\ \E x, y \in 2 .. Len(ms) : x < y /\ short[i] = ms[x] /\ short[j] = ms[y]

(* The list that compress leaves. *)
Shortened(ms, head, k) ==
    LET cut == SubSeq(ms, Len(ms) - k + 1, Len(ms))
        stays == {i \in DOMAIN cut : cut[i].text \notin Scaffold \cup Internal}
    IN  head \o Pick(cut, stays)

(* Compress shortens. *)
LEMMA CompressShortens ==
    ASSUME NEW ms \in Seq(Message), NEW head \in Heads, NEW k \in Nat, k < Len(ms),
           NEW short, short = Shortened(ms, head, k)
    PROVE  Shortens(short, ms)
<1>1. PICK n \in Nat : n = Len(ms) /\ DOMAIN ms = 1 .. n  OBVIOUS
<1>2. PICK cut : cut = SubSeq(ms, n - k + 1, n)  OBVIOUS
<1>3. PICK stays : stays = {i \in DOMAIN cut : cut[i].text \notin Scaffold \cup Internal}
  OBVIOUS
<1>0. PICK rest : rest = Pick(cut, stays) /\ short = head \o rest
  BY <1>1, <1>2, <1>3 DEF Shortened
<1>4. n - k + 1 \in 1 .. n + 1 /\ n - (n - k + 1) + 1 = k  BY <1>1
<1>5. /\ cut \in Seq(Message) /\ DOMAIN cut = 1 .. k
      /\ \A i \in 1 .. k : n - k + i \in 2 .. n /\ cut[i] = ms[n - k + i]
  <2>1. \A i \in n - k + 1 .. n : ms[i] \in Message  BY <1>1, <1>4
  <2>2. /\ cut \in Seq(Message)
        /\ Len(cut) = IF n - k + 1 <= n THEN n - (n - k + 1) + 1 ELSE 0
        /\ \A i \in 1 .. n - (n - k + 1) + 1 : cut[i] = ms[n - k + 1 + i - 1]
    BY <1>2, <1>4, <2>1, SubSeqProperties
  <2>3. Len(cut) = k  BY <1>4, <2>2
  <2>4. \A i \in 1 .. k : n - k + i \in 2 .. n /\ n - k + 1 + i - 1 = n - k + i  BY <1>1, <1>4
  <2> QED  BY <1>4, <2>2, <2>3, <2>4
<1>6. /\ rest \in Seq(Message)
      /\ \A j \in DOMAIN rest : \E i \in stays : Rank(stays, i) = j /\ rest[j] = cut[i]
      /\ \A i, j \in stays : i < j => Rank(stays, i) < Rank(stays, j)
      /\ \A i \in stays : Rank(stays, i) \in DOMAIN rest
  <2>1. stays \in SUBSET DOMAIN cut  BY <1>3
  <2> QED  BY <1>0, <1>5, <2>1, PickProperties
<1>7. PICK h \in Nat, e \in Nat : /\ h = Len(head) /\ DOMAIN head = 1 .. h
                                  /\ e = Len(rest) /\ DOMAIN rest = 1 .. e
  <2>1. Len(rest) \in Nat /\ DOMAIN rest = 1 .. Len(rest)  BY <1>6
  <2>2. Len(head) \in {1, 2} /\ DOMAIN head = 1 .. Len(head)  BY DEF Heads
  <2> QED  BY <2>1, <2>2
<1>8. ASSUME NEW j \in 1 .. e
      PROVE  \E x \in 1 .. k : /\ x \in stays /\ Rank(stays, x) = j /\ rest[j] = ms[n - k + x]
                               /\ ~IsScaffold(rest[j])
  <2>1. PICK x \in stays : Rank(stays, x) = j /\ rest[j] = cut[x]  BY <1>6, <1>7
  <2>2. x \in 1 .. k /\ cut[x].text \notin Scaffold  BY <1>3, <1>5, <2>1
  <2> QED  BY <1>5, <2>1, <2>2 DEF IsScaffold
<1>9. /\ head \in Seq(Message) /\ h \in {1, 2} /\ head[1].text = Summary
      /\ \A i \in 1 .. h : IsScaffold(head[i]) /\ head[i].turn = 0 /\ head[i].at = NoTime
  <2>1. \A t \in Scaffold :
           /\ Scaffolding(t) \in Message /\ IsScaffold(Scaffolding(t)) /\ Scaffolding(t).text = t
           /\ Scaffolding(t).turn = 0 /\ Scaffolding(t).at = NoTime
    BY DEF Scaffolding, Message, IsScaffold, NoTime
  <2>2. Summary \in Scaffold /\ Objective \in Scaffold  BY DEF Scaffold
  <2>3. PICK a \in Message, b \in Message :
           /\ a = Scaffolding(Summary) /\ b = Scaffolding(Objective) /\ a.text = Summary
           /\ IsScaffold(a) /\ IsScaffold(b) /\ a.turn = 0 /\ b.turn = 0
           /\ a.at = NoTime /\ b.at = NoTime
    BY <2>1, <2>2
  <2>4. head = <<a>> \/ head = <<a, b>>  BY <2>3 DEF Heads
  <2>5. CASE head = <<a>>  BY <1>7, <2>3, <2>5
  <2>6. CASE head = <<a, b>>
    <3>1. h = 2 /\ head[1] = a /\ head[2] = b /\ head \in Seq(Message)  BY <1>7, <2>6
    <3>2. 1 .. h = {1, 2}  BY <3>1
    <3> QED  BY <2>3, <3>1, <3>2
  <2> QED  BY <2>4, <2>5, <2>6
<1>10. /\ short \in Seq(Message) /\ DOMAIN short = 1 .. h + e /\ Len(short) = h + e
       /\ \A i \in 1 .. h + e : short[i] = IF i <= h THEN head[i] ELSE rest[i - h]
  <2>1. /\ short \in Seq(Message) /\ Len(short) = h + e
        /\ \A i \in 1 .. h + e : short[i] = IF i <= h THEN head[i] ELSE rest[i - h]
    BY <1>0, <1>6, <1>7, <1>9, ConcatProperties
  <2> QED  BY <2>1
<1>11. \A i \in 1 .. h + e : i <= h \/ i - h \in 1 .. e  BY <1>7
<1>12. short # <<>> /\ short[1].text = Summary
  <2>1. 1 \in 1 .. h + e /\ 1 <= h  BY <1>9
  <2> QED  BY <1>9, <1>10, <2>1
<1>13. ASSUME NEW i \in 1 .. h + e
       PROVE  \/ IsScaffold(short[i]) /\ short[i].turn = 0 /\ short[i].at = NoTime
              \/ ~IsScaffold(short[i]) /\ \E j \in 2 .. n : short[i] = ms[j]
  <2>1. CASE i <= h
    <3>1. i \in 1 .. h /\ short[i] = head[i]  BY <1>10, <2>1
    <3> QED  BY <1>9, <3>1
  <2>2. CASE ~(i <= h)
    <3>1. i - h \in 1 .. e /\ short[i] = rest[i - h]  BY <1>10, <1>11, <2>2
    <3>2. PICK x \in 1 .. k : rest[i - h] = ms[n - k + x] /\ ~IsScaffold(rest[i - h])
      BY <1>8, <3>1
    <3>3. n - k + x \in 2 .. n  BY <1>5
    <3> QED  BY <3>1, <3>2, <3>3
  <2> QED  BY <2>1, <2>2
<1>14. ASSUME NEW i \in 1 .. h + e, NEW j \in 1 .. h + e, i < j, ~IsScaffold(short[i])
       PROVE  /\ ~IsScaffold(short[j])
              /\ \E x, y \in 2 .. n : x < y /\ short[i] = ms[x] /\ short[j] = ms[y]
  <2>1. ~(i <= h)
    <3> SUFFICES ASSUME i <= h PROVE FALSE  OBVIOUS
    <3>1. i \in 1 .. h /\ short[i] = head[i]  BY <1>10
    <3> QED  BY <1>9, <1>14, <3>1
  <2>2. i - h \in 1 .. e /\ short[i] = rest[i - h]  BY <1>10, <1>11, <2>1
  <2>3. ~(j <= h)  BY <1>14, <2>1
  <2>4. j - h \in 1 .. e /\ short[j] = rest[j - h]  BY <1>10, <1>11, <2>3
  <2>5. PICK x \in 1 .. k : x \in stays /\ Rank(stays, x) = i - h /\ rest[i - h] = ms[n - k + x]
    BY <1>8, <2>2
  <2>6. PICK y \in 1 .. k : /\ y \in stays /\ Rank(stays, y) = j - h
                            /\ rest[j - h] = ms[n - k + y] /\ ~IsScaffold(rest[j - h])
    BY <1>8, <2>4
  <2>7. x < y
    <3> SUFFICES ASSUME ~(x < y) PROVE FALSE  OBVIOUS
    <3>1. Rank(stays, x) < Rank(stays, y)
      <4>1. i - h < j - h  BY <1>7, <1>14
      <4> QED  BY <2>5, <2>6, <4>1
    <3>2. Rank(stays, x) \in Nat /\ Rank(stays, y) \in Nat
      <4>1. i - h \in Nat /\ j - h \in Nat  BY <2>2, <2>4
      <4> QED  BY <2>5, <2>6, <4>1
    <3>3. CASE x = y  BY <3>1, <3>2, <3>3
    <3>4. CASE y < x
      <4>1. Rank(stays, y) < Rank(stays, x)  BY <1>6, <2>5, <2>6, <3>4
      <4> QED  BY <3>1, <3>2, <4>1
    <3> QED  BY <3>3, <3>4
  <2>8. n - k + x \in 2 .. n /\ n - k + y \in 2 .. n /\ n - k + x < n - k + y
    BY <1>1, <1>5, <2>7
  <2> QED  BY <2>2, <2>4, <2>5, <2>6, <2>8
<1> QED  BY <1>1, <1>10, <1>12, <1>13, <1>14 DEF Shortens

(* A shortened list holds scaffolding and turns of the list before. *)
LEMMA CompressKeeps ==
    ASSUME IngestAssumption, IngestInv, NEW w \in Workers, NEW head \in Heads,
           NEW k \in 0 .. MaxTurns, Compress(w, head, k)
    PROVE  IngestInv'
<1>1. PICK ms \in Seq(Message), c \in Nat, d \in BOOLEAN, p \in Batch :
         /\ ms = list[w] /\ c = cursor[w] /\ d = needs[w] /\ p = pending[w]
         /\ WorkerInv(ms, c, d, p)
  BY WorkerTypes
<1>2. PICK n \in Nat : n = Len(ms) /\ DOMAIN ms = 1 .. n  OBVIOUS
<1>3. PICK short : short = Shortened(ms, head, k)  OBVIOUS
<1>4. PICK z : z = Len(short)  OBVIOUS
<1>5. /\ ~p.busy /\ ~d /\ c = n /\ k < n
      /\ list' = [list EXCEPT ![w] = short]
      /\ cursor' = [cursor EXCEPT ![w] = z]
      /\ UNCHANGED <<said, now, rows, needs, pending, handed, stamped>>
  BY <1>1, <1>2, <1>3, <1>4 DEF Compress, Shortened
<1>6. k \in Nat  OBVIOUS
<1>7. Shortens(short, ms)  BY <1>2, <1>3, <1>5, <1>6, CompressShortens
<1>8. short \in Seq(Message) /\ z \in Nat /\ DOMAIN short = 1 .. z  BY <1>4, <1>7 DEF Shortens
<1>9. \A i \in 1 .. z : \/ IsScaffold(short[i]) /\ short[i].turn = 0
                        \/ ~IsScaffold(short[i]) /\ \E j \in 1 .. n : short[i] = ms[j]
  <2>1. \A j \in 2 .. n : j \in 1 .. n  OBVIOUS
  <2> QED  BY <1>2, <1>7, <1>8, <2>1 DEF Shortens
<1>10. HeadOnly(short)
  <2> SUFFICES ASSUME NEW i \in 1 .. z, NEW j \in 1 .. z, i <= j, IsScaffold(short[j]),
                      ~IsScaffold(short[i])
               PROVE  FALSE
    BY <1>8 DEF HeadOnly
  <2>1. i \in DOMAIN short /\ j \in DOMAIN short /\ i < j  BY <1>8
  <2> QED  BY <1>7, <2>1 DEF Shortens
<1>11. StoreGrows /\ StoreInv' /\ HandedIsKept'  BY <1>5, StoreRests
<1>12. IngestTypes'  BY <1>5, <1>8 DEF IngestInv, IngestTypes
<1>13. ListOK(ms) /\ CursorOK(ms, n)  BY <1>1, <1>5 DEF WorkerInv
<1>14. WorkerInv(short, z, d, p)
  <2>1. ListOK(short)
    <3>1. \A i \in 1 .. z : Genuine(short[i])
      <4> TAKE i \in 1 .. z
      <4>1. CASE IsScaffold(short[i])  BY <1>9, <4>1 DEF Genuine
      <4>2. CASE ~IsScaffold(short[i])
        <5>1. PICK j \in 1 .. n : short[i] = ms[j]  BY <1>9, <4>2
        <5> QED  BY <1>2, <1>13, <5>1 DEF ListOK
      <4> QED  BY <4>1, <4>2
    <3> QED  BY <1>8, <1>10, <3>1 DEF ListOK
  <2>2. CursorOK(short, z)
    <3>1. \A i \in 1 .. z : IsScaffold(short[i]) \/ InStore(short[i].text)
      <4> TAKE i \in 1 .. z
      <4>1. CASE ~IsScaffold(short[i])
        <5>1. PICK j \in 1 .. n : short[i] = ms[j]  BY <1>9, <4>1
        <5>2. IsScaffold(ms[j]) \/ InStore(ms[j].text)  BY <1>2, <1>13 DEF CursorOK
        <5> QED  BY <5>1, <5>2
      <4> QED  BY <4>1
    <3> QED  BY <1>4, <1>8, <3>1 DEF CursorOK
  <2>3. rows # <<>>
    <3>1. rows = <<>> => c = 0  BY <1>1 DEF WorkerInv, FromTheFirst
    <3> QED  BY <1>5, <1>6, <3>1
  <2>4. FromTheFirst(short, z, d, p)  BY <2>3 DEF FromTheFirst
  <2>5. \A i \in DOMAIN p.batch : Genuine(p.batch[i])  BY <1>1 DEF WorkerInv
  <2> QED  BY <1>5, <2>1, <2>2, <2>4, <2>5 DEF WorkerInv
<1>15. WorkerInv(list[w], cursor[w], needs[w], pending[w])'
  <2>1. WorkerInv(short, z, d, p)'  BY <1>11, <1>14, WorkerRests
  <2>2. list'[w] = short /\ cursor'[w] = z /\ needs'[w] = d /\ pending'[w] = p
    BY <1>1, <1>5 DEF IngestInv, IngestTypes
  <2> QED  BY <2>1, <2>2
<1>16. ASSUME NEW u \in Workers, u # w
       PROVE  WorkerInv(list[u], cursor[u], needs[u], pending[u])'
  <2>1. /\ list'[u] = list[u] /\ cursor'[u] = cursor[u] /\ needs'[u] = needs[u]
        /\ pending'[u] = pending[u]
    BY <1>5, <1>16 DEF IngestInv, IngestTypes
  <2> QED  BY <1>11, <2>1, WorkersRest
<1>17. \A u \in Workers : WorkerInv(list[u], cursor[u], needs[u], pending[u])'
  BY <1>15, <1>16
<1> QED  BY <1>11, <1>12, <1>17 DEF IngestInv

-----------------------------------------------------------------------------
(***************************************************************************)
(* Restarts                                                                *)
(***************************************************************************)
(* A worker that starts over on a genuine list; others lose lists they do   *)
(* not need any more.                                                       *)
LEMMA ReloadKeeps ==
    ASSUME IngestAssumption, IngestInv, NEW w \in Workers, NEW ms \in Seq(Message), NEW kind,
           ListOK(ms), Reload(w, ms, kind),
           rows = <<>> => /\ \A i \in DOMAIN ms : ~IsScaffold(ms[i])
                          /\ ms # <<>> => ms[1].turn = 1
    PROVE  IngestInv'
<1>1. PICK new : new = Stamped(ms)  OBVIOUS
<1>2. PICK n \in Nat : n = Len(ms) /\ DOMAIN ms = 1 .. n  OBVIOUS
<1>3. PICK full \in BOOLEAN : full = (rows # <<>>)  OBVIOUS
<1>4. /\ ~pending[w].busy
      /\ list' = [u \in Workers |-> IF u = w THEN new
                                    ELSE IF pending[u].busy THEN list[u] ELSE <<>>]
      /\ cursor' = [cursor EXCEPT ![w] = 0]
      /\ needs' = [needs EXCEPT ![w] = full]
      /\ UNCHANGED <<said, now, rows, pending, handed, stamped>>
  BY <1>1, <1>3 DEF Reload
<1>5. StoreGrows /\ StoreInv' /\ HandedIsKept'  BY <1>4, StoreRests
<1>6. /\ new \in Seq(Message) /\ DOMAIN new = 1 .. n
      /\ \A i \in 1 .. n : new[i].text = ms[i].text /\ new[i].turn = ms[i].turn
  <2>1. new = [i \in 1 .. n |-> IF stamped /\ ms[i].turn # 0
                                THEN [ms[i] EXCEPT !.at = said[ms[i].turn].at]
                                ELSE [ms[i] EXCEPT !.at = NoTime]]
    BY <1>1, <1>2 DEF Stamped
  <2>2. ASSUME NEW i \in 1 .. n
        PROVE  /\ new[i] \in Message
               /\ new[i].text = ms[i].text /\ new[i].turn = ms[i].turn
    <3>1. PICK m \in Message : m = ms[i] /\ Genuine(m)  BY <1>2 DEF ListOK
    <3>2. new[i] = IF stamped /\ m.turn # 0 THEN [m EXCEPT !.at = said[m.turn].at]
                   ELSE [m EXCEPT !.at = NoTime]
      BY <2>1, <3>1
    <3>3. m.turn # 0 => said[m.turn] \in SpokenTurn
      BY <3>1 DEF Genuine, IngestInv, IngestTypes
    <3>4. m.turn # 0 => said[m.turn].at \in Nat  BY <3>3 DEF SpokenTurn
    <3>5. PICK t \in Nat : new[i] = [m EXCEPT !.at = t]  BY <3>2, <3>4 DEF NoTime
    <3>6. new[i] \in Message /\ new[i].text = m.text /\ new[i].turn = m.turn
      BY <3>5 DEF Message
    <3> QED  BY <3>1, <3>6
  <2>3. new \in [1 .. n -> Message]
    <3>1. new = [i \in 1 .. n |-> new[i]]  BY <2>1
    <3> QED  BY <2>2, <3>1
  <2>4. new \in Seq(Message)  BY <2>3
  <2> QED  BY <2>2, <2>3, <2>4
<1>7. \A i \in 1 .. n : IsScaffold(new[i]) <=> IsScaffold(ms[i])
  BY <1>6 DEF IsScaffold
<1>8. ListOK(new)
  <2>1. HeadOnly(new)  BY <1>2, <1>6, <1>7 DEF ListOK, HeadOnly
  <2>2. \A i \in 1 .. n : Genuine(new[i])  BY <1>2, <1>6, <1>7 DEF ListOK, Genuine
  <2> QED  BY <1>6, <2>1, <2>2 DEF ListOK
<1>9. <<>> \in Seq(Message)  OBVIOUS
<1>10. IngestTypes'
  <2>1. list' \in [Workers -> Seq(Message)]  BY <1>4, <1>6, <1>9 DEF IngestInv, IngestTypes
  <2> QED  BY <1>4, <2>1 DEF IngestInv, IngestTypes
<1>11. WorkerInv(list[w], cursor[w], needs[w], pending[w])'
  <2>1. PICK p : p = pending[w]  OBVIOUS
  <2>2. ~p.busy /\ \A i \in DOMAIN p.batch : Genuine(p.batch[i])
    BY <1>4, <2>1 DEF IngestInv, WorkerInv
  <2>3. rows = <<>> => \A i \in DOMAIN new : ~IsScaffold(new[i])
    BY <1>2, <1>6, <1>7
  <2>4. new # <<>> => ms # <<>> /\ 1 \in 1 .. n
    <3>1. n = 0 => new = <<>>
      <4>1. Len(new) = n  BY <1>2, <1>6
      <4> QED  BY <1>6, <4>1, EmptySeq
    <3> QED  BY <1>2, <3>1
  <2>5. FromTheFirst(new, 0, full, p)
    BY <1>3, <1>6, <2>2, <2>3, <2>4 DEF FromTheFirst
  <2>6. ~full => CursorOK(new, 0)
    <3>1. Len(new) = n  BY <1>2, <1>6
    <3>2. ~full => \A i \in DOMAIN new : ~IsScaffold(new[i])  BY <1>3, <2>3
    <3>3. \A i \in DOMAIN new : ~(i <= 0)  BY <1>6
    <3> QED  BY <3>1, <3>2, <3>3 DEF CursorOK
  <2>7. WorkerInv(new, 0, full, p)  BY <1>8, <2>2, <2>5, <2>6 DEF WorkerInv
  <2>8. WorkerInv(new, 0, full, p)'  BY <1>5, <2>7, WorkerRests
  <2>9. list'[w] = new /\ cursor'[w] = 0 /\ needs'[w] = full /\ pending'[w] = p
    BY <1>4, <2>1 DEF IngestInv, IngestTypes
  <2> QED  BY <2>8, <2>9
<1>12. ASSUME NEW u \in Workers, u # w
       PROVE  WorkerInv(list[u], cursor[u], needs[u], pending[u])'
  <2>1. PICK l \in Seq(Message), c \in Nat, d \in BOOLEAN, p \in Batch :
           /\ l = list[u] /\ c = cursor[u] /\ d = needs[u] /\ p = pending[u]
           /\ WorkerInv(l, c, d, p)
    BY WorkerTypes
  <2>2. cursor'[u] = c /\ needs'[u] = d /\ pending'[u] = p
    BY <1>4, <1>12, <2>1 DEF IngestInv, IngestTypes
  <2>3. CASE p.busy
    <3>1. list'[u] = l  BY <1>4, <1>12, <2>1, <2>3
    <3>2. WorkerInv(l, c, d, p)'  BY <1>5, <2>1, WorkerRests
    <3> QED  BY <2>2, <3>1, <3>2
  <2>4. CASE ~p.busy
    <3>1. list'[u] = <<>>  BY <1>4, <1>12, <2>1, <2>4
    <3>2. ListOK(<<>>) /\ CursorOK(<<>>, c)  BY DEF ListOK, HeadOnly, CursorOK
    <3>3. FromTheFirst(<<>>, c, d, p)  BY <2>1, <2>4 DEF WorkerInv, FromTheFirst
    <3>4. WorkerInv(<<>>, c, d, p)  BY <2>1, <2>4, <3>2, <3>3 DEF WorkerInv
    <3>5. PICK l0 : l0 = <<>>  OBVIOUS
    <3>6. WorkerInv(l0, c, d, p)'  BY <1>5, <3>4, <3>5, WorkerRests
    <3> QED  BY <2>2, <3>1, <3>5, <3>6
  <2> QED  BY <2>3, <2>4
<1>13. \A u \in Workers : WorkerInv(list[u], cursor[u], needs[u], pending[u])'
  BY <1>11, <1>12
<1> QED  BY <1>5, <1>10, <1>13 DEF IngestInv

(* A stretch of the conversation. *)
LEMMA TranscriptIsGenuine ==
    ASSUME IngestAssumption, IngestInv, NEW i \in Nat, NEW j \in Nat, i >= 1, j = Len(said),
           i <= j + 1
    PROVE  /\ Transcript(i, j) \in Seq(Message) /\ ListOK(Transcript(i, j))
           /\ \A k \in DOMAIN Transcript(i, j) : ~IsScaffold(Transcript(i, j)[k])
           /\ Transcript(i, j) # <<>> => Transcript(i, j)[1].turn = i
<1>1. PICK ms : ms = Transcript(i, j)  OBVIOUS
<1>2. PICK n \in Nat : n = j - i + 1  OBVIOUS
<1>3. ms = [k \in 1 .. n |-> [text |-> said[i + k - 1].text, turn |-> i + k - 1, at |-> NoTime]]
  BY <1>1, <1>2 DEF Transcript
<1>4. DOMAIN said = 1 .. j  BY DEF IngestInv, IngestTypes
<1>5. ASSUME NEW k \in 1 .. n
      PROVE  /\ ms[k] \in Message /\ ~IsScaffold(ms[k]) /\ Genuine(ms[k])
             /\ ms[k].turn = i + k - 1
  <2>1. PICK t \in 1 .. j : t = i + k - 1  BY <1>2
  <2>2. said[t] \in SpokenTurn  BY <1>4, <2>1 DEF IngestInv, IngestTypes
  <2>3. said[t].text \in Texts  BY <2>2 DEF SpokenTurn
  <2>4. ms[k] = [text |-> said[t].text, turn |-> t, at |-> NoTime]  BY <1>3, <2>1
  <2>5. ms[k].text = said[t].text /\ ms[k].turn = t  BY <2>4
  <2>6. ~IsScaffold(ms[k])  BY <2>3, <2>5, TurnTexts DEF IsScaffold
  <2>7. ms[k] \in Message  BY <2>3, <2>4 DEF Message, NoTime
  <2>8. Genuine(ms[k])  BY <1>4, <2>1, <2>5, <2>6 DEF Genuine
  <2> QED  BY <2>1, <2>5, <2>6, <2>7, <2>8
<1>6. ms \in Seq(Message) /\ DOMAIN ms = 1 .. n
  <2>1. ms \in [1 .. n -> Message]
    <3>1. ms = [k \in 1 .. n |-> ms[k]]  BY <1>3
    <3> QED  BY <1>5, <3>1
  <2> QED  BY <2>1
<1>7. ListOK(ms)  BY <1>5, <1>6 DEF ListOK, HeadOnly
<1>8. ms # <<>> => ms[1].turn = i
  <2>1. n = 0 => ms = <<>>
    <3>1. Len(ms) = n  BY <1>6
    <3> QED  BY <1>6, <3>1, EmptySeq
  <2>2. n # 0 => 1 \in 1 .. n /\ i + 1 - 1 = i  OBVIOUS
  <2> QED  BY <1>5, <2>1, <2>2
<1> QED  BY <1>1, <1>5, <1>6, <1>7, <1>8

(* A restart with the whole transcript. *)
LEMMA ReloadWholeKeeps ==
    ASSUME IngestAssumption, IngestInv, NEW w \in Workers, ReloadWhole(w)
    PROVE  IngestInv'
<1>1. PICK n \in Nat : n = Len(said)  BY DEF IngestInv, IngestTypes
<1>2. PICK ms : ms = Transcript(1, n)  OBVIOUS
<1>3. /\ ms \in Seq(Message) /\ ListOK(ms)
      /\ \A k \in DOMAIN ms : ~IsScaffold(ms[k])
      /\ ms # <<>> => ms[1].turn = 1
  BY <1>1, <1>2, TranscriptIsGenuine
<1>4. Reload(w, ms, "whole")  BY <1>1, <1>2 DEF ReloadWhole
<1> QED  BY <1>3, <1>4, ReloadKeeps

(* A restart with the turns that were not handed over. *)
LEMMA ReloadDeltaKeeps ==
    ASSUME IngestAssumption, IngestInv, NEW w \in Workers, ReloadDelta(w)
    PROVE  IngestInv'
<1>1. PICK n \in Nat : n = Len(said) /\ DOMAIN said = 1 .. n  BY DEF IngestInv, IngestTypes
<1>2. PICK i \in 1 .. n : handed = 1..(i - 1) /\ Reload(w, Transcript(i, n), "delta")
  BY <1>1 DEF ReloadDelta
<1>3. PICK ms : ms = Transcript(i, n)  OBVIOUS
<1>4. /\ ms \in Seq(Message) /\ ListOK(ms)
      /\ \A k \in DOMAIN ms : ~IsScaffold(ms[k])
      /\ ms # <<>> => ms[1].turn = i
  <2>1. i \in Nat /\ i >= 1 /\ i <= n + 1  OBVIOUS
  <2> QED  BY <1>1, <1>3, <2>1, TranscriptIsGenuine
<1>5. rows = <<>> => i = 1
  <2> SUFFICES ASSUME rows = <<>>, i # 1 PROVE FALSE  OBVIOUS
  <2>1. handed = {}  BY DEF IngestInv, StoreInv
  <2>2. 1 \in 1 .. (i - 1)  OBVIOUS
  <2> QED  BY <1>2, <2>1, <2>2
<1> QED  BY <1>2, <1>3, <1>4, <1>5, ReloadKeeps

(* A restart with a compacted list. *)
LEMMA ReloadCompactedKeeps ==
    ASSUME IngestAssumption, IngestInv, NEW w \in Workers, ReloadCompacted(w)
    PROVE  IngestInv'
<1>1. PICK u \in Workers : /\ \E i \in DOMAIN list[u] : IsScaffold(list[u][i])
                           /\ Reload(w, list[u], "compacted")
  BY DEF ReloadCompacted
<1>2. PICK ms \in Seq(Message), c \in Nat, d \in BOOLEAN, p \in Batch :
         ms = list[u] /\ WorkerInv(ms, c, d, p)
  BY WorkerTypes
<1>3. rows # <<>>  BY <1>1, <1>2 DEF WorkerInv, FromTheFirst
<1>4. ListOK(ms)  BY <1>2 DEF WorkerInv
<1> QED  BY <1>1, <1>2, <1>3, <1>4, ReloadKeeps

(* Every step keeps the invariant. *)
LEMMA IngestStep == IngestAssumption /\ IngestInv /\ [IngestNext]_ingestVars => IngestInv'
<1> SUFFICES ASSUME IngestAssumption, IngestInv, [IngestNext]_ingestVars PROVE IngestInv'
  OBVIOUS
<1>1. CASE UNCHANGED ingestVars
  <2>1. UNCHANGED <<said, now, rows, list, cursor, needs, pending, handed, stamped>>
    BY <1>1 DEF ingestVars
  <2>2. StoreGrows /\ StoreInv' /\ HandedIsKept'  BY <2>1, StoreRests
  <2>3. IngestTypes'  BY <2>1 DEF IngestInv, IngestTypes
  <2>4. ASSUME NEW w \in Workers PROVE WorkerInv(list[w], cursor[w], needs[w], pending[w])'
    BY <2>1, <2>2, WorkersRest
  <2> QED  BY <2>2, <2>3, <2>4 DEF IngestInv
<1>2. ASSUME NEW w \in Workers, \E t \in Texts : Speak(w, t) PROVE IngestInv'
  BY <1>2, SpeakKeeps
<1>3. ASSUME NEW w \in Workers, Decide(w) PROVE IngestInv'  BY <1>3, DecideKeeps
<1>4. ASSUME NEW w \in Workers, AppendBatch(w) PROVE IngestInv'  BY <1>4, AppendBatchKeeps
<1>5. ASSUME NEW w \in Workers, \E h \in Heads, k \in 0..MaxTurns : Compress(w, h, k)
      PROVE  IngestInv'
  BY <1>5, CompressKeeps
<1>6. ASSUME NEW w \in Workers, ReloadWhole(w) PROVE IngestInv'  BY <1>6, ReloadWholeKeeps
<1>7. ASSUME NEW w \in Workers, ReloadCompacted(w) PROVE IngestInv'
  BY <1>7, ReloadCompactedKeeps
<1>8. ASSUME NEW w \in Workers, ReloadDelta(w) PROVE IngestInv'  BY <1>8, ReloadDeltaKeeps
<1>9. CASE \E i \in DOMAIN rows : Rewrite(i)  BY <1>9, RewriteKeeps
<1>10. CASE Tick  BY <1>10, TickKeeps
<1> QED  BY <1>1, <1>2, <1>3, <1>4, <1>5, <1>6, <1>7, <1>8, <1>9, <1>10 DEF IngestNext

(* Safety. *)
LEMMA IngestSafe == IngestSpec => []IngestInv
BY IngestAssumption, IngestInitial, IngestStep, PTL DEF IngestSpec

(* Whatever was handed over can be read back: restarts, compactions, deltas, *)
(* cleaned contexts, rewritten rows and a second process never leave a turn  *)
(* out unless the store holds a row that was made of an equal one.           *)
THEOREM HandedTurnsAreKept == IngestSpec => []HandedIsKept
<1>1. IngestInv => HandedIsKept  BY DEF IngestInv
<1> QED  BY <1>1, IngestSafe, PTL

-----------------------------------------------------------------------------
(***************************************************************************)
(* Ingest: reconciliation with plain rows                                  *)
(***************************************************************************)
(* Picking an interval of positions cuts it out. *)
LEMMA PickInterval ==
    ASSUME NEW M, NEW ms \in Seq(M), NEW b \in 0 .. Len(ms)
    PROVE  /\ Len(Pick(ms, b + 1 .. Len(ms))) = Len(ms) - b
           /\ \A i \in 1 .. Len(ms) - b : Pick(ms, b + 1 .. Len(ms))[i] = ms[b + i]
<1>0. PICK n \in Nat : n = Len(ms)  OBVIOUS
<1>1. PICK S \in SUBSET DOMAIN ms : S = b + 1 .. n  BY <1>0
<1>2. PICK p : p = Pick(ms, S)  OBVIOUS
<1>3. Len(p) = Cardinality(S) /\ \A i \in S : p[Rank(S, i)] = ms[i]
  BY <1>2, PickProperties
<1>4. Cardinality(S) = n - b
  <2>1. Cardinality(b + 1 .. n) = IF b + 1 > n THEN 0 ELSE n - (b + 1) + 1
    BY FS_Interval
  <2> QED  BY <1>0, <1>1, <2>1
<1>5. ASSUME NEW i \in S
      PROVE  Rank(S, i) = i - b
  <2>1. i \in b + 1 .. n  BY <1>1
  <2>2. {j \in S : j <= i} = b + 1 .. i  BY <1>0, <1>1, <2>1
  <2>3. Cardinality(b + 1 .. i) = IF b + 1 > i THEN 0 ELSE i - (b + 1) + 1
    <3>1. b + 1 \in Int /\ i \in Int  BY <2>1
    <3> QED  BY <3>1, FS_Interval
  <2>4. Cardinality(b + 1 .. i) = i - b  BY <2>1, <2>3
  <2> QED  BY <2>2, <2>4 DEF Rank
<1>6. ASSUME NEW i \in 1 .. n - b PROVE p[i] = ms[b + i]
  <2>1. b + i \in S /\ (b + i) - b = i  BY <1>0, <1>1
  <2> QED  BY <1>3, <1>5, <2>1
<1> QED  BY <1>0, <1>1, <1>2, <1>3, <1>4, <1>6

(* Picking every position changes nothing. *)
LEMMA PickAll ==
    ASSUME NEW M, NEW ms \in Seq(M)
    PROVE  Pick(ms, DOMAIN ms) = ms
<1>0. PICK n \in Nat : n = Len(ms) /\ DOMAIN ms = 1 .. n  OBVIOUS
<1>1. PICK p : p = Pick(ms, DOMAIN ms)  OBVIOUS
<1>2. 0 \in 0 .. Len(ms) /\ n - 0 = n /\ 0 + 1 = 1  BY <1>0
<1>3. Len(p) = n /\ \A i \in 1 .. n : p[i] = ms[0 + i]
  <2>1. /\ Len(Pick(ms, 0 + 1 .. Len(ms))) = Len(ms) - 0
        /\ \A i \in 1 .. Len(ms) - 0 : Pick(ms, 0 + 1 .. Len(ms))[i] = ms[0 + i]
    BY <1>2, PickInterval
  <2> QED  BY <1>0, <1>1, <1>2, <2>1
<1>4. p \in Seq(M)  BY <1>1, PickProperties
<1>5. \A i \in 1 .. n : p[i] = ms[i]  BY <1>3
<1>6. p = [i \in 1 .. n |-> p[i]] /\ ms = [i \in 1 .. n |-> ms[i]]  BY <1>0, <1>3, <1>4
<1> QED  BY <1>1, <1>5, <1>6

(* A sequence ends itself. *)
LEMMA SuffixOfItself ==
    ASSUME NEW T, NEW s \in Seq(T)
    PROVE  IsSuffix(s, s)
<1>0. PICK m \in Nat : m = Len(s)  OBVIOUS
<1>1. Reverse(s) = [i \in 1 .. m |-> s[(m - i) + 1]]  BY <1>0 DEF Reverse
<1>2. \A i \in 1 .. m : (m - i) + 1 \in 1 .. m  OBVIOUS
<1>3. Reverse(s) \in Seq(T) /\ Len(Reverse(s)) = m  BY <1>0, <1>1, <1>2
<1> QED  BY <1>3 DEF IsSuffix, IsPrefix

-----------------------------------------------------------------------------
(* Rows that nobody rewrote and that all say something else. *)
Plain(stored) ==
    /\ \A j \in DOMAIN stored : stored[j].text # Cleared /\ stored[j].call = CallOf(stored[j])
    /\ \A j, k \in DOMAIN stored : stored[j].text = stored[k].text => j = k

(* The message is the turn of a row, and not newer. *)
Repeats(m, stored) ==
    /\ m.turn \in DOMAIN stored /\ stored[m.turn].text = m.text
    /\ m.at # NoTime => m.at <= stored[m.turn].time

(* What the list repeats, and where the new turns begin. *)
Divides(b, ms, stored) ==
    /\ \A i \in 1 .. b : IsScaffold(ms[i]) \/ Repeats(ms[i], stored)
    /\ \A i \in b + 1 .. Len(ms) :
          /\ ~IsScaffold(ms[i]) /\ (stored # <<>> => ms[i].text # System)
          /\ \A j \in DOMAIN stored : stored[j].text # ms[i].text

(* Plain rows remember no new turn. *)
LEMMA NewIsNotRemembered ==
    ASSUME NEW ms \in Seq(Message), NEW stored \in Seq(StoredRow), NEW b \in 0 .. Len(ms),
           Plain(stored), Divides(b, ms, stored), NEW i \in b + 1 .. Len(ms)
    PROVE  ~IsScaffold(ms[i]) /\ ~Remembered(ms[i].text, stored)
BY DEF Plain, Divides, Remembered, Recalls

(* The mask has every turn that a plain row holds. *)
LEMMA MaskHasRepeats ==
    ASSUME NEW ms \in Seq(Message), NEW stored \in Seq(StoredRow), Plain(stored),
           NEW i \in DOMAIN ms, Repeats(ms[i], stored)
    PROVE  i \in Mask(ms, stored)
<1>1. PICK m \in Message : m = ms[i]  OBVIOUS
<1>2. PICK t \in DOMAIN stored : t = m.turn /\ stored[t].text = m.text
  BY <1>1 DEF Repeats
<1>3. PICK k : k = KeyOfRow(stored[t])  OBVIOUS
<1>4. k \in KeysOf(stored)  BY <1>3 DEF KeysOf
<1>5. KeyOfMsg(m) = k
  <2>1. stored[t].call = CallOf(stored[t])  BY DEF Plain
  <2>2. CallOf(stored[t]) = CallOf(m)  BY <1>2 DEF CallOf
  <2> QED  BY <1>2, <1>3, <2>1, <2>2 DEF KeyOfMsg, KeyOfRow
<1>6. NotFresh(m, k, stored)
  <2>1. CASE m.at = NoTime  BY <2>1 DEF NotFresh
  <2>2. CASE m.at # NoTime
    <3>1. Copies(k, stored) = {t}
      <4>1. \A j \in DOMAIN stored : KeyOfRow(stored[j]) = k => j = t
        <5> TAKE j \in DOMAIN stored
        <5>1. KeyOfRow(stored[j])[1] = stored[j].text /\ k[1] = stored[t].text
          BY <1>3 DEF KeyOfRow
        <5> QED  BY <5>1 DEF Plain
      <4> QED  BY <1>3, <4>1 DEF Copies
    <3>2. stored[t] \in StoredRow  OBVIOUS
    <3>3. PICK z \in Nat : z = stored[t].time  BY <3>2 DEF StoredRow, RowFields
    <3>4. {stored[j].time : j \in Copies(k, stored)} = {z}  BY <3>1, <3>3
    <3>5. {z} \in SUBSET (0 .. z) /\ {z} # {}  OBVIOUS
    <3>6. Max({z}) \in {z}  BY <3>5, MaxIsGreatest
    <3>7. SourceTime(k, stored) = z  BY <3>4, <3>6 DEF SourceTime
    <3>8. m.at <= z  BY <1>1, <1>2, <2>2, <3>3 DEF Repeats
    <3> QED  BY <3>7, <3>8 DEF NotFresh
  <2> QED  BY <2>1, <2>2
<1>7. i \in Exact(ms, k, stored)  BY <1>1, <1>5, <1>6 DEF Exact
<1> QED  BY <1>4, <1>7 DEF Mask, Carried

(* The turns of a list come in the order they were spoken. *)
Ordered(ms) == \A i, j \in DOMAIN ms : i < j /\ ~IsScaffold(ms[i]) => ms[i].turn < ms[j].turn

(* Past a summary, the window reaches every turn that the rows hold. *)
LEMMA WindowReaches ==
    ASSUME NEW ms \in Seq(Message), NEW stored \in Seq(StoredRow), NEW b \in 0 .. Len(ms),
           Plain(stored), Divides(b, ms, stored), HeadOnly(ms), Ordered(ms),
           ms[1].text = Summary, \A i \in DOMAIN ms : ms[i].text # System,
           NEW o \in 1 .. b, ~IsScaffold(ms[o])
    PROVE  WindowCursor(ms, TextsOf(stored)) >= b
<1>0. PICK n \in Nat : n = Len(ms) /\ DOMAIN ms = 1 .. n  OBVIOUS
<1>1. PICK tail \in Seq(AnyText) : tail = TextsOf(stored)  BY TextsOfRows
<1>2. PICK z \in Nat : z = Len(tail) /\ DOMAIN tail = 1 .. z  OBVIOUS
<1>3. /\ DOMAIN stored = 1 .. z
      /\ \A j \in 1 .. z : tail[j] = stored[j].text
  BY <1>1, <1>2, TextsOfRows
<1> DEFINE turns == {i \in DOMAIN ms : ~IsScaffold(ms[i]) /\ ms[i].text # System}
           first == Min(turns)
           tried == {i \in first..Len(ms) : ~IsScaffold(ms[i])}
           anchors == {j \in DOMAIN tail : tail[j] = ms[first].text}
           Stored(t) == Cardinality({j \in Max(anchors)..Len(tail) : tail[j] = t})
           Used(t, i) == Cardinality({j \in tried : j <= i /\ ms[j].text = t})
           replayed == {i \in tried : \A j \in tried :
                           j <= i => Used(ms[j].text, j) <= Stored(ms[j].text)}
           found == /\ turns # {}
                    /\ \E i \in 1..(first - 1) : ms[i].text = Summary
                    /\ anchors # {}
<1>4. WindowCursor(ms, tail) = IF found THEN Max(replayed) ELSE 0
  BY DEF WindowCursor
<1>5. /\ turns \in SUBSET (1 .. n) /\ o \in turns
      /\ \A i \in 1 .. n : i \in turns <=> ~IsScaffold(ms[i])
  <2>1. \A i \in 1 .. n : i \in turns <=> ~IsScaffold(ms[i])  BY <1>0
  <2>2. turns \in SUBSET (1 .. n)  BY <1>0
  <2>3. o \in 1 .. n  BY <1>0
  <2> HIDE DEF turns
  <2> QED  BY <2>1, <2>2, <2>3
<1>6. PICK f \in turns : f = first /\ \A y \in turns : f <= y
  <2>1. turns \in SUBSET Nat /\ turns # {}  BY <1>5
  <2> HIDE DEF turns
  <2>2. Min(turns) \in turns /\ \A y \in turns : Min(turns) <= y  BY <2>1, MinIsLeast
  <2> QED  BY <2>2
<1>7. f \in 1 .. b /\ f \in 1 .. n /\ ~IsScaffold(ms[f]) /\ Repeats(ms[f], stored)
  <2> HIDE DEF turns
  <2>1. f <= o /\ f \in 1 .. n  BY <1>5, <1>6
  <2>2. f \in 1 .. b  BY <2>1
  <2>3. ~IsScaffold(ms[f])  BY <1>5, <1>6, <2>1
  <2> QED  BY <2>1, <2>2, <2>3 DEF Divides
<1>8. tried = {i \in f .. n : ~IsScaffold(ms[i])}
  <2> HIDE DEF first
  <2> QED  BY <1>0, <1>6
<1>9. PICK a \in 1 .. z : a = ms[f].turn /\ stored[a].text = ms[f].text
  BY <1>3, <1>7 DEF Repeats
<1>10. anchors = {a}
  <2> HIDE DEF first
  <2>1. anchors = {j \in 1 .. z : tail[j] = ms[f].text}  BY <1>2, <1>6
  <2>2. \A j \in 1 .. z : tail[j] = ms[f].text => j = a  BY <1>3, <1>9 DEF Plain
  <2>3. tail[a] = ms[f].text  BY <1>3, <1>9
  <2> HIDE DEF anchors
  <2> QED  BY <2>1, <2>2, <2>3
<1>11. Max(anchors) = a
  <2>1. {a} \in SUBSET (0 .. z) /\ {a} # {}  OBVIOUS
  <2>2. Max({a}) \in {a}  BY <2>1, MaxIsGreatest
  <2> HIDE DEF anchors
  <2> QED  BY <1>10, <2>2
<1>12. found
  <2>1. IsScaffold(ms[1])  BY DEF IsScaffold, Scaffold
  <2>2. f # 1  BY <1>7, <2>1
  <2>3. 1 \in 1 .. (f - 1)  BY <1>7, <2>2
  <2>4. 1 \in 1 .. (first - 1)  BY <1>6, <2>3
  <2>5. turns # {} /\ anchors # {}  BY <1>5, <1>10
  <2> HIDE DEF turns, first, anchors
  <2> QED  BY <2>4, <2>5
<1>13. \A t : Stored(t) = Cardinality({j \in a .. z : tail[j] = t})
  <2> HIDE DEF anchors
  <2> QED  BY <1>2, <1>11
<1> HIDE DEF turns, first, tried, anchors, Stored, Used
<1>15. WindowCursor(ms, tail) = Max(replayed)  BY <1>4, <1>12
<1>16. ASSUME NEW j \in tried, j <= b
       PROVE  Used(ms[j].text, j) <= Stored(ms[j].text)
  <2>1. j \in 1 .. n /\ j \in 1 .. b /\ ~IsScaffold(ms[j]) /\ f <= j
    BY <1>7, <1>8, <1>16
  <2>2. Repeats(ms[j], stored)  BY <2>1 DEF Divides
  <2>3. PICK t \in 1 .. z : t = ms[j].turn /\ stored[t].text = ms[j].text
    BY <1>3, <2>2 DEF Repeats
  <2>4. a <= t
    <3>1. CASE f = j  BY <1>9, <2>3, <3>1
    <3>2. CASE f < j
      <4>1. f \in DOMAIN ms /\ j \in DOMAIN ms /\ ~IsScaffold(ms[f])
        BY <1>0, <1>7, <2>1
      <4>2. ms[f].turn < ms[j].turn  BY <3>2, <4>1 DEF Ordered
      <4>3. a < t  BY <1>9, <2>3, <4>2
      <4> QED  BY <4>3
    <3> QED  BY <1>7, <2>1, <3>1, <3>2
  <2>5. {k \in tried : k <= j /\ ms[k].text = ms[j].text} = {j}
    <3>1. ASSUME NEW k \in tried, k <= j, ms[k].text = ms[j].text
          PROVE  k = j
      <4>1. k \in 1 .. n /\ k \in 1 .. b /\ ~IsScaffold(ms[k])  BY <1>7, <1>8, <2>1, <3>1
      <4>2. Repeats(ms[k], stored)  BY <4>1 DEF Divides
      <4>3. PICK s \in 1 .. z : s = ms[k].turn /\ stored[s].text = ms[k].text
        <5>1. ms[k].turn \in DOMAIN stored /\ stored[ms[k].turn].text = ms[k].text
          BY <4>2 DEF Repeats
        <5> QED  BY <1>3, <5>1
      <4>4. s = t
        <5>1. stored[s].text = stored[t].text  BY <2>3, <3>1, <4>3
        <5>2. \A x, y \in 1 .. z : stored[x].text = stored[y].text => x = y  BY <1>3 DEF Plain
        <5> QED  BY <2>3, <5>1, <5>2
      <4>5. ~(k < j)
        <5>1. k \in DOMAIN ms /\ j \in DOMAIN ms  BY <1>0, <2>1, <4>1
        <5>2. k < j => ms[k].turn < ms[j].turn  BY <4>1, <5>1 DEF Ordered
        <5>3. k < j => t < t  BY <2>3, <4>3, <4>4, <5>2
        <5> QED  BY <5>3
      <4> QED  BY <2>1, <3>1, <4>1, <4>5
    <3>2. j \in tried /\ j <= j  BY <2>1
    <3> QED  BY <3>1, <3>2
  <2>6. {k \in a .. z : tail[k] = ms[j].text} = {t}
    <3>1. \A k \in 1 .. z : tail[k] = ms[j].text => k = t  BY <1>3, <2>3 DEF Plain
    <3>2. t \in a .. z /\ tail[t] = ms[j].text  BY <1>3, <2>3, <2>4
    <3>3. a .. z \in SUBSET (1 .. z)  OBVIOUS
    <3> QED  BY <3>1, <3>2, <3>3
  <2>7. Used(ms[j].text, j) = 1
    <3>1. Cardinality({j}) = 1  BY FS_Singleton
    <3>2. Used(ms[j].text, j) = Cardinality({k \in tried : k <= j /\ ms[k].text = ms[j].text})
      BY DEF Used
    <3> QED  BY <2>5, <3>1, <3>2
  <2>8. Stored(ms[j].text) = 1
    <3>1. Cardinality({t}) = 1  BY FS_Singleton
    <3>2. Stored(ms[j].text) = Cardinality({k \in a .. z : tail[k] = ms[j].text})
      BY <1>13
    <3> QED  BY <2>6, <3>1, <3>2
  <2> QED  BY <2>7, <2>8
<1>17. tried \in SUBSET (0 .. n) /\ replayed \in SUBSET (0 .. n)
  <2>1. tried \in SUBSET (0 .. n)  BY <1>7, <1>8
  <2>2. replayed \in SUBSET tried  OBVIOUS
  <2> QED  BY <2>1, <2>2
<1>18. ASSUME NEW i \in tried, i <= b PROVE i \in replayed
  <2>1. \A j \in tried : j <= i => j <= b  BY <1>17, <1>18
  <2> QED  BY <1>16, <1>18, <2>1
<1>19. b \in tried
  <2>1. b \in 1 .. n  BY <1>0
  <2>2. ~IsScaffold(ms[b])
    <3>1. o \in DOMAIN ms /\ b \in DOMAIN ms /\ o <= b  BY <1>0, <2>1
    <3> QED  BY <3>1 DEF HeadOnly
  <2> QED  BY <1>7, <1>8, <2>1, <2>2
<1>20. b \in replayed  BY <1>18, <1>19
<1> HIDE DEF replayed
<1>21. b <= Max(replayed) /\ Max(replayed) \in 0 .. n  BY <1>17, <1>20, MaxIsGreatest
<1> QED  BY <1>1, <1>15, <1>21

(* A list that begins with all that is stored proves it, whatever cleanup    *)
(* would take out of it.                                                    *)
LEMMA WholeProves ==
    ASSUME IngestAssumption, NEW ms \in Seq(Message), NEW stored \in Seq(StoredRow),
           NEW b \in 1 .. Len(ms), b = Len(stored), stored[1].text = System,
           \A i \in 1 .. b : ~IsScaffold(ms[i]) /\ ms[i].text = stored[i].text
    PROVE  ProvesReplay(ms, b, TextsOf(stored))
<1>1. PICK head \in Seq(Message) : head = SubSeq(ms, 1, b)
                                   /\ Len(head) = b /\ \A i \in 1 .. b : head[i] = ms[i]
  <2>1. b \in 0 .. Len(ms)  OBVIOUS
  <2> QED  BY <2>1, PrefixOf
<1>2. DOMAIN head = 1 .. b  BY <1>1
<1>3. Real(head) = head
  <2>1. {i \in DOMAIN head : ~IsScaffold(head[i])} = DOMAIN head  BY <1>1, <1>2
  <2> QED  BY <2>1, PickAll DEF Real
<1>4. PICK p \in Seq(AnyText) : p = TextsOf(head) /\ DOMAIN p = 1 .. b
                                /\ \A i \in 1 .. b : p[i] = head[i].text
  BY <1>2, TextsOfMessages
<1>5. PICK tail \in Seq(AnyText) : tail = TextsOf(stored) /\ DOMAIN tail = 1 .. b
                                   /\ \A i \in 1 .. b : tail[i] = stored[i].text
  <2>1. DOMAIN stored = 1 .. b  OBVIOUS
  <2> QED  BY <2>1, TextsOfRows
<1>6. p = tail
  <2>1. \A i \in 1 .. b : p[i] = tail[i]  BY <1>1, <1>4, <1>5
  <2>2. p = [i \in 1 .. b |-> p[i]] /\ tail = [i \in 1 .. b |-> tail[i]]  BY <1>4, <1>5
  <2> QED  BY <2>1, <2>2
<1>7. Len(tail) = b /\ IsSuffix(tail, tail)  BY <1>5, SuffixOfItself
<1>8. tail[1] = System  BY <1>5
<1>9. CASE \A i \in DOMAIN tail : tail[i] \notin Internal
  <2>1. {i \in DOMAIN tail : tail[i] \notin Internal} = DOMAIN tail  BY <1>9
  <2>2. Sanitized(tail) = tail  BY <2>1, PickAll DEF Sanitized
  <2>3. System \in ToSet(tail)
    <3>1. 1 \in DOMAIN tail  BY <1>5
    <3> QED  BY <1>8, <3>1 DEF ToSet
  <2>4. FullReplay(tail, tail)  BY <1>7, <2>2, <2>3 DEF FullReplay
  <2> QED  BY <1>1, <1>3, <1>4, <1>5, <1>6, <2>4 DEF ProvesReplay
<1>10. CASE \E i \in DOMAIN tail : tail[i] \in Internal
  <2>1. PICK i \in 1 .. b : tail[i] \in Internal  BY <1>5, <1>10
  <2>2. i # 1  BY <1>8, <2>1 DEF IngestAssumption
  <2>3. b > 1  BY <2>2
  <2>4. RawFullReplay(ms, b, tail, tail)  BY <1>7, <2>3 DEF RawFullReplay
  <2> QED  BY <1>1, <1>3, <1>4, <1>5, <1>6, <2>4 DEF ProvesReplay
<1> QED  BY <1>9, <1>10

(* How the list of a restarted worker begins: with a summary, with all that  *)
(* is stored, or with what is not.                                          *)
Opens(b, ms, stored) ==
    IF IsScaffold(ms[1])
    THEN ms[1].text = Summary /\ \A i \in DOMAIN ms : ms[i].text # System
    ELSE b # 0 => /\ b = Len(stored) /\ stored[1].text = System
                  /\ \A i \in 1 .. b : ~IsScaffold(ms[i]) /\ ms[i].text = stored[i].text

(* Reconciliation leaves out all that the list repeats. *)
LEMMA RepeatsAreDropped ==
    ASSUME IngestAssumption, NEW ms \in Seq(Message), NEW stored \in Seq(StoredRow),
           stored # <<>>, NEW b \in 0 .. Len(ms), Plain(stored), Divides(b, ms, stored),
           HeadOnly(ms), Ordered(ms), Opens(b, ms, stored),
           NEW v, v = Reconcile(ms, stored), NEW i \in 1 .. b
    PROVE  i <= v.cursor \/ (i \in v.out /\ ~v.deferred)
<1>0. PICK n \in Nat : n = Len(ms) /\ DOMAIN ms = 1 .. n  OBVIOUS
<1>1. PICK tail : tail = TextsOf(stored)  OBVIOUS
<1>2. PICK c \in 0 .. n : c = FindCursor(ms, tail)  BY <1>0, <1>1, FindCursorProves
<1>3. \A d \in 0 .. n : ProvesReplay(ms, d, tail) => d <= c
  BY <1>0, <1>1, <1>2, FindCursorProves
<1>4. PICK w \in 0 .. n : w = WindowCursor(ms, tail)  BY <1>0, <1>1, WindowIsStored
<1>5. PICK only \in BOOLEAN, same \in BOOLEAN :
         /\ only = (Real(SubSeq(ms, 1, c)) = <<>>)
         /\ same = IsReplay(ms, stored)
  <2>1. IsReplay(ms, stored) \in BOOLEAN  BY DEF IsReplay, Gate
  <2> QED  BY <2>1
<1>6. PICK mask, past : mask = Mask(ms, stored) /\ past = ScaffoldMask(ms, c, stored)
  OBVIOUS
<1>7. ms # <<>> /\ i \in 1 .. n  BY <1>0
<1>8. v = IF only /\ w > c THEN Verdict(w, {}, FALSE)
          ELSE IF c > 0 /\ ~only THEN Verdict(c, mask, FALSE)
          ELSE IF c > 0 THEN Verdict(c, past, FALSE)
          ELSE IF same THEN Verdict(0, mask, TRUE)
          ELSE Verdict(0, {}, FALSE)
  BY <1>1, <1>2, <1>4, <1>5, <1>6, <1>7 DEF Reconcile
<1>9. CASE ~IsScaffold(ms[1])
  <2>1. /\ b = Len(stored) /\ stored[1].text = System
        /\ \A j \in 1 .. b : ~IsScaffold(ms[j]) /\ ms[j].text = stored[j].text
    BY <1>9 DEF Opens
  <2>2. b \in 1 .. Len(ms) /\ b \in 0 .. n  BY <1>0
  <2>3. b <= c  BY <1>1, <1>3, <2>1, <2>2, WholeProves
  <2>4. ~only
    <3>1. c \in 0 .. Len(ms) /\ 1 \in 1 .. c /\ 1 \in 1 .. b  BY <1>0, <2>3
    <3>2. PICK p : p = TextsOf(Real(SubSeq(ms, 1, c)))  OBVIOUS
    <3>3. \E k \in DOMAIN p : p[k] = ms[1].text  BY <1>9, <3>1, <3>2, RealPrefix
    <3>4. only => p = <<>>
      <4>1. TextsOf(<<>>) = <<>>  BY DEF TextsOf
      <4> QED  BY <1>5, <3>2, <4>1
    <3>5. p # <<>>  BY <3>3
    <3> QED  BY <3>4, <3>5
  <2>5. v.cursor = c  BY <1>8, <2>2, <2>3, <2>4 DEF Verdict
  <2> QED  BY <2>3, <2>5
<1>10. CASE IsScaffold(ms[1])
  <2>1. ms[1].text = Summary /\ \A j \in DOMAIN ms : ms[j].text # System
    BY <1>10 DEF Opens
  <2>2. \A j \in 1 .. n : IsScaffold(ms[j]) => j <= c
    <3> SUFFICES ASSUME NEW j \in 1 .. n, IsScaffold(ms[j]) PROVE j <= c  OBVIOUS
    <3>1. \A k \in 1 .. j : IsScaffold(ms[k])  BY <1>0 DEF HeadOnly
    <3>2. j \in 0 .. Len(ms)  BY <1>0
    <3>3. ProvesReplay(ms, j, tail)  BY <3>1, <3>2, ScaffoldIsReplay
    <3> QED  BY <1>3, <3>3
  <2>3. c > 0  BY <1>7, <1>10, <2>2
  <2>4. CASE IsScaffold(ms[i])
    <3>1. i <= c  BY <1>7, <2>2, <2>4
    <3>2. v.cursor = c \/ (v.cursor = w /\ w > c)  BY <1>8, <2>3 DEF Verdict
    <3> QED  BY <3>1, <3>2
  <2>5. CASE ~IsScaffold(ms[i])
    <3>1. w >= b
      <4>1. WindowCursor(ms, TextsOf(stored)) >= b  BY <2>1, <2>5, WindowReaches
      <4> QED  BY <1>1, <1>4, <4>1
    <3>2. i \in mask
      <4>1. Repeats(ms[i], stored)  BY <2>5 DEF Divides
      <4> QED  BY <1>0, <1>6, <1>7, <4>1, MaskHasRepeats
    <3>3. CASE only
      <4>1. v.cursor = w \/ (v.cursor = c /\ ~(w > c))  BY <1>8, <2>3, <3>3 DEF Verdict
      <4> QED  BY <3>1, <4>1
    <3>4. CASE ~only
      <4>1. v.out = mask /\ v.deferred = FALSE  BY <1>8, <2>3, <3>4 DEF Verdict
      <4> QED  BY <3>2, <4>1
    <3> QED  BY <3>3, <3>4
  <2> QED  BY <2>4, <2>5
<1> QED  BY <1>9, <1>10

(* What a restarted worker keeps of its list are the new turns. *)
LEMMA ReconciledAreNew ==
    ASSUME IngestAssumption, NEW ms \in Seq(Message), NEW stored \in Seq(StoredRow),
           stored # <<>>, NEW b \in 0 .. Len(ms), Plain(stored), Divides(b, ms, stored),
           HeadOnly(ms), Ordered(ms), Opens(b, ms, stored), NEW v, v = Reconcile(ms, stored)
    PROVE  Kept(ms, v, TRUE, stored) = b + 1 .. Len(ms)
<1>0. PICK n \in Nat : n = Len(ms) /\ DOMAIN ms = 1 .. n  OBVIOUS
<1>1. v.cursor \in 0 .. n /\ v.deferred \in BOOLEAN  BY <1>0, ReconcileIsSound
<1>2. \A i \in 1 .. b : i <= v.cursor \/ (i \in v.out /\ ~v.deferred)
  BY RepeatsAreDropped
<1>3. \A i \in b + 1 .. n : ~(i <= v.cursor) /\ i \notin v.out
  <2> TAKE i \in b + 1 .. n
  <2>1. i \in DOMAIN ms /\ i \in b + 1 .. Len(ms)  BY <1>0
  <2>2. ~IsScaffold(ms[i]) /\ ~Remembered(ms[i].text, stored)
    BY <2>1, NewIsNotRemembered
  <2> QED  BY <2>1, <2>2, ReconcileIsSound
<1>4. PICK kept : kept = Kept(ms, v, TRUE, stored)  OBVIOUS
<1>5. \A i \in kept : i \in b + 1 .. n
  <2> TAKE i \in kept
  <2>1. i \in 1 .. n /\ i > v.cursor /\ ~(i \in v.out /\ ~v.deferred)
    BY <1>0, <1>4 DEF Kept
  <2>2. i \notin 1 .. b  BY <1>1, <1>2, <2>1
  <2> QED  BY <1>0, <2>1, <2>2
<1>6. \A i \in b + 1 .. n : i \in kept
  <2> TAKE i \in b + 1 .. n
  <2>1. i \in 1 .. n /\ i > v.cursor /\ i \notin v.out  BY <1>0, <1>1, <1>3
  <2> QED  BY <1>0, <1>4, <2>1 DEF Kept
<1> QED  BY <1>0, <1>4, <1>5, <1>6

(* So are those behind the cursor of a worker that goes on. *)
LEMMA ContinuedAreNew ==
    ASSUME IngestAssumption, NEW ms \in Seq(Message), NEW stored \in Seq(StoredRow),
           NEW b \in 0 .. Len(ms), Plain(stored), Divides(b, ms, stored),
           NEW v, v = Continue(ms, b, stored)
    PROVE  Kept(ms, v, FALSE, stored) = b + 1 .. Len(ms)
<1>0. PICK n \in Nat : n = Len(ms) /\ DOMAIN ms = 1 .. n  OBVIOUS
<1>1. v.cursor = b /\ \A i \in v.out : Remembered(ms[i].text, stored)
  <2>1. b \in Nat /\ b <= Len(ms)  BY <1>0
  <2> QED  BY <2>1, ContinueIsSound
<1>2. \A i \in b + 1 .. n : i \notin v.out
  <2> TAKE i \in b + 1 .. n
  <2>1. i \in b + 1 .. Len(ms)  BY <1>0
  <2>2. ~Remembered(ms[i].text, stored)  BY <2>1, NewIsNotRemembered
  <2> QED  BY <1>1, <2>2
<1>3. PICK kept : kept = Kept(ms, v, FALSE, stored)  OBVIOUS
<1>4. \A i \in kept : i \in b + 1 .. n
  <2> TAKE i \in kept
  <2>1. i \in 1 .. n /\ i > v.cursor  BY <1>0, <1>3 DEF Kept
  <2> QED  BY <1>1, <2>1
<1>5. \A i \in b + 1 .. n : i \in kept
  <2> TAKE i \in b + 1 .. n
  <2>1. i \in 1 .. n /\ i > v.cursor /\ i \notin v.out  BY <1>1, <1>2
  <2> QED  BY <1>0, <1>3, <2>1 DEF Kept
<1> QED  BY <1>0, <1>3, <1>4, <1>5

(* Every message of the batch gets a row, in the order of the batch. *)
StoresEach(a, ms) ==
    /\ a \in Seq(StoredRow) /\ Len(a) = Len(rows) + Len(ms)
    /\ \A r \in DOMAIN rows : a[r] = rows[r]
    /\ \A i \in DOMAIN ms : a[Len(rows) + i] = RowOf(ms[i])

(* The guard of the store stops no message that says something new. *)
LEMMA NewAreAppended ==
    ASSUME IngestAssumption, rows \in Seq(StoredRow), now \in Nat,
           NEW ms \in Seq(TurnMessage), NEW guard \in BOOLEAN,
           \A i \in DOMAIN ms : \A r \in DOMAIN rows : rows[r].text # ms[i].text,
           \A i, j \in DOMAIN ms : ms[i].text = ms[j].text => i = j
    PROVE  StoresEach(Appended(ms, guard), ms)
<1> PICK a : a = Appended(ms, guard)  OBVIOUS
<1>0. PICK n \in Nat : n = Len(ms) /\ DOMAIN ms = 1 .. n  OBVIOUS
<1>1. PICK l \in Nat : l = Len(rows) /\ DOMAIN rows = 1 .. l  OBVIOUS
<1>2. PICK f \in [0 .. n -> Seq(StoredRow)] : Appending(f, ms, guard) /\ a = f[n]
  BY <1>0, AppendedStepwise
<1> DEFINE Holds(s, k) == /\ Len(s) = l + k
                          /\ \A r \in 1 .. l : s[r] = rows[r]
                          /\ \A i \in 1 .. k : s[l + i] = RowOf(ms[i])
           T == {k \in 0 .. n : ~Holds(f[k], k)}
<1>3. ASSUME NEW k \in 1 .. n, NEW s \in Seq(StoredRow), Holds(s, k - 1),
             NEW t, t = IF guard /\ IsDuplicateReplay(ms[k], s) THEN s ELSE Append(s, RowOf(ms[k]))
      PROVE  Holds(t, k)
  <2>1. ms[k] \in TurnMessage  BY <1>0
  <2>2. PICK row \in StoredRow : row = RowOf(ms[k])  BY <2>1, RowOfTurn
  <2>3. PICK z \in Nat : z = l + (k - 1) /\ z = Len(s) /\ DOMAIN s = 1 .. z  BY <1>3
  <2>4. ~IsDuplicateReplay(ms[k], s)
    <3> SUFFICES ASSUME NEW r \in 1 .. z PROVE s[r].text # ms[k].text
      BY <2>3 DEF IsDuplicateReplay
    <3>1. CASE r \in 1 .. l  BY <1>0, <1>1, <1>3, <3>1
    <3>2. CASE r \notin 1 .. l
      <4>1. PICK i \in 1 .. k - 1 : r = l + i  
        <5>1. r - l \in 1 .. k - 1 /\ r = l + (r - l)  BY <2>3, <3>2
        <5> QED  BY <5>1
      <4>2. s[r] = RowOf(ms[i])  BY <1>3, <4>1
      <4>3. i \in 1 .. n /\ i # k  OBVIOUS
      <4>4. ms[i] \in TurnMessage  BY <1>0, <4>3
      <4>5. s[r].text = ms[i].text  BY <4>2, <4>4, RowOfTurn
      <4> QED  BY <1>0, <4>3, <4>5
    <3> QED  BY <3>1, <3>2
  <2>5. t = Append(s, row)  BY <1>3, <2>2, <2>4
  <2>6. /\ Len(t) = z + 1 /\ t[z + 1] = row /\ \A r \in 1 .. z : t[r] = s[r]
    BY <2>3, <2>5, AppendProperties
  <2>7. Len(t) = l + k
    <3>1. z + 1 = l + k  BY <2>3
    <3> QED  BY <2>6, <3>1
  <2>8. \A r \in 1 .. l : t[r] = rows[r]
    <3> TAKE r \in 1 .. l
    <3>1. r \in 1 .. z  BY <2>3
    <3> QED  BY <1>3, <2>6, <3>1
  <2>9. \A i \in 1 .. k : t[l + i] = RowOf(ms[i])
    <3> TAKE i \in 1 .. k
    <3>1. CASE i = k  BY <2>2, <2>3, <2>6, <3>1
    <3>2. CASE i # k
      <4>1. i \in 1 .. k - 1 /\ l + i \in 1 .. z  BY <2>3, <3>2
      <4> QED  BY <1>3, <2>6, <4>1
    <3> QED  BY <3>1, <3>2
  <2> QED  BY <2>7, <2>8, <2>9
<1>4. Holds(f[0], 0)
  <2>1. f[0] = rows  BY <1>2 DEF Appending
  <2> QED  BY <1>1, <2>1
<1> HIDE DEF Holds
<1>5. T = {}
  <2> SUFFICES ASSUME T # {} PROVE FALSE  OBVIOUS
  <2>1. T \in SUBSET Nat  OBVIOUS
  <2>2. PICK k \in T : \A m \in T : k <= m  BY <2>1, LeastNatural
  <2>3. k \in 0 .. n /\ ~Holds(f[k], k)  BY <2>2
  <2>4. k \in 1 .. n  BY <1>4, <2>3
  <2>5. k - 1 \in 0 .. n /\ ~(k <= k - 1)  BY <2>4
  <2>6. k - 1 \notin T
    <3> HIDE DEF T
    <3> QED  BY <2>2, <2>5
  <2>7. Holds(f[k - 1], k - 1) /\ f[k - 1] \in Seq(StoredRow)  BY <2>5, <2>6
  <2>8. f[k] = IF guard /\ IsDuplicateReplay(ms[k], f[k - 1]) THEN f[k - 1]
               ELSE Append(f[k - 1], RowOf(ms[k]))
    BY <1>0, <1>2, <2>4 DEF Appending
  <2> QED  BY <1>3, <2>3, <2>4, <2>7, <2>8
<1>6. n \notin T
  <2> HIDE DEF T
  <2> QED  BY <1>5
<1>7. Holds(a, n)  BY <1>2, <1>6
<1>8. a \in Seq(StoredRow)  BY <1>2
<1>9. /\ Len(a) = l + n
      /\ \A r \in 1 .. l : a[r] = rows[r]
      /\ \A i \in 1 .. n : a[l + i] = RowOf(ms[i])
  BY <1>7 DEF Holds
<1>10. StoresEach(a, ms)  BY <1>0, <1>1, <1>8, <1>9 DEF StoresEach
<1> QED  BY <1>10

-----------------------------------------------------------------------------
(***************************************************************************)
(* Ingest: turns that can be told apart                                    *)
(***************************************************************************)
Kinds == {"overlap", "whole", "compacted", "delta"}

(* As long as it can tell the turns apart, the store is the beginning of     *)
(* the conversation ...                                                     *)
Tellable == said = <<>> \/ TurnsCanBeTold

StoreTold ==
    /\ Len(rows) <= Len(said)
    /\ handed = 1 .. Len(rows)
    /\ \A r \in DOMAIN rows : /\ rows[r].turn = r /\ rows[r].text = said[r].text
                              /\ said[r].at <= rows[r].time

(* ... and a list ends with all the turns that the store has not got: they   *)
(* begin behind position b.                                                 *)
Follows(b, l) ==
    /\ Len(l) + Len(rows) = Len(said) + b
    /\ \A i \in DOMAIN l : IF i <= b THEN l[i].turn <= Len(rows)
                           ELSE ~IsScaffold(l[i]) /\ l[i].turn + b = Len(rows) + i

(* A list is a summary and turns after it, or a stretch of the conversation. *)
FromSource(l) ==
    \A i \in DOMAIN l :
        l[i].at = NoTime \/ (l[i].turn \in DOMAIN said /\ l[i].at = said[l[i].turn].at)
Stretch(l, d) ==
    IF IsScaffold(l[1])
    THEN l[1].text = Summary /\ rows # <<>> /\ \A i \in DOMAIN l : l[i].text # System
    ELSE /\ \A i \in DOMAIN l : ~IsScaffold(l[i]) /\ l[i].turn + 1 = l[1].turn + i
         /\ l[1].turn + Len(l) = Len(said) + 1
         /\ d => l[1].turn \in {1, Len(rows) + 1}
ListTold(b, l, d) == Follows(b, l) /\ FromSource(l) /\ Ordered(l) /\ Stretch(l, d)

(* A decision has taken those turns; a worker at rest has its cursor there.  *)
WorkerTold(l, c, d, p) ==
    l # <<>> => \E b \in 0 .. Len(l) :
                   /\ ListTold(b, l, d)
                   /\ IF p.busy
                      THEN /\ ~d /\ Len(p.batch) = Len(l) - b
                           /\ \A i \in 1 .. Len(l) - b : p.batch[i] = l[b + i]
                      ELSE d \/ c = b

ToldTypes ==
    /\ rewrites \in Nat /\ reloads \in Seq(Kinds)
    /\ \A i \in DOMAIN said : said[i].at <= now

(* One worker serves at a time. *)
OneServes == \A u, v \in Workers : list[u] # <<>> /\ list[v] # <<>> => u = v
ToldInv ==
    /\ ToldTypes
    /\ Tellable => /\ StoreTold /\ OneServes
                   /\ \A u \in Workers : WorkerTold(list[u], cursor[u], needs[u], pending[u])

(* What the store has is plain. *)
LEMMA StoreIsPlain ==
    ASSUME IngestAssumption, IngestInv, ToldInv, Tellable
    PROVE  Plain(rows)
<1>1. StoreTold  BY DEF ToldInv
<1>2. PICK n \in Nat, z \in Nat : /\ n = Len(rows) /\ DOMAIN rows = 1 .. n
                                  /\ z = Len(said) /\ DOMAIN said = 1 .. z
  BY DEF IngestInv, IngestTypes
<1>3. \A r \in 1 .. n : r \in 1 .. z /\ rows[r].text = said[r].text
  BY <1>1, <1>2 DEF StoreTold
<1>4. ASSUME NEW r \in 1 .. n
      PROVE  rows[r].text # Cleared /\ rows[r].call = CallOf(rows[r])
  <2>1. said[r] \in SpokenTurn  BY <1>2, <1>3 DEF IngestInv, IngestTypes
  <2>2. said[r].text \in Texts  BY <2>1 DEF SpokenTurn
  <2>3. rows[r].turn = r /\ rows[r].call = CallOf(said[rows[r].turn])
    BY <1>1, <1>2 DEF StoreTold, IngestInv, StoreInv, MadeOfTurn
  <2>4. CallOf(said[r]) = CallOf(rows[r])  BY <1>3 DEF CallOf
  <2> QED  BY <1>3, <2>2, <2>3, <2>4, TurnTexts
<1>5. ASSUME NEW r \in 1 .. n, NEW s \in 1 .. n, rows[r].text = rows[s].text
      PROVE  r = s
  <2>1. said[r].text = said[s].text /\ r \in 1 .. z /\ s \in 1 .. z  BY <1>3, <1>5
  <2>2. said # <<>>  BY <1>2, <2>1
  <2> QED  BY <1>2, <2>1, <2>2 DEF Tellable, TurnsCanBeTold
<1> QED  BY <1>2, <1>4, <1>5 DEF Plain

(* A list divides where its new turns begin. *)
LEMMA ListDivides ==
    ASSUME IngestAssumption, IngestInv, ToldInv, Tellable,
           NEW l \in Seq(Message), ListOK(l), NEW b \in 0 .. Len(l), NEW d, ListTold(b, l, d)
    PROVE  Divides(b, l, rows)
<1>1. StoreTold /\ Follows(b, l) /\ FromSource(l)  BY DEF ToldInv, ListTold
<1>2. PICK n \in Nat, z \in Nat, m \in Nat :
         /\ n = Len(rows) /\ DOMAIN rows = 1 .. n /\ z = Len(said) /\ DOMAIN said = 1 .. z
         /\ m = Len(l) /\ DOMAIN l = 1 .. m
  BY DEF IngestInv, IngestTypes
<1>3. \A r \in 1 .. n : /\ r \in 1 .. z /\ rows[r].text = said[r].text
                        /\ said[r].at <= rows[r].time
  BY <1>1, <1>2 DEF StoreTold
<1>4. \A i \in 1 .. m :
         IsScaffold(l[i]) \/ (l[i].turn \in 1 .. z /\ l[i].text = said[l[i].turn].text)
  BY <1>2 DEF ListOK, Genuine
<1>5. ASSUME NEW i \in 1 .. b
      PROVE  IsScaffold(l[i]) \/ Repeats(l[i], rows)
  <2> SUFFICES ASSUME ~IsScaffold(l[i]) PROVE Repeats(l[i], rows)  OBVIOUS
  <2>1. i \in 1 .. m /\ i <= b  BY <1>2
  <2>2. l[i].turn \in 1 .. z /\ l[i].text = said[l[i].turn].text  BY <1>4, <2>1
  <2>3. l[i].turn <= n  BY <1>1, <1>2, <2>1 DEF Follows
  <2>4. l[i].turn \in 1 .. n  BY <2>2, <2>3
  <2>5. l[i].at = NoTime \/ l[i].at = said[l[i].turn].at  BY <1>1, <1>2, <2>1 DEF FromSource
  <2> QED  BY <1>2, <1>3, <2>2, <2>4, <2>5 DEF Repeats
<1>6. ASSUME NEW i \in b + 1 .. m
      PROVE  /\ ~IsScaffold(l[i]) /\ (rows # <<>> => l[i].text # System)
             /\ \A j \in 1 .. n : rows[j].text # l[i].text
  <2>1. i \in 1 .. m /\ ~(i <= b) /\ i > b  BY <1>2
  <2>2. ~IsScaffold(l[i]) /\ l[i].turn + b = n + i  BY <1>1, <1>2, <2>1 DEF Follows
  <2>3. l[i].turn \in 1 .. z /\ l[i].text = said[l[i].turn].text  BY <1>4, <2>1, <2>2
  <2>4. PICK t \in 1 .. z : t = l[i].turn /\ t > n  BY <1>2, <2>1, <2>2, <2>3
  <2>5. rows # <<>> => l[i].text # System
    <3> SUFFICES ASSUME rows # <<>>, said[t].text = System PROVE FALSE  BY <2>3, <2>4
    <3>1. t = 1  BY <1>2 DEF IngestInv, StoreInv, OpensWithSystem
    <3>2. n # 0  BY <1>2, EmptySeq DEF IngestInv, IngestTypes
    <3> QED  BY <2>4, <3>1, <3>2
  <2>6. ASSUME NEW j \in 1 .. n, rows[j].text = l[i].text
        PROVE  FALSE
    <3>1. j \in 1 .. z /\ said[j].text = said[t].text  BY <1>3, <2>3, <2>4, <2>6
    <3>2. said # <<>>  BY <1>2, <3>1
    <3>3. j = t  BY <1>2, <3>1, <3>2 DEF Tellable, TurnsCanBeTold
    <3> QED  BY <2>4, <3>3
  <2> QED  BY <2>2, <2>5, <2>6
<1> QED  BY <1>2, <1>5, <1>6 DEF Divides

(* How a reloaded list opens. *)
LEMMA ListOpens ==
    ASSUME IngestAssumption, IngestInv, ToldInv, Tellable, rows # <<>>,
           NEW l \in Seq(Message), l # <<>>, ListOK(l), NEW b \in 0 .. Len(l),
           ListTold(b, l, TRUE)
    PROVE  Opens(b, l, rows)
<1>1. StoreTold /\ Follows(b, l) /\ Stretch(l, TRUE)  BY DEF ToldInv, ListTold
<1>2. PICK n \in Nat, z \in Nat, m \in Nat :
         /\ n = Len(rows) /\ DOMAIN rows = 1 .. n /\ z = Len(said) /\ DOMAIN said = 1 .. z
         /\ m = Len(l) /\ DOMAIN l = 1 .. m
  BY DEF IngestInv, IngestTypes
<1>3. n # 0 /\ m # 0  BY <1>2, EmptySeq DEF IngestInv, IngestTypes
<1>4. CASE IsScaffold(l[1])  BY <1>1, <1>4 DEF Stretch, Opens
<1>5. CASE ~IsScaffold(l[1])
  <2>1. PICK t \in Nat : t = l[1].turn
    <3>1. l[1] \in Message  BY <1>2, <1>3
    <3> QED  BY <3>1 DEF Message
  <2>2. /\ \A i \in 1 .. m : ~IsScaffold(l[i]) /\ l[i].turn + 1 = t + i
        /\ t + m = z + 1 /\ (t = 1 \/ t = n + 1)
    BY <1>1, <1>2, <1>5, <2>1 DEF Stretch
  <2>3. m + n = z + b  BY <1>1, <1>2 DEF Follows
  <2>4. CASE t = n + 1
    <3>1. b = 0  BY <1>2, <2>2, <2>3, <2>4
    <3> QED  BY <1>5, <3>1 DEF Opens
  <2>5. CASE t = 1
    <3>1. b = n  BY <1>2, <2>2, <2>3, <2>5
    <3>2. ASSUME NEW i \in 1 .. b
          PROVE  ~IsScaffold(l[i]) /\ l[i].text = rows[i].text
      <4>1. i \in 1 .. m  BY <1>2
      <4>2. ~IsScaffold(l[i]) /\ l[i].turn + 1 = 1 + i  BY <2>2, <2>5, <4>1
      <4>3. Genuine(l[i]) /\ l[i] \in Message  BY <1>2, <4>1 DEF ListOK
      <4>4. l[i].turn = i
        <5>1. l[i].turn \in Nat  BY <4>3 DEF Message
        <5> QED  BY <4>2, <5>1
      <4>5. l[i].text = said[i].text  BY <4>2, <4>3, <4>4 DEF Genuine
      <4> QED  BY <1>1, <1>2, <3>1, <4>2, <4>5 DEF StoreTold
    <3>3. rows[1].text = System
      <4>1. rows[1].text = said[1].text  BY <1>1, <1>2, <1>3 DEF StoreTold
      <4>2. said # <<>>  BY <1>3 DEF IngestInv, StoreInv
      <4> QED  BY <4>1, <4>2 DEF Tellable, TurnsCanBeTold
    <3> QED  BY <1>2, <1>5, <3>1, <3>2, <3>3 DEF Opens
  <2> QED  BY <2>2, <2>4, <2>5
<1> QED  BY <1>4, <1>5

(* What holds of a worker while it rests, and nothing is said or stored. *)
LEMMA WorkerStaysTold ==
    ASSUME UNCHANGED <<said, rows>>, NEW l, NEW c, NEW d, NEW p, WorkerTold(l, c, d, p)
    PROVE  WorkerTold(l, c, d, p)'
<1>1. ASSUME NEW b, ListTold(b, l, d)
      PROVE  ListTold(b, l, d)'
  <2>1. Follows(b, l)'  BY <1>1 DEF ListTold, Follows
  <2>2. FromSource(l)'  BY <1>1 DEF ListTold, FromSource
  <2>3. Stretch(l, d)'  BY <1>1 DEF ListTold, Stretch
  <2> QED  BY <1>1, <2>1, <2>2, <2>3 DEF ListTold
<1> QED  BY <1>1 DEF WorkerTold

(* The same of a worker in its state. *)
LEMMA WorkersStayTold ==
    ASSUME UNCHANGED <<said, rows>>, ToldInv, Tellable, NEW u \in Workers,
           list'[u] = list[u], cursor'[u] = cursor[u], needs'[u] = needs[u],
           pending'[u] = pending[u]
    PROVE  WorkerTold(list[u], cursor[u], needs[u], pending[u])'
<1>1. PICK l, c, d, p : l = list[u] /\ c = cursor[u] /\ d = needs[u] /\ p = pending[u]
  OBVIOUS
<1>2. WorkerTold(l, c, d, p)  BY <1>1 DEF ToldInv
<1>3. WorkerTold(l, c, d, p)'  BY <1>2, WorkerStaysTold
<1>4. list'[u] = l /\ cursor'[u] = c /\ needs'[u] = d /\ pending'[u] = p  BY <1>1
<1> QED  BY <1>3, <1>4

(* The store does not change, and neither does what can be told. *)
LEMMA StoreStaysTold ==
    ASSUME ToldInv, Tellable', UNCHANGED <<said, rows, handed, reloads, rewrites>>
    PROVE  Tellable /\ StoreTold'
<1>1. Tellable  BY DEF Tellable, TurnsCanBeTold
<1>2. StoreTold'  BY <1>1 DEF ToldInv, StoreTold
<1> QED  BY <1>1, <1>2

(* Time passes, or nothing happens. *)
LEMMA TickTold ==
    ASSUME IngestInv, ToldInv, now' = now \/ now' = now + 1,
           UNCHANGED <<said, rows, list, cursor, needs, pending, handed, reloads, rewrites>>
    PROVE  ToldInv'
<1>1. ToldTypes'
  <2>1. ASSUME NEW i \in DOMAIN said PROVE said[i].at <= now /\ said[i].at \in Nat
    <3>1. said[i] \in SpokenTurn  BY DEF IngestInv, IngestTypes
    <3> QED  BY <3>1 DEF ToldInv, ToldTypes, SpokenTurn
  <2>2. now \in Nat  BY DEF IngestInv, IngestTypes
  <2>3. \A i \in DOMAIN said : said[i].at <= now'  BY <2>1, <2>2
  <2> QED  BY <2>3 DEF ToldInv, ToldTypes
<1>2. ASSUME Tellable' PROVE StoreTold' /\ OneServes' /\ Tellable
  BY <1>2, StoreStaysTold DEF ToldInv, OneServes
<1>3. ASSUME Tellable', NEW u \in Workers
      PROVE  WorkerTold(list[u], cursor[u], needs[u], pending[u])'
  BY <1>2, <1>3, WorkersStayTold
<1> QED  BY <1>1, <1>2, <1>3 DEF ToldInv

(* A rewritten row cannot be told from what it was. *)
LEMMA RewriteTold ==
    ASSUME IngestInv, ToldInv, NEW i \in DOMAIN rows, Rewrite(i)
    PROVE  ToldInv'
<1>1. rewrites' = rewrites + 1 /\ UNCHANGED <<said, now, reloads>>  BY DEF Rewrite
<1>2. rewrites' \in Nat /\ rewrites' # 0  BY <1>1 DEF ToldInv, ToldTypes
<1>3. ToldTypes'  BY <1>1, <1>2 DEF ToldInv, ToldTypes
<1>4. said # <<>>
  <2>1. rows # <<>>  OBVIOUS
  <2> QED  BY <2>1 DEF IngestInv, StoreInv
<1>5. ~Tellable'  BY <1>1, <1>2, <1>4 DEF Tellable, TurnsCanBeTold
<1> QED  BY <1>3, <1>5 DEF ToldInv

(* A decision takes the new turns of the list. *)
LEMMA DecideTold ==
    ASSUME IngestAssumption, IngestInv, ToldInv, NEW w \in Workers, Decide(w)
    PROVE  ToldInv'
<1>1. PICK ms \in Seq(Message), c \in Nat, d \in BOOLEAN, p \in Batch :
         /\ ms = list[w] /\ c = cursor[w] /\ d = needs[w] /\ p = pending[w]
         /\ WorkerInv(ms, c, d, p)
  BY WorkerTypes
<1>2. PICK stored \in Seq(StoredRow) : stored = rows  BY DEF IngestInv, IngestTypes
<1>3. PICK v : v = IF d THEN Reconcile(ms, stored) ELSE Continue(ms, c, stored)
  OBVIOUS
<1>4. PICK kept : kept = Kept(ms, v, d, stored)  OBVIOUS
<1>5. PICK guard : guard = (v.deferred \/ ~d)  OBVIOUS
<1>6. PICK q : q = [busy |-> TRUE, batch |-> Pick(ms, kept), guard |-> guard]  OBVIOUS
<1>7. /\ ~p.busy /\ ms # <<>>
      /\ pending' = [pending EXCEPT ![w] = q]
      /\ needs' = [needs EXCEPT ![w] = FALSE]
      /\ UNCHANGED <<said, now, rows, list, cursor, handed, reloads, rewrites>>
  BY <1>1, <1>2, <1>3, <1>4, <1>5, <1>6 DEF Decide
<1>8. ToldTypes'  BY <1>7 DEF ToldInv, ToldTypes
<1> SUFFICES ASSUME Tellable'
             PROVE  /\ StoreTold' /\ OneServes'
                    /\ \A u \in Workers : WorkerTold(list[u], cursor[u], needs[u], pending[u])'
  BY <1>8 DEF ToldInv
<1>9. Tellable /\ StoreTold' /\ OneServes'  BY <1>7, StoreStaysTold DEF ToldInv, OneServes
<1>10. PICK b \in 0 .. Len(ms) : ListTold(b, ms, d) /\ (d \/ c = b)
  BY <1>1, <1>7, <1>9 DEF ToldInv, WorkerTold
<1>11. ListOK(ms) /\ HeadOnly(ms) /\ Ordered(ms)
  BY <1>1, <1>10 DEF WorkerInv, ListOK, ListTold
<1>12. Plain(stored) /\ Divides(b, ms, stored)
  <2>1. Plain(rows)  BY <1>9, StoreIsPlain
  <2>2. Divides(b, ms, rows)  BY <1>9, <1>10, <1>11, ListDivides
  <2> QED  BY <1>2, <2>1, <2>2
<1>13. kept = b + 1 .. Len(ms)
  <2>1. CASE d
    <3>1. rows # <<>>  BY <1>1, <2>1 DEF WorkerInv, FromTheFirst
    <3>2. d = TRUE  BY <2>1
    <3>3. Opens(b, ms, rows)  BY <1>7, <1>9, <1>10, <1>11, <3>1, <3>2, ListOpens
    <3>4. Opens(b, ms, stored) /\ stored # <<>>  BY <1>2, <3>1, <3>3
    <3>5. v = Reconcile(ms, stored)  BY <1>3, <2>1
    <3> QED  BY <1>4, <1>11, <1>12, <3>2, <3>4, <3>5, ReconciledAreNew
  <2>2. CASE ~d
    <3>1. v = Continue(ms, b, stored) /\ d = FALSE  BY <1>3, <1>10, <2>2
    <3> QED  BY <1>4, <1>12, <3>1, ContinuedAreNew
  <2> QED  BY <2>1, <2>2
<1>14. q.busy = TRUE /\ q.batch = Pick(ms, b + 1 .. Len(ms))  BY <1>6, <1>13
<1>15. /\ Len(q.batch) = Len(ms) - b
       /\ \A i \in 1 .. Len(ms) - b : q.batch[i] = ms[b + i]
  <2>1. PICK new : new = Pick(ms, b + 1 .. Len(ms))  OBVIOUS
  <2>2. Len(new) = Len(ms) - b /\ \A i \in 1 .. Len(ms) - b : new[i] = ms[b + i]
    BY <2>1, PickInterval
  <2> QED  BY <1>14, <2>1, <2>2
<1>16. ListTold(b, ms, FALSE)  BY <1>10 DEF ListTold, Stretch
<1>17. WorkerTold(ms, c, FALSE, q)  BY <1>14, <1>15, <1>16 DEF WorkerTold
<1>18. WorkerTold(list[w], cursor[w], needs[w], pending[w])'
  <2>1. WorkerTold(ms, c, FALSE, q)'  BY <1>7, <1>17, WorkerStaysTold
  <2>2. list'[w] = ms /\ cursor'[w] = c /\ needs'[w] = FALSE /\ pending'[w] = q
    BY <1>1, <1>7 DEF IngestInv, IngestTypes
  <2> QED  BY <2>1, <2>2
<1>19. ASSUME NEW u \in Workers, u # w
       PROVE  WorkerTold(list[u], cursor[u], needs[u], pending[u])'
  <2>1. /\ list'[u] = list[u] /\ cursor'[u] = cursor[u] /\ needs'[u] = needs[u]
        /\ pending'[u] = pending[u]
    BY <1>7, <1>19 DEF IngestInv, IngestTypes
  <2> QED  BY <1>7, <1>9, <2>1, WorkersStayTold
<1>20. \A u \in Workers : WorkerTold(list[u], cursor[u], needs[u], pending[u])'
  BY <1>18, <1>19
<1> QED  BY <1>9, <1>20

(* An append brings the store to the end of the conversation. *)
LEMMA AppendTold ==
    ASSUME IngestAssumption, IngestInv, ToldInv, NEW w \in Workers, AppendBatch(w)
    PROVE  ToldInv'
<1>1. PICK ms \in Seq(Message), c \in Nat, d \in BOOLEAN, p \in Batch :
         /\ ms = list[w] /\ c = cursor[w] /\ d = needs[w] /\ p = pending[w]
         /\ WorkerInv(ms, c, d, p)
  BY WorkerTypes
<1>2. PICK q \in Seq(TurnMessage), guard \in BOOLEAN : q = p.batch /\ guard = p.guard
  BY DEF Batch
<1>3. PICK m \in Nat : m = Len(ms) /\ DOMAIN ms = 1 .. m  OBVIOUS
<1>4. PICK turns : turns = {ms[i].turn : i \in DOMAIN ms} \ {0}  OBVIOUS
<1>5. /\ p.busy /\ rows' = Appended(q, guard)
      /\ cursor' = [cursor EXCEPT ![w] = m]
      /\ handed' = handed \cup turns
      /\ pending' = [pending EXCEPT ![w] = Idle]
      /\ UNCHANGED <<said, now, list, needs, reloads, rewrites>>
  BY <1>1, <1>2, <1>3, <1>4 DEF AppendBatch
<1>6. ToldTypes'  BY <1>5 DEF ToldInv, ToldTypes
<1> SUFFICES ASSUME Tellable'
             PROVE  /\ StoreTold' /\ OneServes'
                    /\ \A u \in Workers : WorkerTold(list[u], cursor[u], needs[u], pending[u])'
  BY <1>6 DEF ToldInv
<1>7. Tellable  BY <1>5 DEF Tellable, TurnsCanBeTold
<1>8. StoreTold /\ OneServes  BY <1>7 DEF ToldInv
<1>9. PICK n \in Nat, z \in Nat :
         n = Len(rows) /\ DOMAIN rows = 1 .. n /\ z = Len(said) /\ DOMAIN said = 1 .. z
  BY DEF IngestInv, IngestTypes
<1>10. ms # <<>> /\ ListOK(ms)  BY <1>1, <1>5 DEF WorkerInv, BatchOK
<1>11. PICK b \in 0 .. m : /\ ListTold(b, ms, d) /\ d = FALSE /\ Len(q) = m - b
                           /\ \A i \in 1 .. m - b : q[i] = ms[b + i]
  BY <1>1, <1>2, <1>3, <1>5, <1>7, <1>10 DEF ToldInv, WorkerTold
<1>12. /\ Follows(b, ms) /\ FromSource(ms) /\ Ordered(ms) /\ Stretch(ms, d)
       /\ Divides(b, ms, rows)
  BY <1>3, <1>7, <1>10, <1>11, ListDivides DEF ListTold
<1>13. m + n = z + b  BY <1>3, <1>9, <1>12 DEF Follows
<1>14. PICK k \in Nat : k = m - b /\ n + k = z /\ DOMAIN q = 1 .. k
  <2>1. m - b \in Nat /\ n + (m - b) = z  BY <1>13
  <2>2. DOMAIN q = 1 .. Len(q) /\ Len(q) = m - b  BY <1>2, <1>11
  <2> QED  BY <2>1, <2>2
<1>15. ASSUME NEW i \in 1 .. k
       PROVE  /\ b + i \in b + 1 .. m /\ b + i \in 1 .. m /\ q[i] = ms[b + i]
              /\ n + i \in 1 .. z /\ q[i].turn = n + i /\ q[i].text = said[n + i].text
              /\ q[i].at = NoTime \/ q[i].at = said[n + i].at
              /\ \A r \in 1 .. n : rows[r].text # q[i].text
  <2>1. b + i \in b + 1 .. m /\ b + i \in 1 .. m /\ ~(b + i <= b) /\ n + i \in 1 .. z
    BY <1>14
  <2>2. q[i] = ms[b + i]  BY <1>11, <1>14
  <2>3. ~IsScaffold(ms[b + i]) /\ ms[b + i].turn = n + i
    <3>1. PICK x \in 1 .. m : x = b + i /\ ~(x <= b)  BY <2>1
    <3>2. ~IsScaffold(ms[x]) /\ ms[x].turn + b = n + x  BY <1>3, <1>9, <1>12, <3>1 DEF Follows
    <3>3. ms[x] \in Message  BY <1>3
    <3>4. ms[x].turn \in Nat  BY <3>3 DEF Message
    <3>5. ms[x].turn = n + i  BY <3>1, <3>2, <3>4
    <3> QED  BY <3>1, <3>2, <3>5
  <2>4. ms[b + i].turn = n + i  BY <2>3
  <2>5. ms[b + i].text = said[n + i].text  BY <1>3, <1>10, <2>1, <2>3, <2>4 DEF ListOK, Genuine
  <2>6. ms[b + i].at = NoTime \/ ms[b + i].at = said[n + i].at
    BY <1>3, <1>12, <2>1, <2>4 DEF FromSource
  <2>7. \A r \in 1 .. n : rows[r].text # ms[b + i].text
    BY <1>3, <1>9, <1>12, <2>1 DEF Divides
  <2> QED  BY <2>1, <2>2, <2>4, <2>5, <2>6, <2>7
<1>16. ASSUME NEW i \in 1 .. k, NEW j \in 1 .. k, q[i].text = q[j].text
       PROVE  i = j
  <2>1. said[n + i].text = said[n + j].text /\ n + i \in 1 .. z /\ n + j \in 1 .. z
    BY <1>15, <1>16
  <2>2. said # <<>>  BY <1>9, <2>1
  <2>3. n + i = n + j  BY <1>7, <1>9, <2>1, <2>2 DEF Tellable, TurnsCanBeTold
  <2> QED  BY <2>3
<1>17. PICK a : a = Appended(q, guard)  OBVIOUS
<1>18. StoresEach(a, q)
  <2>1. rows \in Seq(StoredRow) /\ now \in Nat  BY DEF IngestInv, IngestTypes
  <2>2. \A i \in DOMAIN q : \A r \in DOMAIN rows : rows[r].text # q[i].text
    BY <1>9, <1>14, <1>15
  <2>3. \A i, j \in DOMAIN q : q[i].text = q[j].text => i = j  BY <1>14, <1>16
  <2>4. StoresEach(Appended(q, guard), q)  BY <2>1, <2>2, <2>3, NewAreAppended
  <2> QED  BY <1>17, <2>4
<1>19. /\ a \in Seq(StoredRow) /\ Len(a) = z /\ DOMAIN a = 1 .. z
       /\ \A r \in 1 .. n : a[r] = rows[r]
       /\ \A i \in 1 .. k : a[n + i] = RowOf(q[i])
  <2>1. a \in Seq(StoredRow) /\ Len(a) = n + k  BY <1>9, <1>11, <1>14, <1>18 DEF StoresEach
  <2>2. Len(a) = z  BY <1>14, <2>1
  <2>3. /\ \A r \in 1 .. n : a[r] = rows[r]
        /\ \A i \in 1 .. k : a[n + i] = RowOf(q[i])
    BY <1>9, <1>14, <1>18 DEF StoresEach
  <2>4. DOMAIN a = 1 .. z  BY <2>1, <2>2
  <2> QED  BY <2>1, <2>2, <2>3, <2>4
<1>20. rows' = a  BY <1>5, <1>17
<1>21. ASSUME NEW r \in 1 .. z
       PROVE  a[r].turn = r /\ a[r].text = said[r].text /\ said[r].at <= a[r].time
  <2>1. CASE r <= n  BY <1>8, <1>9, <1>19, <2>1 DEF StoreTold
  <2>2. CASE ~(r <= n)
    <3>1. PICK i \in 1 .. k : r = n + i
      <4>1. r - n \in 1 .. k /\ r = n + (r - n)  BY <1>14, <2>2
      <4> QED  BY <4>1
    <3>2. a[r] = RowOf(q[i]) /\ q[i] \in TurnMessage  BY <1>14, <1>19, <3>1
    <3>3. /\ a[r].text = q[i].text /\ a[r].turn = q[i].turn
          /\ a[r].time = IF q[i].at = NoTime THEN now ELSE q[i].at
      BY <3>2, RowOfTurn DEF IngestInv, IngestTypes
    <3>4. said[r] \in SpokenTurn  BY <1>9 DEF IngestInv, IngestTypes
    <3>5. said[r].at <= now /\ said[r].at \in Nat  BY <1>9, <3>4 DEF ToldInv, ToldTypes, SpokenTurn
    <3>6. q[i].turn = r /\ q[i].text = said[r].text /\ (q[i].at = NoTime \/ q[i].at = said[r].at)
      BY <1>15, <3>1
    <3> QED  BY <3>3, <3>5, <3>6
  <2> QED  BY <2>1, <2>2
<1>22. handed' = 1 .. z
  <2>1. handed = 1 .. n /\ n <= z  BY <1>8, <1>9 DEF StoreTold
  <2>2. ASSUME NEW t \in turns PROVE t \in 1 .. z
    <3>1. PICK i \in 1 .. m : t = ms[i].turn /\ t # 0  BY <1>3, <1>4
    <3>2. Genuine(ms[i])  BY <1>3, <1>10 DEF ListOK
    <3> QED  BY <1>9, <3>1, <3>2 DEF Genuine
  <2>3. ASSUME NEW t \in 1 .. z PROVE t \in handed \cup turns
    <3>1. CASE t <= n  BY <2>1, <3>1
    <3>2. CASE ~(t <= n)
      <4>1. PICK i \in 1 .. k : t = n + i
        <5>1. t - n \in 1 .. k /\ t = n + (t - n)  BY <1>14, <3>2
        <5> QED  BY <5>1
      <4>2. b + i \in 1 .. m /\ ms[b + i].turn = t  BY <1>15, <4>1
      <4>3. t # 0  OBVIOUS
      <4> QED  BY <1>3, <1>4, <4>2, <4>3
    <3> QED  BY <3>1, <3>2
  <2>4. \A t \in 1 .. n : t \in 1 .. z  BY <2>1
  <2> QED  BY <1>5, <2>1, <2>2, <2>3, <2>4
<1>23. StoreTold'
  <2>1. Len(rows') = z /\ DOMAIN rows' = 1 .. z /\ Len(said') = z  BY <1>5, <1>9, <1>19, <1>20
  <2>2. \A r \in 1 .. z : rows'[r].turn = r /\ rows'[r].text = said'[r].text
                          /\ said'[r].at <= rows'[r].time
    BY <1>5, <1>20, <1>21
  <2> QED  BY <1>22, <2>1, <2>2 DEF StoreTold
<1>24. OneServes'  BY <1>5, <1>8 DEF OneServes
<1>25. ListTold(m, ms, d)'
  <2>1. Follows(m, ms)'
    <3>1. ASSUME NEW i \in 1 .. m PROVE i <= m /\ ms[i].turn <= z
      <4>1. Genuine(ms[i])  BY <1>3, <1>10 DEF ListOK
      <4>2. ms[i].turn = 0 \/ ms[i].turn \in 1 .. z  BY <1>9, <4>1 DEF Genuine
      <4> QED  BY <4>2
    <3>2. Len(rows') = z /\ Len(said') = z  BY <1>5, <1>9, <1>19, <1>20
    <3> QED  BY <1>3, <3>1, <3>2 DEF Follows
  <2>2. FromSource(ms)'  BY <1>5, <1>12 DEF FromSource
  <2>3. Stretch(ms, d)'
    <3>1. rows # <<>> => rows' # <<>>
      <4>1. rows # <<>> => n # 0  BY <1>9, EmptySeq DEF IngestInv, IngestTypes
      <4>2. n # 0 => z # 0  BY <1>14
      <4> QED  BY <1>19, <1>20, <4>1, <4>2
    <3> QED  BY <1>5, <1>11, <1>12, <3>1 DEF Stretch
  <2> QED  BY <1>12, <2>1, <2>2, <2>3 DEF ListTold
<1>26. Idle.busy = FALSE  BY DEF Idle
<1>27. WorkerTold(list[w], cursor[w], needs[w], pending[w])'
  <2>1. list'[w] = ms /\ cursor'[w] = m /\ needs'[w] = d /\ pending'[w] = Idle
    BY <1>1, <1>5 DEF IngestInv, IngestTypes
  <2>2. m \in 0 .. Len(ms)  BY <1>3
  <2>3. WorkerTold(ms, m, d, Idle)'  BY <1>25, <1>26, <2>2 DEF WorkerTold
  <2> QED  BY <2>1, <2>3
<1>28. ASSUME NEW u \in Workers, u # w
       PROVE  WorkerTold(list[u], cursor[u], needs[u], pending[u])'
  <2>1. list'[u] = <<>>  BY <1>1, <1>5, <1>8, <1>10, <1>28 DEF OneServes
  <2> QED  BY <2>1 DEF WorkerTold
<1>29. \A u \in Workers : WorkerTold(list[u], cursor[u], needs[u], pending[u])'
  BY <1>27, <1>28
<1> QED  BY <1>23, <1>24, <1>29

(* A new turn is one that the store has not got. *)
LEMMA SpeakTold ==
    ASSUME IngestAssumption, IngestInv, ToldInv, NEW w \in Workers, NEW t \in Texts, Speak(w, t)
    PROVE  ToldInv'
<1>1. PICK old \in Seq(Message), c \in Nat, d \in BOOLEAN, p \in Batch :
         /\ old = list[w] /\ c = cursor[w] /\ d = needs[w] /\ p = pending[w]
         /\ WorkerInv(old, c, d, p)
  BY WorkerTypes
<1>2. PICK n \in Nat, z \in Nat, l \in Nat :
         /\ n = Len(rows) /\ DOMAIN rows = 1 .. n /\ z = Len(said) /\ DOMAIN said = 1 .. z
         /\ l = Len(old) /\ DOMAIN old = 1 .. l
  BY DEF IngestInv, IngestTypes
<1>3. PICK turn \in SpokenTurn : turn = [text |-> t, at |-> now]
  BY DEF IngestInv, IngestTypes, SpokenTurn
<1>4. PICK m : m = [text |-> t, turn |-> z + 1, at |-> NoTime]  OBVIOUS
<1>5. m \in Message /\ ~IsScaffold(m) /\ m.text = t /\ m.turn = z + 1 /\ m.at = NoTime
  <2>1. m.text = t /\ m.turn = z + 1 /\ m.at = NoTime  BY <1>4
  <2>2. m \in Message  BY <1>2, <1>4 DEF Message, NoTime
  <2> QED  BY <2>1, <2>2, TurnTexts DEF IsScaffold
<1>6. PICK new : new = Append(old, m)  OBVIOUS
<1>7. /\ said' = Append(said, turn) /\ list' = [list EXCEPT ![w] = new]
      /\ ~p.busy /\ (old # <<>> \/ said = <<>>)
      /\ (t = System) => said = <<>>
      /\ UNCHANGED <<now, rows, cursor, needs, pending, handed, reloads, rewrites>>
  BY <1>1, <1>2, <1>3, <1>4, <1>6 DEF Speak
<1>8. /\ Len(said') = z + 1 /\ DOMAIN said' = 1 .. z + 1 /\ said'[z + 1] = turn
      /\ \A i \in 1 .. z : said'[i] = said[i]
  BY <1>2, <1>7, AppendProperties DEF IngestInv, IngestTypes
<1>9. /\ new \in Seq(Message) /\ Len(new) = l + 1 /\ DOMAIN new = 1 .. l + 1
      /\ new[l + 1] = m /\ \A i \in 1 .. l : new[i] = old[i]
  BY <1>2, <1>5, <1>6, AppendProperties
<1>10. ToldTypes'
  <2>1. \A i \in 1 .. z + 1 : said'[i].at <= now
    <3> TAKE i \in 1 .. z + 1
    <3>1. CASE i = z + 1
      <4>1. said'[i].at = now  BY <1>3, <1>8, <3>1
      <4> QED  BY <4>1 DEF IngestInv, IngestTypes
    <3>2. CASE i \in 1 .. z  BY <1>2, <1>8, <3>2 DEF ToldInv, ToldTypes
    <3> QED  BY <3>1, <3>2
  <2> QED  BY <1>7, <1>8, <2>1 DEF ToldInv, ToldTypes
<1> SUFFICES ASSUME Tellable'
             PROVE  /\ StoreTold' /\ OneServes'
                    /\ \A u \in Workers : WorkerTold(list[u], cursor[u], needs[u], pending[u])'
  BY <1>10 DEF ToldInv
<1>11. Tellable
  <2> SUFFICES ASSUME said # <<>> PROVE TurnsCanBeTold  BY DEF Tellable
  <2>1. z # 0  BY <1>2, EmptySeq DEF IngestInv, IngestTypes
  <2>2. said' # <<>>  BY <1>8
  <2>3. TurnsCanBeTold'  BY <2>2 DEF Tellable
  <2>4. 1 \in 1 .. z /\ said'[1].text = System  BY <2>1, <2>3 DEF TurnsCanBeTold
  <2>5. ASSUME NEW i \in 1 .. z, NEW j \in 1 .. z, said[i].text = said[j].text
        PROVE  i = j
    <3>1. i \in 1 .. z + 1 /\ j \in 1 .. z + 1  OBVIOUS
    <3> QED  BY <1>8, <2>3, <2>5, <3>1 DEF TurnsCanBeTold
  <2> QED  BY <1>2, <1>7, <1>8, <2>3, <2>4, <2>5 DEF TurnsCanBeTold
<1>12. StoreTold /\ OneServes  BY <1>11 DEF ToldInv
<1>13. n <= z  BY <1>2, <1>12 DEF StoreTold
<1>14. StoreTold'
  <2>1. \A r \in 1 .. n : r \in 1 .. z  BY <1>13
  <2>2. Len(rows') <= Len(said')  BY <1>2, <1>7, <1>8, <1>13
  <2> QED  BY <1>2, <1>7, <1>8, <1>12, <2>1, <2>2 DEF StoreTold
<1>15. rows # <<>> => said # <<>>  BY DEF IngestInv, StoreInv
<1>16. said = <<>> => z = 0  BY <1>2
<1>17. \A i \in 1 .. l : Genuine(old[i])  BY <1>1, <1>2 DEF WorkerInv, ListOK
<1>18. ASSUME NEW b \in 0 .. l, ListTold(b, old, d), old # <<>>
       PROVE  ListTold(b, new, d)'
  <2>1. Follows(b, old) /\ FromSource(old) /\ Ordered(old) /\ Stretch(old, d)
    BY <1>18 DEF ListTold
  <2>2. l + n = z + b  BY <1>2, <2>1 DEF Follows
  <2>3. Follows(b, new)'
    <3>1. (l + 1) + n = (z + 1) + b  BY <2>2
    <3>2. ASSUME NEW i \in 1 .. l + 1
          PROVE  IF i <= b THEN new[i].turn <= n
                           ELSE ~IsScaffold(new[i]) /\ new[i].turn + b = n + i
      <4>1. CASE i \in 1 .. l  BY <1>2, <1>9, <2>1, <4>1 DEF Follows
      <4>2. CASE i = l + 1
        <5>1. ~(i <= b) /\ (z + 1) + b = n + i  BY <2>2, <4>2
        <5> QED  BY <1>5, <1>9, <4>2, <5>1
      <4> QED  BY <4>1, <4>2
    <3> QED  BY <1>2, <1>7, <1>8, <1>9, <3>1, <3>2 DEF Follows
  <2>4. FromSource(new)'
    <3>1. ASSUME NEW i \in 1 .. l + 1
          PROVE  \/ new[i].at = NoTime
                 \/ (new[i].turn \in 1 .. z + 1 /\ new[i].at = said'[new[i].turn].at)
      <4>1. CASE i \in 1 .. l
        <5>1. old[i].at = NoTime \/ (old[i].turn \in 1 .. z /\ old[i].at = said[old[i].turn].at)
          BY <1>2, <2>1, <4>1 DEF FromSource
        <5>2. \A x \in 1 .. z : x \in 1 .. z + 1  OBVIOUS
        <5> QED  BY <1>8, <1>9, <4>1, <5>1, <5>2
      <4>2. CASE i = l + 1  BY <1>5, <1>9, <4>2
      <4> QED  BY <4>1, <4>2
    <3> QED  BY <1>8, <1>9, <3>1 DEF FromSource
  <2>5. Ordered(new)
    <3> SUFFICES ASSUME NEW i \in 1 .. l + 1, NEW j \in 1 .. l + 1, i < j, ~IsScaffold(new[i])
                 PROVE  new[i].turn < new[j].turn
      BY <1>9 DEF Ordered
    <3>1. i \in 1 .. l  OBVIOUS
    <3>2. new[i] = old[i]  BY <1>9, <3>1
    <3>3. CASE j \in 1 .. l  BY <1>2, <1>9, <2>1, <3>1, <3>2, <3>3 DEF Ordered
    <3>4. CASE j = l + 1
      <4>1. old[i].turn \in 1 .. z  BY <1>2, <1>17, <3>1, <3>2 DEF Genuine
      <4> QED  BY <1>5, <1>9, <3>2, <3>4, <4>1
    <3> QED  BY <3>3, <3>4
  <2>6. Stretch(new, d)'
    <3>1. l # 0  BY <1>2, <1>18, EmptySeq
    <3>2. 1 \in 1 .. l /\ new[1] = old[1]  BY <1>9, <3>1
    <3>3. CASE IsScaffold(old[1])
      <4>1. /\ old[1].text = Summary /\ rows # <<>>
            /\ \A i \in 1 .. l : old[i].text # System
        BY <1>2, <2>1, <3>3 DEF Stretch
      <4>2. t # System  BY <1>7, <1>15, <4>1
      <4>3. \A i \in 1 .. l + 1 : new[i].text # System
        <5> TAKE i \in 1 .. l + 1
        <5>1. i \in 1 .. l \/ i = l + 1  OBVIOUS
        <5> QED  BY <1>5, <1>9, <4>1, <4>2, <5>1
      <4> QED  BY <1>7, <1>9, <3>2, <3>3, <4>1, <4>3 DEF Stretch
    <3>4. CASE ~IsScaffold(old[1])
      <4>1. PICK f \in Nat : f = old[1].turn
        <5>1. old[1] \in Message  BY <1>2, <3>2
        <5> QED  BY <5>1 DEF Message
      <4>2. /\ \A i \in 1 .. l : ~IsScaffold(old[i]) /\ old[i].turn + 1 = f + i
            /\ f + l = z + 1
            /\ d => f \in {1, n + 1}
        BY <1>2, <2>1, <3>4, <4>1 DEF Stretch
      <4>3. \A i \in 1 .. l + 1 : ~IsScaffold(new[i]) /\ new[i].turn + 1 = f + i
        <5> TAKE i \in 1 .. l + 1
        <5>1. CASE i \in 1 .. l  BY <1>9, <4>2, <5>1
        <5>2. CASE i = l + 1
          <6>1. (z + 1) + 1 = f + i  BY <4>2, <5>2
          <6> QED  BY <1>5, <1>9, <5>2, <6>1
        <5> QED  BY <5>1, <5>2
      <4>4. f + (l + 1) = (z + 1) + 1  BY <4>2
      <4> QED  BY <1>2, <1>7, <1>8, <1>9, <3>2, <3>4, <4>1, <4>2, <4>3, <4>4 DEF Stretch
    <3> QED  BY <3>3, <3>4
  <2> QED  BY <2>3, <2>4, <2>5, <2>6 DEF ListTold
<1>19. WorkerTold(old, c, d, p)  BY <1>1, <1>11 DEF ToldInv
<1>20. WorkerTold(new, c, d, p)'
  <2>1. CASE old # <<>>
    <3>1. PICK b \in 0 .. l : ListTold(b, old, d) /\ (d \/ c = b)
      BY <1>2, <1>7, <1>19, <2>1 DEF WorkerTold
    <3>2. ListTold(b, new, d)'  BY <1>18, <2>1, <3>1
    <3>3. b \in 0 .. Len(new)  BY <1>9
    <3> QED  BY <1>7, <3>1, <3>2, <3>3 DEF WorkerTold
  <2>2. CASE old = <<>>
    <3>1. l = 0 /\ z = 0 /\ n = 0  BY <1>2, <1>7, <1>13, <1>16, <2>2
    <3>2. c = 0
      <4>1. rows = <<>>  BY <1>2, <3>1, EmptySeq DEF IngestInv, IngestTypes
      <4> QED  BY <1>1, <4>1 DEF WorkerInv, FromTheFirst
    <3>3. DOMAIN new = {1} /\ Len(new) = 1 /\ new[1] = m /\ m.turn = 1
      BY <1>5, <1>9, <3>1
    <3>4. Follows(0, new)'  BY <1>2, <1>5, <1>7, <1>8, <3>1, <3>3 DEF Follows
    <3>5. FromSource(new)'  BY <1>5, <3>3 DEF FromSource
    <3>6. Ordered(new)  BY <3>3 DEF Ordered
    <3>7. Stretch(new, d)'  BY <1>5, <1>8, <3>1, <3>3 DEF Stretch
    <3>8. ListTold(0, new, d)'  BY <3>4, <3>5, <3>6, <3>7 DEF ListTold
    <3>9. 0 \in 0 .. Len(new)  BY <3>3
    <3> QED  BY <1>7, <3>2, <3>8, <3>9 DEF WorkerTold
  <2> QED  BY <2>1, <2>2
<1>21. WorkerTold(list[w], cursor[w], needs[w], pending[w])'
  <2>1. list'[w] = new /\ cursor'[w] = c /\ needs'[w] = d /\ pending'[w] = p
    BY <1>1, <1>7 DEF IngestInv, IngestTypes
  <2> QED  BY <1>20, <2>1
<1>22. ASSUME NEW u \in Workers, u # w
       PROVE  list'[u] = <<>>
  <2> SUFFICES ASSUME list[u] # <<>> PROVE FALSE
    BY <1>7, <1>22 DEF IngestInv, IngestTypes
  <2>1. said = <<>>  BY <1>1, <1>7, <1>12, <1>22 DEF OneServes
  <2>2. PICK x \in Seq(Message), e \in Nat, f \in BOOLEAN, g \in Batch :
           /\ x = list[u] /\ e = cursor[u] /\ f = needs[u] /\ g = pending[u]
           /\ WorkerInv(x, e, f, g)
    BY WorkerTypes
  <2>3. PICK b \in 0 .. Len(x) : ListTold(b, x, f)
    <3>1. WorkerTold(x, e, f, g)  BY <1>11, <2>2 DEF ToldInv
    <3> QED  BY <2>2, <3>1 DEF WorkerTold
  <2>4. 1 \in DOMAIN x  BY <2>2, EmptySeq
  <2>5. CASE IsScaffold(x[1])  BY <1>15, <2>1, <2>3, <2>5 DEF ListTold, Stretch
  <2>6. CASE ~IsScaffold(x[1])
    <3>1. x[1].turn \in DOMAIN said  BY <2>2, <2>4, <2>6 DEF WorkerInv, ListOK, Genuine
    <3> QED  BY <1>2, <1>16, <2>1, <3>1
  <2> QED  BY <2>5, <2>6
<1>23. OneServes'  BY <1>22 DEF OneServes
<1>24. ASSUME NEW u \in Workers, u # w
       PROVE  WorkerTold(list[u], cursor[u], needs[u], pending[u])'
  BY <1>22, <1>24 DEF WorkerTold
<1>25. \A u \in Workers : WorkerTold(list[u], cursor[u], needs[u], pending[u])'
  BY <1>21, <1>24
<1> QED  BY <1>14, <1>23, <1>25

(* A compaction takes nothing away that the store has not got. *)
LEMMA CompressTold ==
    ASSUME IngestAssumption, IngestInv, ToldInv, NEW w \in Workers, NEW head \in Heads,
           NEW k \in 0 .. MaxTurns, Compress(w, head, k)
    PROVE  ToldInv'
<1>1. PICK ms \in Seq(Message), c \in Nat, d \in BOOLEAN, p \in Batch :
         /\ ms = list[w] /\ c = cursor[w] /\ d = needs[w] /\ p = pending[w]
         /\ WorkerInv(ms, c, d, p)
  BY WorkerTypes
<1>2. PICK m \in Nat : m = Len(ms) /\ DOMAIN ms = 1 .. m  OBVIOUS
<1>5. PICK short : short = Shortened(ms, head, k)  OBVIOUS
<1>6. PICK s : s = Len(short)  OBVIOUS
<1>7. /\ ~p.busy /\ ~d /\ c = m /\ k < m
      /\ list' = [list EXCEPT ![w] = short]
      /\ cursor' = [cursor EXCEPT ![w] = s]
      /\ UNCHANGED <<said, now, rows, needs, pending, handed, reloads, rewrites>>
  BY <1>1, <1>2, <1>5, <1>6 DEF Compress, Shortened
<1>8. Shortens(short, ms)
  <2>1. k \in Nat  OBVIOUS
  <2> QED  BY <1>2, <1>5, <1>7, <2>1, CompressShortens
<1>9. ToldTypes'  BY <1>7 DEF ToldInv, ToldTypes
<1> SUFFICES ASSUME Tellable'
             PROVE  /\ StoreTold' /\ OneServes'
                    /\ \A u \in Workers : WorkerTold(list[u], cursor[u], needs[u], pending[u])'
  BY <1>9 DEF ToldInv
<1>10. Tellable /\ StoreTold'  BY <1>7, StoreStaysTold
<1>11. PICK n \in Nat, z \in Nat :
          /\ n = Len(rows) /\ DOMAIN rows = 1 .. n
          /\ z = Len(said) /\ DOMAIN said = 1 .. z
  BY DEF IngestInv, IngestTypes
<1>12. ms # <<>> /\ 1 \in 1 .. m  BY <1>2, <1>7
<1>13. ListTold(m, ms, d)
  <2>1. WorkerTold(ms, c, d, p)  BY <1>1, <1>10 DEF ToldInv
  <2>2. PICK b \in 0 .. m : ListTold(b, ms, d) /\ c = b  BY <1>2, <1>7, <1>12, <2>1 DEF WorkerTold
  <2> QED  BY <1>7, <2>2
<1>14. Follows(m, ms) /\ FromSource(ms) /\ Ordered(ms) /\ Stretch(ms, d)  BY <1>13 DEF ListTold
<1>15. z = n  BY <1>2, <1>11, <1>14 DEF Follows
<1>16. rows # <<>>
  <2>1. k \in Nat  OBVIOUS
  <2>2. c # 0  BY <1>2, <1>7, <2>1
  <2> QED  BY <1>1, <2>2 DEF WorkerInv, FromTheFirst
<1>17. PICK x \in Nat : x = s /\ short \in Seq(Message) /\ DOMAIN short = 1 .. x
  BY <1>6, <1>8 DEF Shortens
<1>18. \A i \in 1 .. m :
          IsScaffold(ms[i]) \/ (ms[i].turn \in 1 .. z /\ ms[i].text = said[ms[i].turn].text)
  BY <1>1, <1>2, <1>11 DEF WorkerInv, ListOK, Genuine
<1>19. \A i \in 1 .. x : \/ IsScaffold(short[i]) /\ short[i].turn = 0 /\ short[i].at = NoTime
                         \/ ~IsScaffold(short[i]) /\ \E j \in 2 .. m : short[i] = ms[j]
  BY <1>2, <1>8, <1>17 DEF Shortens
<1>20. Follows(x, short)
  <2>1. ASSUME NEW i \in 1 .. x PROVE i <= x /\ short[i].turn <= n
    <3>1. CASE IsScaffold(short[i])  BY <1>19, <3>1
    <3>2. CASE ~IsScaffold(short[i])
      <4>1. PICK j \in 1 .. m : short[i] = ms[j]  BY <1>19, <3>2
      <4> QED  BY <1>15, <1>18, <3>2, <4>1
    <3> QED  BY <3>1, <3>2
  <2>2. Len(short) + n = z + x  BY <1>6, <1>15, <1>17
  <2> QED  BY <1>11, <1>17, <2>1, <2>2 DEF Follows
<1>21. FromSource(short)
  <2>1. ASSUME NEW i \in 1 .. x, ~IsScaffold(short[i])
        PROVE  \/ short[i].at = NoTime
               \/ (short[i].turn \in DOMAIN said /\ short[i].at = said[short[i].turn].at)
    <3>1. PICK j \in 1 .. m : short[i] = ms[j]  BY <1>19, <2>1
    <3> QED  BY <1>2, <1>14, <3>1 DEF FromSource
  <2> QED  BY <1>17, <1>19, <2>1 DEF FromSource
<1>22. Ordered(short)
  <2> SUFFICES ASSUME NEW i \in 1 .. x, NEW j \in 1 .. x, i < j, ~IsScaffold(short[i])
               PROVE  short[i].turn < short[j].turn
    BY <1>17 DEF Ordered
  <2>1. PICK a \in 2 .. m, b \in 2 .. m : a < b /\ short[i] = ms[a] /\ short[j] = ms[b]
    <3>1. i \in DOMAIN short /\ j \in DOMAIN short  BY <1>17
    <3>2. \E a, b \in 2 .. Len(ms) : a < b /\ short[i] = ms[a] /\ short[j] = ms[b]
      BY <1>8, <3>1 DEF Shortens
    <3> QED  BY <1>2, <3>2
  <2>2. a \in 1 .. m /\ b \in 1 .. m  OBVIOUS
  <2> QED  BY <1>2, <1>14, <2>1, <2>2 DEF Ordered
<1>23. Stretch(short, d)
  <2>1. short[1].text = Summary /\ IsScaffold(short[1])  BY <1>8 DEF Shortens, IsScaffold, Scaffold
  <2>2. ASSUME NEW i \in 1 .. x, short[i].text = System
        PROVE  FALSE
    <3>1. ~IsScaffold(short[i])  BY <2>2, TurnTexts DEF IsScaffold, Texts
    <3>2. PICK j \in 2 .. m : short[i] = ms[j]  BY <1>19, <3>1
    <3>3. j \in 1 .. m /\ 1 < j  OBVIOUS
    <3>4. ms[j].turn = 1
      <4>1. ms[j].turn \in 1 .. z /\ said[ms[j].turn].text = System
        BY <1>18, <2>2, <3>1, <3>2, <3>3
      <4> QED  BY <1>11, <4>1 DEF IngestInv, StoreInv, OpensWithSystem
    <3>5. CASE IsScaffold(ms[1])
      <4>1. ms[j].text # System  BY <1>2, <1>14, <3>3, <3>5 DEF Stretch
      <4> QED  BY <2>2, <3>2, <4>1
    <3>6. CASE ~IsScaffold(ms[1])
      <4>1. ms[1].turn < ms[j].turn  BY <1>2, <1>12, <1>14, <3>3, <3>6 DEF Ordered
      <4>2. ms[1].turn \in 1 .. z  BY <1>12, <1>18, <3>6
      <4> QED  BY <3>4, <4>1, <4>2
    <3> QED  BY <3>5, <3>6
  <2> QED  BY <1>16, <1>17, <2>1, <2>2 DEF Stretch
<1>24. WorkerTold(short, x, d, p)
  <2>1. ListTold(x, short, d)  BY <1>20, <1>21, <1>22, <1>23 DEF ListTold
  <2>2. x \in 0 .. Len(short)  BY <1>6, <1>17
  <2> QED  BY <1>7, <2>1, <2>2 DEF WorkerTold
<1>25. WorkerTold(list[w], cursor[w], needs[w], pending[w])'
  <2>1. WorkerTold(short, x, d, p)'  BY <1>7, <1>24, WorkerStaysTold
  <2>2. list'[w] = short /\ cursor'[w] = x /\ needs'[w] = d /\ pending'[w] = p
    BY <1>1, <1>7, <1>17 DEF IngestInv, IngestTypes
  <2> QED  BY <2>1, <2>2
<1>26. ASSUME NEW u \in Workers, u # w
       PROVE  WorkerTold(list[u], cursor[u], needs[u], pending[u])'
  <2>1. /\ list'[u] = list[u] /\ cursor'[u] = cursor[u] /\ needs'[u] = needs[u]
        /\ pending'[u] = pending[u]
    BY <1>7, <1>26 DEF IngestInv, IngestTypes
  <2> QED  BY <1>7, <1>10, <2>1, WorkersStayTold
<1>27. OneServes'
  <2>1. \A u \in Workers : list'[u] # <<>> => list[u] # <<>>
    BY <1>1, <1>7, <1>12 DEF IngestInv, IngestTypes
  <2> QED  BY <1>10, <2>1 DEF ToldInv, OneServes
<1>28. \A u \in Workers : WorkerTold(list[u], cursor[u], needs[u], pending[u])'
  BY <1>25, <1>26
<1> QED  BY <1>10, <1>27, <1>28

(* What a worker may start over on. *)
Reloadable(b, ms) ==
    /\ Follows(b, ms) /\ Ordered(ms) /\ Stretch(ms, TRUE)
    /\ rows = <<>> => b = 0

(* A worker that starts over sees the turns that the store has not got. *)
LEMMA ReloadTold ==
    ASSUME IngestAssumption, IngestInv, ToldInv, NEW w \in Workers, NEW ms \in Seq(Message),
           NEW kind \in Kinds, ListOK(ms), Reload(w, ms, kind),
           Tellable /\ ms # <<>> => \E b \in 0 .. Len(ms) : Reloadable(b, ms)
    PROVE  ToldInv'
<1>1. PICK new : new = Stamped(ms)  OBVIOUS
<1>2. PICK m \in Nat : m = Len(ms) /\ DOMAIN ms = 1 .. m  OBVIOUS
<1>3. PICK full \in BOOLEAN : full = (rows # <<>>)  OBVIOUS
<1>4. PICK how : how = IF \E u \in Workers : pending[u].busy THEN "overlap" ELSE kind
  OBVIOUS
<1>5. /\ ~pending[w].busy /\ reloads' = Append(reloads, how)
      /\ list' = [u \in Workers |-> IF u = w THEN new
                                    ELSE IF pending[u].busy THEN list[u] ELSE <<>>]
      /\ cursor' = [cursor EXCEPT ![w] = 0]
      /\ needs' = [needs EXCEPT ![w] = full]
      /\ UNCHANGED <<said, now, rows, pending, handed, rewrites>>
  BY <1>1, <1>3, <1>4 DEF Reload
<1>6. PICK r \in Nat : /\ r = Len(reloads) /\ DOMAIN reloads = 1 .. r
                       /\ DOMAIN reloads' = 1 .. r + 1 /\ reloads'[r + 1] = how
                       /\ \A i \in 1 .. r : reloads'[i] = reloads[i]
                       /\ reloads' \in Seq(Kinds)
  <2>1. how \in Kinds /\ reloads \in Seq(Kinds)  BY <1>4 DEF ToldInv, ToldTypes, Kinds
  <2>2. /\ Len(reloads) \in Nat /\ DOMAIN reloads = 1 .. Len(reloads)
        /\ reloads' \in Seq(Kinds) /\ DOMAIN reloads' = 1 .. Len(reloads) + 1
        /\ reloads'[Len(reloads) + 1] = how
        /\ \A i \in 1 .. Len(reloads) : reloads'[i] = reloads[i]
    BY <1>5, <2>1, AppendProperties
  <2> QED  BY <2>2
<1>7. ToldTypes'  BY <1>5, <1>6 DEF ToldInv, ToldTypes
<1> SUFFICES ASSUME Tellable'
             PROVE  /\ StoreTold' /\ OneServes'
                    /\ \A u \in Workers : WorkerTold(list[u], cursor[u], needs[u], pending[u])'
  BY <1>7 DEF ToldInv
<1>8. ASSUME NEW u \in Workers, pending[u].busy
      PROVE  FALSE
  <2>1. WorkerInv(list[u], cursor[u], needs[u], pending[u])  BY WorkerTypes
  <2>2. said # <<>>
    <3>1. rows = <<>> => said # <<>>  BY <1>8, <2>1 DEF WorkerInv, FromTheFirst
    <3> QED  BY <3>1 DEF IngestInv, StoreInv
  <2>3. "overlap" \notin ToSet(reloads')  BY <1>5, <2>2 DEF Tellable, TurnsCanBeTold
  <2>4. how = "overlap" /\ r + 1 \in 1 .. r + 1  BY <1>4, <1>8
  <2> QED  BY <1>6, <2>3, <2>4 DEF ToSet
<1>9. Tellable
  <2> SUFFICES ASSUME said # <<>> PROVE TurnsCanBeTold  BY DEF Tellable
  <2>1. TurnsCanBeTold'  BY <1>5 DEF Tellable
  <2>2. "overlap" \notin ToSet(reloads)
    <3>1. ASSUME NEW i \in 1 .. r, reloads[i] = "overlap" PROVE FALSE
      <4>1. i \in 1 .. r + 1  OBVIOUS
      <4>2. reloads'[i] = "overlap"  BY <1>6, <3>1
      <4> QED  BY <1>6, <2>1, <4>1, <4>2 DEF TurnsCanBeTold, ToSet
    <3> QED  BY <1>6, <3>1 DEF ToSet
  <2> QED  BY <1>5, <2>1, <2>2 DEF TurnsCanBeTold
<1>10. StoreTold'  BY <1>5, <1>9 DEF ToldInv, StoreTold
<1>11. list' = [u \in Workers |-> IF u = w THEN new ELSE <<>>]  BY <1>5, <1>8
<1>12. OneServes'  BY <1>11 DEF OneServes
<1>13. /\ new \in Seq(Message) /\ DOMAIN new = 1 .. m /\ Len(new) = m
       /\ \A i \in 1 .. m : /\ new[i].text = ms[i].text /\ new[i].turn = ms[i].turn
                            /\ new[i].at = NoTime \/ ( /\ ms[i].turn \in DOMAIN said
                                                       /\ new[i].at = said[ms[i].turn].at )
  <2>1. new = [i \in 1 .. m |-> IF stamped /\ ms[i].turn # 0
                                THEN [ms[i] EXCEPT !.at = said[ms[i].turn].at]
                                ELSE [ms[i] EXCEPT !.at = NoTime]]
    BY <1>1, <1>2 DEF Stamped
  <2>2. ASSUME NEW i \in 1 .. m
        PROVE  /\ new[i] \in Message
               /\ new[i].text = ms[i].text /\ new[i].turn = ms[i].turn
               /\ \/ new[i].at = NoTime
                  \/ (ms[i].turn \in DOMAIN said /\ new[i].at = said[ms[i].turn].at)
    <3>1. PICK x \in Message : x = ms[i] /\ Genuine(x)  BY <1>2 DEF ListOK
    <3>2. new[i] = IF stamped /\ x.turn # 0 THEN [x EXCEPT !.at = said[x.turn].at]
                   ELSE [x EXCEPT !.at = NoTime]
      BY <2>1, <3>1
    <3>3. x.turn # 0 => x.turn \in DOMAIN said /\ said[x.turn] \in SpokenTurn
      BY <3>1 DEF Genuine, IngestInv, IngestTypes
    <3>4. x.turn # 0 => said[x.turn].at \in Nat  BY <3>3 DEF SpokenTurn
    <3>5. PICK t \in Nat : /\ new[i] = [x EXCEPT !.at = t]
                           /\ t = NoTime \/ (x.turn \in DOMAIN said /\ t = said[x.turn].at)
      BY <3>2, <3>3, <3>4 DEF NoTime
    <3>6. /\ new[i] \in Message /\ new[i].text = x.text /\ new[i].turn = x.turn
          /\ new[i].at = t
      BY <3>5 DEF Message
    <3> QED  BY <3>1, <3>5, <3>6
  <2>3. new \in [1 .. m -> Message]
    <3>1. new = [i \in 1 .. m |-> new[i]]  BY <2>1
    <3> QED  BY <2>2, <3>1
  <2>4. new \in Seq(Message) /\ Len(new) = m  BY <2>3
  <2> QED  BY <2>2, <2>3, <2>4
<1>14. \A i \in 1 .. m : IsScaffold(new[i]) <=> IsScaffold(ms[i])
  BY <1>13 DEF IsScaffold
<1>15. PICK p : p = pending[w]  OBVIOUS
<1>16. WorkerTold(new, 0, full, p)
  <2> SUFFICES ASSUME new # <<>> PROVE WorkerTold(new, 0, full, p)  BY DEF WorkerTold
  <2>1. 1 \in 1 .. m
    <3>1. m # 0  BY <1>13, EmptySeq
    <3> QED  BY <3>1
  <2>2. PICK b \in 0 .. m :
           Follows(b, ms) /\ Ordered(ms) /\ Stretch(ms, TRUE) /\ (rows = <<>> => b = 0)
    <3>1. ms # <<>>  BY <1>2, <2>1
    <3> QED  BY <1>2, <1>9, <3>1 DEF Reloadable
  <2>3. Follows(b, new)  BY <1>2, <1>13, <1>14, <2>2 DEF Follows
  <2>4. FromSource(new)  BY <1>13 DEF FromSource
  <2>5. Ordered(new)  BY <1>2, <1>13, <1>14, <2>2 DEF Ordered
  <2>6. Stretch(new, full)
    <3>1. CASE IsScaffold(ms[1])
      <4>1. ms[1].text = Summary /\ rows # <<>> /\ \A i \in 1 .. m : ms[i].text # System
        BY <1>2, <2>2, <3>1 DEF Stretch
      <4> QED  BY <1>13, <1>14, <2>1, <3>1, <4>1 DEF Stretch
    <3>2. CASE ~IsScaffold(ms[1])
      <4>1. /\ \A i \in 1 .. m : ~IsScaffold(ms[i]) /\ ms[i].turn + 1 = ms[1].turn + i
            /\ ms[1].turn + m = Len(said) + 1 /\ ms[1].turn \in {1, Len(rows) + 1}
        BY <1>2, <2>2, <3>2 DEF Stretch
      <4>2. /\ \A i \in 1 .. m : ~IsScaffold(new[i]) /\ new[i].turn = ms[i].turn
            /\ new[1].turn = ms[1].turn
        BY <1>13, <1>14, <2>1, <4>1
      <4> QED  BY <1>13, <2>1, <4>1, <4>2 DEF Stretch
    <3> QED  BY <3>1, <3>2
  <2>7. ListTold(b, new, full)  BY <2>3, <2>4, <2>5, <2>6 DEF ListTold
  <2>8. b \in 0 .. Len(new) /\ (full \/ b = 0)  BY <1>3, <1>13, <2>2
  <2> QED  BY <1>5, <1>15, <2>7, <2>8 DEF WorkerTold
<1>17. WorkerTold(list[w], cursor[w], needs[w], pending[w])'
  <2>1. WorkerTold(new, 0, full, p)'  BY <1>5, <1>16, WorkerStaysTold
  <2>2. list'[w] = new /\ cursor'[w] = 0 /\ needs'[w] = full /\ pending'[w] = p
    BY <1>5, <1>11, <1>15 DEF IngestInv, IngestTypes
  <2> QED  BY <2>1, <2>2
<1>18. ASSUME NEW u \in Workers, u # w
       PROVE  WorkerTold(list[u], cursor[u], needs[u], pending[u])'
  <2>1. list'[u] = <<>>  BY <1>11, <1>18
  <2> QED  BY <2>1 DEF WorkerTold
<1>19. \A u \in Workers : WorkerTold(list[u], cursor[u], needs[u], pending[u])'
  BY <1>17, <1>18
<1> QED  BY <1>10, <1>12, <1>19

(* The end of the conversation from turn i, which the store has all of, or    *)
(* nothing.                                                                 *)
LEMMA TranscriptIsReloadable ==
    ASSUME IngestAssumption, IngestInv, ToldInv, Tellable, NEW i \in Nat, NEW z \in Nat, i >= 1,
           z = Len(said), i <= z, i = 1 \/ i = Len(rows) + 1
    PROVE  \E b \in 0 .. Len(Transcript(i, z)) : Reloadable(b, Transcript(i, z))
<1>1. PICK ms : ms = Transcript(i, z)  OBVIOUS
<1>2. PICK m \in Nat : m = z - i + 1 /\ m # 0  OBVIOUS
<1>3. ms = [k \in 1 .. m |-> [text |-> said[i + k - 1].text, turn |-> i + k - 1, at |-> NoTime]]
  BY <1>1, <1>2 DEF Transcript
<1>4. \A k \in 1 .. m : ms[k].turn = i + k - 1  BY <1>3
<1>5. /\ ms \in Seq(Message) /\ DOMAIN ms = 1 .. m /\ Len(ms) = m
      /\ \A k \in 1 .. m : ~IsScaffold(ms[k])
  <2>1. i <= z + 1  OBVIOUS
  <2>2. ms \in Seq(Message) /\ \A k \in DOMAIN ms : ~IsScaffold(ms[k])
    BY <1>1, <2>1, TranscriptIsGenuine
  <2>3. DOMAIN ms = 1 .. m  BY <1>3
  <2> QED  BY <2>2, <2>3
<1>6. PICK n \in Nat : n = Len(rows) /\ n <= z
  BY DEF IngestInv, IngestTypes, ToldInv, StoreTold
<1>7. PICK b \in Nat : b = IF i = 1 THEN n ELSE 0  BY <1>6
<1>8. b <= m /\ m + n = z + b /\ i + b = n + 1  BY <1>2, <1>6, <1>7
<1>9. Follows(b, ms)
  <2>1. ASSUME NEW k \in 1 .. m
        PROVE  IF k <= b THEN ms[k].turn <= n ELSE ms[k].turn + b = n + k
    <3>1. PICK x \in Nat : x = i + k - 1 /\ x = ms[k].turn
      <4>1. i + k - 1 \in Nat  OBVIOUS
      <4> QED  BY <1>4, <4>1
    <3>2. x + b = n + k  BY <1>8, <3>1
    <3>3. k <= b => x <= n  BY <1>8, <3>1
    <3> QED  BY <3>1, <3>2, <3>3
  <2> QED  BY <1>5, <1>6, <1>8, <2>1 DEF Follows
<1>10. Ordered(ms)
  <2>1. ASSUME NEW k \in 1 .. m, NEW j \in 1 .. m, k < j
        PROVE  ms[k].turn < ms[j].turn
    <3>1. i + k - 1 < i + j - 1  BY <2>1
    <3> QED  BY <1>4, <3>1
  <2> QED  BY <1>5, <2>1 DEF Ordered
<1>11. Stretch(ms, TRUE)
  <2>1. 1 \in 1 .. m  BY <1>2
  <2>2. ms[1].turn = i
    <3>1. i + 1 - 1 = i  OBVIOUS
    <3> QED  BY <1>4, <2>1, <3>1
  <2>3. ASSUME NEW k \in 1 .. m PROVE ms[k].turn + 1 = i + k
    <3>1. (i + k - 1) + 1 = i + k  OBVIOUS
    <3> QED  BY <1>4, <3>1
  <2>4. i + m = z + 1 /\ i \in {1, n + 1}  BY <1>2, <1>6
  <2> QED  BY <1>5, <1>6, <2>1, <2>2, <2>3, <2>4 DEF Stretch
<1>12. rows = <<>> => b = 0
  <2>1. rows = <<>> => n = 0  BY <1>6
  <2> QED  BY <1>7, <2>1
<1>13. b \in 0 .. Len(ms)  BY <1>5, <1>8
<1> QED  BY <1>1, <1>9, <1>10, <1>11, <1>12, <1>13 DEF Reloadable

(* A restart with the whole transcript. *)
LEMMA ReloadWholeTold ==
    ASSUME IngestAssumption, IngestInv, ToldInv, NEW w \in Workers, ReloadWhole(w)
    PROVE  ToldInv'
<1>1. PICK z \in Nat : z = Len(said)  BY DEF IngestInv, IngestTypes
<1>2. PICK ms : ms = Transcript(1, z)  OBVIOUS
<1>3. ms \in Seq(Message) /\ ListOK(ms)  BY <1>1, <1>2, TranscriptIsGenuine
<1>4. Reload(w, ms, "whole") /\ "whole" \in Kinds  BY <1>1, <1>2 DEF ReloadWhole, Kinds
<1>5. Tellable /\ ms # <<>> => \E b \in 0 .. Len(ms) : Reloadable(b, ms)
  <2> SUFFICES ASSUME Tellable, ms # <<>> PROVE \E b \in 0 .. Len(ms) : Reloadable(b, ms)
    OBVIOUS
  <2>1. 1 <= z
    <3>1. DOMAIN ms = 1 .. z - 1 + 1  BY <1>2 DEF Transcript
    <3>2. z = 0 => Len(ms) = 0  BY <1>3, <3>1
    <3>3. z # 0  BY <1>3, <3>2, EmptySeq
    <3> QED  BY <3>3
  <2> QED  BY <1>1, <1>2, <2>1, TranscriptIsReloadable
<1> QED  BY <1>3, <1>4, <1>5, ReloadTold

(* A restart with the turns that were not handed over. *)
LEMMA ReloadDeltaTold ==
    ASSUME IngestAssumption, IngestInv, ToldInv, NEW w \in Workers, ReloadDelta(w)
    PROVE  ToldInv'
<1>1. PICK z \in Nat : z = Len(said) /\ DOMAIN said = 1 .. z  BY DEF IngestInv, IngestTypes
<1>2. PICK i \in 1 .. z : handed = 1 .. (i - 1) /\ Reload(w, Transcript(i, z), "delta")
  BY <1>1 DEF ReloadDelta
<1>3. PICK ms : ms = Transcript(i, z)  OBVIOUS
<1>4. i \in Nat /\ i >= 1 /\ i <= z /\ i <= z + 1  OBVIOUS
<1>5. ms \in Seq(Message) /\ ListOK(ms)  BY <1>1, <1>3, <1>4, TranscriptIsGenuine
<1>6. ASSUME Tellable PROVE i = Len(rows) + 1
  <2>1. PICK n \in Nat : n = Len(rows) /\ handed = 1 .. n
    BY <1>6 DEF IngestInv, IngestTypes, ToldInv, StoreTold
  <2>2. \A x \in Nat : x \in 1 .. (i - 1) <=> x \in 1 .. n  BY <1>2, <2>1
  <2>3. i - 1 <= n
    <3> SUFFICES ASSUME i - 1 > n PROVE FALSE  BY <2>1
    <3>1. n + 1 \in 1 .. (i - 1) /\ n + 1 \notin 1 .. n  BY <2>1
    <3> QED  BY <2>2, <3>1
  <2>4. n <= i - 1
    <3> SUFFICES ASSUME n > i - 1 PROVE FALSE  BY <2>1
    <3>1. i \in 1 .. n /\ i \notin 1 .. (i - 1)  BY <2>1
    <3> QED  BY <2>2, <3>1
  <2> QED  BY <2>1, <2>3, <2>4
<1>7. Tellable /\ ms # <<>> => \E b \in 0 .. Len(ms) : Reloadable(b, ms)
  BY <1>1, <1>3, <1>4, <1>6, TranscriptIsReloadable
<1>8. "delta" \in Kinds  BY DEF Kinds
<1> QED  BY <1>2, <1>3, <1>5, <1>7, <1>8, ReloadTold

(* A restart with a compacted list. *)
LEMMA ReloadCompactedTold ==
    ASSUME IngestAssumption, IngestInv, ToldInv, NEW w \in Workers, ReloadCompacted(w)
    PROVE  ToldInv'
<1>1. PICK u \in Workers : /\ \E i \in DOMAIN list[u] : IsScaffold(list[u][i])
                           /\ Reload(w, list[u], "compacted")
  BY DEF ReloadCompacted
<1>2. PICK ms \in Seq(Message), c \in Nat, d \in BOOLEAN, p \in Batch :
         /\ ms = list[u] /\ c = cursor[u] /\ d = needs[u] /\ p = pending[u]
         /\ WorkerInv(ms, c, d, p)
  BY WorkerTypes
<1>3. rows # <<>>  BY <1>1, <1>2 DEF WorkerInv, FromTheFirst
<1>4. ListOK(ms) /\ HeadOnly(ms)  BY <1>2 DEF WorkerInv, ListOK
<1>5. IsScaffold(ms[1])
  <2>1. PICK i \in DOMAIN ms : IsScaffold(ms[i])  BY <1>1, <1>2
  <2>2. 1 \in DOMAIN ms /\ 1 <= i  OBVIOUS
  <2> QED  BY <1>4, <2>1, <2>2 DEF HeadOnly
<1>6. ASSUME Tellable, ms # <<>> PROVE \E b \in 0 .. Len(ms) : Reloadable(b, ms)
  <2>1. WorkerTold(ms, c, d, p)  BY <1>2, <1>6 DEF ToldInv
  <2>2. PICK b \in 0 .. Len(ms) : ListTold(b, ms, d)  BY <1>6, <2>1 DEF WorkerTold
  <2>3. Follows(b, ms) /\ Ordered(ms) /\ Stretch(ms, d)  BY <2>2 DEF ListTold
  <2>4. Stretch(ms, TRUE)  BY <1>5, <2>3 DEF Stretch
  <2> QED  BY <1>3, <2>3, <2>4 DEF Reloadable
<1>7. "compacted" \in Kinds  BY DEF Kinds
<1> QED  BY <1>1, <1>2, <1>4, <1>6, <1>7, ReloadTold

-----------------------------------------------------------------------------
(* Before anything was said, everything can be told. *)
LEMMA ToldInitial == IngestAssumption /\ IngestInit => ToldInv
<1> SUFFICES ASSUME IngestAssumption, IngestInit PROVE ToldInv
  OBVIOUS
<1>1. ToldTypes  BY DEF IngestInit, ToldTypes
<1>2. StoreTold  BY DEF IngestInit, StoreTold
<1>3. OneServes  BY DEF IngestInit, OneServes
<1>4. \A u \in Workers : WorkerTold(list[u], cursor[u], needs[u], pending[u])
  BY DEF IngestInit, WorkerTold
<1> QED  BY <1>1, <1>2, <1>3, <1>4 DEF ToldInv

(* Every step keeps what can be told. *)
LEMMA ToldStep ==
    IngestAssumption /\ IngestInv /\ ToldInv /\ [IngestNext]_ingestVars => ToldInv'
<1> SUFFICES ASSUME IngestAssumption, IngestInv, ToldInv, [IngestNext]_ingestVars
             PROVE  ToldInv'
  OBVIOUS
<1>1. CASE UNCHANGED ingestVars  BY <1>1, TickTold DEF ingestVars
<1>2. ASSUME NEW w \in Workers, \E t \in Texts : Speak(w, t) PROVE ToldInv'
  BY <1>2, SpeakTold
<1>3. ASSUME NEW w \in Workers, Decide(w) PROVE ToldInv'  BY <1>3, DecideTold
<1>4. ASSUME NEW w \in Workers, AppendBatch(w) PROVE ToldInv'  BY <1>4, AppendTold
<1>5. ASSUME NEW w \in Workers, \E h \in Heads, k \in 0..MaxTurns : Compress(w, h, k)
      PROVE  ToldInv'
  BY <1>5, CompressTold
<1>6. ASSUME NEW w \in Workers, ReloadWhole(w) PROVE ToldInv'  BY <1>6, ReloadWholeTold
<1>7. ASSUME NEW w \in Workers, ReloadCompacted(w) PROVE ToldInv'
  BY <1>7, ReloadCompactedTold
<1>8. ASSUME NEW w \in Workers, ReloadDelta(w) PROVE ToldInv'  BY <1>8, ReloadDeltaTold
<1>9. CASE \E i \in DOMAIN rows : Rewrite(i)  BY <1>9, RewriteTold
<1>10. CASE Tick  BY <1>10, TickTold DEF Tick
<1> QED  BY <1>1, <1>2, <1>3, <1>4, <1>5, <1>6, <1>7, <1>8, <1>9, <1>10 DEF IngestNext

(* What the invariant says of the rows. *)
LEMMA ToldIsOnce == ASSUME IngestInv, ToldInv PROVE ToldTurnsStoredOnce
<1> SUFFICES ASSUME TurnsCanBeTold
             PROVE  /\ handed \subseteq {rows[r].turn : r \in DOMAIN rows}
                    /\ \A r \in 1 .. (Len(rows) - 1) : rows[r].turn < rows[r + 1].turn
  BY DEF ToldTurnsStoredOnce
<1>1. StoreTold  BY DEF ToldInv, Tellable
<1>2. PICK n \in Nat : n = Len(rows) /\ DOMAIN rows = 1 .. n  BY DEF IngestInv, IngestTypes
<1>3. handed = 1 .. n /\ \A r \in 1 .. n : rows[r].turn = r  BY <1>1, <1>2 DEF StoreTold
<1>4. \A r \in 1 .. (n - 1) : r \in 1 .. n /\ r + 1 \in 1 .. n /\ r < r + 1  BY <1>2
<1> QED  BY <1>2, <1>3, <1>4

(* As long as its turns can be told apart, a conversation is stored as it was *)
(* spoken: restarts, compactions, deltas and cleaned contexts neither lose a  *)
(* turn that was handed over nor repeat one, and the rows keep the order.     *)
THEOREM ToldTurnsAreStoredOnce == IngestSpec => []ToldTurnsStoredOnce
<1>1. IngestSpec => []ToldInv
  BY IngestAssumption, IngestSafe, ToldInitial, ToldStep, PTL DEF IngestSpec
<1>2. IngestInv /\ ToldInv => ToldTurnsStoredOnce  BY ToldIsOnce
<1> QED  BY <1>1, <1>2, IngestSafe, PTL
=================================================================================
