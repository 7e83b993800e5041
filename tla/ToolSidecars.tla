---------------------------- MODULE ToolSidecars ------------------------------
(***************************************************************************)
(* Large tool outputs live in files beside the database ("sidecars"); a    *)
(* row or a summary then holds a reference.  Engines write them while they *)
(* ingest, serialize a chunk for the summary model or collect transcripts; *)
(* an operator's script creates them for old rows, under a journal that    *)
(* survives its death, and takes back what nothing refers to.  The script  *)
(* runs while every engine of the profile is stopped.                      *)
(***************************************************************************)
EXTENDS Integers, FiniteSets

CONSTANTS Writers,   \* processes that use the profile
          Outputs,   \* tool outputs: content, call and session
          MaxFiles   \* bounds the names that are given to files

VARIABLES files,    \* the directory: names, with what is in them
          issued,   \* names given so far; they carry a random suffix
          held,     \* what the row of each output holds
          cited,    \* names that summaries refer to
          work,     \* what each engine is about to do
          journal,  \* the script's manifest on disk
          script,   \* the running script
          unsynced  \* a ghost: names whose writer could not make them durable

sidecarVars == <<files, issued, held, cited, work, journal, script, unsynced>>

NoRow == -1   \* no row yet
Inline == 0    \* the row holds the output itself

AtRest == [doing |-> "nothing", at |-> "-"]
NoScript == [doing |-> "nothing"]
EmptyJournal == [pending |-> {}, owned |-> {}, complete |-> FALSE]

\* An output that came in before the feature was switched on is held inline.
SidecarsInit == /\ files = << >>
                /\ issued = 0
                /\ held \in [Outputs -> {NoRow, Inline}]
                /\ cited = {}
                /\ work = [e \in Writers |-> AtRest]
                /\ journal = EmptyJournal
                /\ script = NoScript
                /\ unsynced = {}

NewName == issued + 1
Whole(r) == r \in DOMAIN files /\ files[r].whole
Referenced == cited \cup {held[o] : o \in Outputs}

\* A file that cannot be decoded, or holds something else, is passed over.
Found(o) == {r \in DOMAIN files : Whole(r) /\ files[r].of = o}

With(r, f) == [n \in DOMAIN files \cup {r} |-> IF n = r THEN f ELSE files[n]]
Without(r) == [n \in DOMAIN files \ {r} |-> files[n]]

Quiet == \A e \in Writers : work[e] = AtRest
Stopped == script = NoScript

-----------------------------------------------------------------------------
(* Engines.                                                                *)

Turn(e, w) == work' = [work EXCEPT ![e] = w]

\* A tool result arrives; a chunk with it is prepared for the summary model;
\* a row that a summary covers is collected.
BeginWork(e, o) ==
    /\ work[e] = AtRest /\ Stopped
    /\ \E task \in {"ingest", "serialize", "collect"} :
          /\ (task = "ingest") = (held[o] = NoRow)
          /\ task = "collect" => held[o] = Inline
          /\ Turn(e, [doing |-> task, at |-> "find", of |-> o])
    /\ UNCHANGED <<files, issued, held, cited, journal, script, unsynced>>

\* It goes on with the name of a file, or with none.
Keep(e, step, r) ==
    Turn(e, [doing |-> work[e].doing, at |-> step, of |-> work[e].of, ref |-> r])

Find(e) ==
    /\ work[e].at = "find"
    /\ LET o == work[e].of
       IN  IF Found(o) # {}
           THEN /\ \E r \in Found(o) : Keep(e, "commit", r)
                /\ UNCHANGED <<files, issued>>
           ELSE IF work[e].doing = "collect"
           THEN /\ Keep(e, "commit", Inline)
                /\ UNCHANGED <<files, issued>>
           ELSE /\ issued < MaxFiles
                /\ files' = With(NewName, [of |-> o, whole |-> FALSE, by |-> "engine"])
                /\ issued' = NewName
                /\ Keep(e, "write", NewName)
    /\ UNCHANGED <<held, cited, journal, script, unsynced>>

WriteWhole(e) ==
    /\ work[e].at = "write"
    /\ files' = With(work[e].ref, [files[work[e].ref] EXCEPT !.whole = TRUE])
    /\ Turn(e, [work[e] EXCEPT !.at = "sync"])
    /\ UNCHANGED <<issued, held, cited, journal, script, unsynced>>

Synced(e) ==
    /\ work[e].at = "sync"
    /\ Turn(e, [work[e] EXCEPT !.at = "commit"])
    /\ UNCHANGED <<files, issued, held, cited, journal, script, unsynced>>

\* The write or the sync fails: the file is removed, the output stays inline.
FailWrite(e) ==
    /\ work[e].at \in {"write", "sync"}
    /\ files' = Without(work[e].ref)
    /\ unsynced' = IF work[e].at = "sync" THEN unsynced \cup {work[e].ref} ELSE unsynced
    /\ Turn(e, [work[e] EXCEPT !.at = "commit", !.ref = Inline])
    /\ UNCHANGED <<issued, held, cited, journal, script>>

\* The row is written, rewritten, or left; a summary quotes the reference, or
\* is not made or does not quote it.
Commit(e) ==
    /\ work[e].at = "commit"
    /\ LET w == work[e]
       IN  IF w.doing = "serialize"
           THEN /\ cited' \in {cited, cited \cup ({w.ref} \ {Inline})}
                /\ UNCHANGED held
           ELSE /\ held' = [held EXCEPT ![w.of] = IF @ = NoRow \/ w.ref # Inline
                                                  THEN w.ref ELSE @]
                /\ UNCHANGED cited
    /\ Turn(e, AtRest)
    /\ UNCHANGED <<files, issued, journal, script, unsynced>>

WriterDies(e) ==
    /\ work[e] # AtRest
    /\ Turn(e, AtRest)
    /\ UNCHANGED <<files, issued, held, cited, journal, script, unsynced>>

-----------------------------------------------------------------------------
(* The script creates sidecars.                                            *)

EntryOf(o) == {p \in journal.pending : p.of = o}

\* The manifest is read, or a new one begun, and marked as being applied.
BeginApply ==
    /\ Stopped /\ Quiet
    /\ script' = [doing |-> "apply", todo |-> {o \in Outputs : held[o] = Inline}]
    /\ journal' = [journal EXCEPT !.complete = FALSE]
    /\ UNCHANGED <<files, issued, held, cited, work, unsynced>>

\* A row without an entry and without a file gets a name, and the journal has
\* it before there is a file.
PromisedLater(p) == journal
Promised(p) == [journal EXCEPT !.pending = @ \cup {p}]

VisitRow(o) ==
    /\ script.doing = "apply" /\ o \in script.todo
    /\ IF EntryOf(o) # {}
       THEN /\ \E p \in EntryOf(o) :
                  script' = [doing |-> "make", todo |-> script.todo \ {o}, entry |-> p]
            /\ UNCHANGED <<journal, issued>>
       ELSE IF Found(o) # {}
       THEN /\ script' = [script EXCEPT !.todo = @ \ {o}]
            /\ UNCHANGED <<journal, issued>>
       ELSE /\ issued < MaxFiles
            /\ LET p == [of |-> o, ref |-> NewName]
               IN  /\ script' = [doing |-> "make", todo |-> script.todo \ {o}, entry |-> p]
                   /\ journal' = Promised(p)
            /\ issued' = NewName
    /\ UNCHANGED <<files, held, cited, work, unsynced>>

\* The file is renamed into its place as a whole; one of an earlier run is
\* taken as it is.
MakeFile ==
    /\ script.doing = "make"
    /\ files' = IF Whole(script.entry.ref) THEN files
                ELSE With(script.entry.ref,
                          [of |-> script.entry.of, whole |-> TRUE, by |-> "script"])
    /\ script' = [script EXCEPT !.doing = "own"]
    /\ UNCHANGED <<issued, held, cited, work, journal, unsynced>>

\* A failure is counted, and the entry stays for a later run.
FailFile ==
    /\ script.doing = "make" /\ ~Whole(script.entry.ref)
    /\ script' = [doing |-> "apply", todo |-> script.todo]
    /\ UNCHANGED <<files, issued, held, cited, work, journal, unsynced>>

Own ==
    /\ script.doing = "own"
    /\ journal' = [journal EXCEPT !.pending = @ \ {script.entry},
                                  !.owned = @ \cup {script.entry}]
    /\ script' = [doing |-> "apply", todo |-> script.todo]
    /\ UNCHANGED <<files, issued, held, cited, work, unsynced>>

EndApply ==
    /\ script.doing = "apply" /\ script.todo = {}
    /\ journal' = [journal EXCEPT !.complete = journal.pending = {}]
    /\ script' = NoScript
    /\ UNCHANGED <<files, issued, held, cited, work, unsynced>>

-----------------------------------------------------------------------------
(* The script takes sidecars back.                                         *)

\* Rows, their tool calls and summaries are searched for references first.
RowReferences == {held[o] : o \in Outputs}
Collected == Referenced

BeginRollback ==
    /\ Stopped /\ Quiet
    /\ journal.complete /\ journal.pending = {}
    /\ script' = [doing |-> "rollback",
                  refs |-> {p.ref : p \in {q \in journal.owned :
                               /\ Whole(q.ref) /\ files[q.ref].by = "script"
                               /\ q.ref \notin Collected}}]
    /\ UNCHANGED <<files, issued, held, cited, work, journal, unsynced>>

\* Files are moved aside and removed one by one; the journal is not changed.
TakeBack(r) ==
    /\ script.doing = "rollback" /\ r \in script.refs
    /\ files' = Without(r)
    /\ script' = [script EXCEPT !.refs = @ \ {r}]
    /\ UNCHANGED <<issued, held, cited, work, journal, unsynced>>

EndRollback ==
    /\ script.doing = "rollback" /\ script.refs = {}
    /\ script' = NoScript
    /\ UNCHANGED <<files, issued, held, cited, work, journal, unsynced>>

ScriptDies ==
    /\ script # NoScript
    /\ script' = NoScript
    /\ UNCHANGED <<files, issued, held, cited, work, journal, unsynced>>

SidecarsNext ==
    \/ \E e \in Writers : \/ Find(e) \/ WriteWhole(e) \/ Synced(e) \/ FailWrite(e)
                          \/ Commit(e) \/ WriterDies(e)
                          \/ \E o \in Outputs : BeginWork(e, o)
    \/ BeginApply \/ (\E o \in Outputs : VisitRow(o)) \/ MakeFile \/ FailFile \/ Own \/ EndApply
    \/ BeginRollback \/ (\E r \in 1 .. issued : TakeBack(r)) \/ EndRollback \/ ScriptDies

SidecarsSpec == SidecarsInit /\ [][SidecarsNext]_sidecarVars

-----------------------------------------------------------------------------
\* A reference in a row or a summary leads to the whole output, whatever died
\* and whatever was taken back since; only a writer whose sync failed after
\* others could read its file takes it away from them.
ReferencesResolve ==
    \A r \in Referenced \ {NoRow, Inline} : Whole(r) \/ r \in unsynced

\* Every file the script made is named by exactly one entry of its journal at
\* any moment, so that a later run or a rollback knows it, and no interrupted
\* run makes a second file for an output.
MadeIsJournalled ==
    \A r \in DOMAIN files : files[r].by = "script" =>
        /\ Cardinality({p \in journal.pending \cup journal.owned : p.ref = r}) = 1
        /\ \A n \in DOMAIN files : files[n].by = "script" /\ files[n].of = files[r].of => n = r
=============================================================================
