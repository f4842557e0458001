--------------------------------- MODULE Samples -------------------------------
(***************************************************************************)
(* The life of one sample in the artifact store: calls of process_source   *)
(* (cad2ml/pipeline.py) for the same bytes and configuration, made by      *)
(* workers and by the command line, one after another or at the same time, *)
(* over LocalFSStore (cad2ml/storage/base.py).  The sample has one place,  *)
(* the directory samples/<sample_id>; a call builds its result in a        *)
(* directory of its own under staging/ and moves it there.                 *)
(*                                                                         *)
(* One action is one operation of the file system that others can see.  A  *)
(* call may die between any two.  A call that raises has left staging      *)
(* behind it clean (its finally clause); a call that dies has not.         *)
(* An operator named Bug... is a wrong form of the operator after it.      *)
(***************************************************************************)
EXTENDS Naturals

CONSTANTS
  Call,        \* the calls of process_source
  None,        \* no directory, no manifest
  Ends,        \* how extraction may end, see End
  MaxCrashes   \* bound: calls that die between two steps

\* What run_isolated gives the call: a result; a PipelineError whose outcome is
\* kept ("failed"), one that may be the host's fault ("environment"); or an
\* exception of another kind ("raise"), such as one of the progress callback.
End == { "completed", "failed", "environment", "raise" }

ASSUME CallAssumption == None \notin Call /\ Ends \subseteq End /\ MaxCrashes \in Nat

VARIABLES
  source,      \* the content-addressed copy of the bytes is stored
  dir,         \* samples/<sample_id>: a Directory, or None
  superseded,  \* the directories under superseded/<sample_id>-...
  staging,     \* the directories under staging/, by key
  quarantine,  \* the calls with an audit record under quarantine/<sample_id>/
  pc,
  forced,      \* the call has reuse_existing=False
  named,       \* its file name has an accepted extension
  made,        \* what the call has come to
  returned,    \* whose manifest the call has returned
  crashes

vars == <<source, dir, superseded, staging, quarantine, pc, forced, named, made, returned, crashes>>

\* A manifest and the artifacts beside it are named by the call that wrote them.
Directory == [manifest : Call \cup {None}, parts : SUBSET Call, tmp : SUBSET Call]
EmptyDir == [manifest |-> None, parts |-> {}, tmp |-> {}]

ASSUME NoneAssumption == None \notin Directory

Running == { "lookup", "load", "source", "extract", "work", "assemble", "check", "supersede",
             "promote", "replace", "mkdir", "tmp", "write", "record" }

TypeOK ==
  /\ source \in BOOLEAN
  /\ dir \in Directory \cup {None}
  /\ superseded \subseteq Directory
  /\ staging \in [Call -> Directory \cup {None}]
  /\ quarantine \subseteq Call
  /\ pc \in [Call -> Running \cup {"new", "done", "raised", "dead"}]
  /\ forced \in [Call -> BOOLEAN]
  /\ named \in [Call -> BOOLEAN]
  /\ made \in [Call -> {"none", "completed", "failed", "environment"}]
  /\ returned \in [Call -> Call \cup {None}]
  /\ crashes \in Nat

Init ==
  /\ source = FALSE /\ dir = None /\ superseded = {} /\ quarantine = {} /\ crashes = 0
  /\ staging = [c \in Call |-> None]
  /\ pc = [c \in Call |-> "new"]
  /\ forced \in [Call -> BOOLEAN]
  /\ named \in [Call -> BOOLEAN]
  /\ made = [c \in Call |-> "none"]
  /\ returned = [c \in Call |-> None]

At(c, label) == pc[c] = label
Goto(c, label) == pc' = [pc EXCEPT ![c] = label]
Return(c, m) == returned' = [returned EXCEPT ![c] = m]
ManifestExists == dir # None /\ dir.manifest # None

\* The key staging/<sample_id>-<8 random hex digits>.
BugStagingOf(c) == CHOOSE d \in Call : TRUE
StagingOf(c) == c
BugDropStaging(c) == UNCHANGED staging
DropStaging(c) == staging' = [staging EXCEPT ![StagingOf(c)] = None]

\* ENVIRONMENT_SENSITIVE_CODES: only an audit record, the sample stays open.
BugRecordOf(end) == "mkdir"
RecordOf(end) == IF end = "environment" THEN "record" ELSE "mkdir"
--------------------------------------------------------------------------------
(* Intake and reuse                                                        *)

\* A name that intake refuses ends in a failure manifest before the sample is
\* looked up: the id depends on the bytes alone.
Begin(c) ==
  /\ At(c, "new")
  /\ IF named[c]
     THEN Goto(c, IF forced[c] THEN "source" ELSE "lookup") /\ UNCHANGED made
     ELSE Goto(c, RecordOf("failed")) /\ made' = [made EXCEPT ![c] = "failed"]
  /\ UNCHANGED <<source, dir, superseded, staging, quarantine, forced, named, returned, crashes>>

\* load_manifest: exists, then get_bytes.
Lookup(c) ==
  /\ At(c, "lookup")
  /\ Goto(c, IF ManifestExists THEN "load" ELSE "source")
  /\ UNCHANGED <<source, dir, superseded, staging, quarantine, forced, named, made, returned, crashes>>

Load(c) ==
  /\ At(c, "load")
  /\ IF ManifestExists
     THEN Return(c, dir.manifest) /\ Goto(c, "done")
     ELSE Goto(c, "raised") /\ UNCHANGED returned
  /\ UNCHANGED <<source, dir, superseded, staging, quarantine, forced, named, made, crashes>>

BugStored == source
Stored == TRUE
PutSource(c) ==
  /\ At(c, "source")
  /\ source' = Stored
  /\ Goto(c, "extract")
  /\ UNCHANGED <<dir, superseded, staging, quarantine, forced, named, made, returned, crashes>>

--------------------------------------------------------------------------------
(* Extraction in staging                                                   *)

\* The child writes its artifacts, one file after another.
Extract(c) ==
  /\ At(c, "extract")
  /\ LET old == staging[StagingOf(c)] IN
     staging' = [staging EXCEPT ![StagingOf(c)] =
       IF old = None THEN [EmptyDir EXCEPT !.parts = {c}] ELSE [old EXCEPT !.parts = @ \cup {c}]]
  /\ Goto(c, "work")
  /\ UNCHANGED <<source, dir, superseded, quarantine, forced, named, made, returned, crashes>>

ExtractionCompletes(c) ==
  /\ At(c, "work") /\ "completed" \in Ends
  /\ made' = [made EXCEPT ![c] = "completed"]
  /\ Goto(c, "assemble")
  /\ UNCHANGED <<source, dir, superseded, staging, quarantine, forced, named, returned, crashes>>

\* except PipelineError: staging is deleted, then the failure is recorded.
ExtractionFails(c) ==
  /\ At(c, "work")
  /\ \E end \in Ends \cap {"failed", "environment"} :
       /\ made' = [made EXCEPT ![c] = end]
       /\ Goto(c, RecordOf(end))
  /\ DropStaging(c)
  /\ UNCHANGED <<source, dir, superseded, quarantine, forced, named, returned, crashes>>

ExtractionRaises(c) ==
  /\ At(c, "work") /\ "raise" \in Ends
  /\ DropStaging(c)
  /\ Goto(c, "raised")
  /\ UNCHANGED <<source, dir, superseded, quarantine, forced, named, made, returned, crashes>>

\* Only a forced run makes room for its result.
BugAfterAssembly(c) == "check"
AfterAssembly(c) == IF forced[c] THEN "check" ELSE "promote"

\* The manifest is the last file of the staging directory.
Assemble(c) ==
  /\ At(c, "assemble") /\ staging[StagingOf(c)] # None
  /\ staging' = [staging EXCEPT ![StagingOf(c)].manifest = c]
  /\ Goto(c, AfterAssembly(c))
  /\ UNCHANGED <<source, dir, superseded, quarantine, forced, named, made, returned, crashes>>

--------------------------------------------------------------------------------
(* Promotion                                                               *)

\* There is room to be made if there is a manifest.
ForcedCheck(c) ==
  /\ At(c, "check")
  /\ Goto(c, IF ManifestExists THEN "supersede" ELSE "promote")
  /\ UNCHANGED <<source, dir, superseded, staging, quarantine, forced, named, made, returned, crashes>>

\* promote_prefix to superseded/, whose name no other call picks.
BugKeptVersions == superseded
KeptVersions == superseded \cup {dir}
BugMaySupersede == TRUE
MaySupersede == dir # None
Supersede(c) ==
  /\ At(c, "supersede")
  /\ IF MaySupersede
     THEN /\ superseded' = KeptVersions
          /\ dir' = None
          /\ Goto(c, "promote")
          /\ UNCHANGED staging
     ELSE DropStaging(c) /\ Goto(c, "raised") /\ UNCHANGED <<dir, superseded>>
  /\ UNCHANGED <<source, quarantine, forced, named, made, returned, crashes>>

\* promote_prefix to samples/: what is there already wins, whatever it is.
MayPromote == dir = None
Promote(c) ==
  /\ At(c, "promote")
  /\ IF MayPromote
     THEN Goto(c, "replace") /\ UNCHANGED <<staging, returned>>
     ELSE DropStaging(c) /\ Return(c, c) /\ Goto(c, "done")
  /\ UNCHANGED <<source, dir, superseded, quarantine, forced, named, made, crashes>>

\* os.replace takes the place of nothing or of an empty directory, and raises
\* if a call has written to it since.
MayReplace == dir = None \/ dir = EmptyDir
Replace(c) ==
  /\ At(c, "replace")
  /\ IF MayReplace
     THEN dir' = staging[StagingOf(c)] /\ Return(c, c) /\ Goto(c, "done")
     ELSE Goto(c, "raised") /\ UNCHANGED <<dir, returned>>
  /\ DropStaging(c)
  /\ UNCHANGED <<source, superseded, quarantine, forced, named, made, crashes>>

--------------------------------------------------------------------------------
(* _finalize_failure: put_bytes is mkdir, a temporary file, os.replace     *)

MakeDir(c) ==
  /\ At(c, "mkdir")
  /\ dir' = IF dir = None THEN EmptyDir ELSE dir
  /\ Goto(c, "tmp")
  /\ UNCHANGED <<source, superseded, staging, quarantine, forced, named, made, returned, crashes>>

WriteTmp(c) ==
  /\ At(c, "tmp")
  /\ IF dir # None
     THEN dir' = [dir EXCEPT !.tmp = @ \cup {c}] /\ Goto(c, "write")
     ELSE Goto(c, "raised") /\ UNCHANGED dir
  /\ UNCHANGED <<source, superseded, staging, quarantine, forced, named, made, returned, crashes>>

\* Whatever manifest is there is replaced.
WriteFailure(c) ==
  /\ At(c, "write")
  /\ IF dir # None /\ c \in dir.tmp
     THEN /\ dir' = [dir EXCEPT !.tmp = @ \ {c}, !.manifest = c]
          /\ Return(c, c)
          /\ Goto(c, "done")
     ELSE Goto(c, "raised") /\ UNCHANGED <<dir, returned>>
  /\ UNCHANGED <<source, superseded, staging, quarantine, forced, named, made, crashes>>

RecordQuarantine(c) ==
  /\ At(c, "record")
  /\ quarantine' = quarantine \cup {c}
  /\ Return(c, c)
  /\ Goto(c, "done")
  /\ UNCHANGED <<source, dir, superseded, staging, forced, named, made, crashes>>

\* The process of the call is killed.
Crash(c) ==
  /\ pc[c] \in Running
  /\ crashes < MaxCrashes
  /\ crashes' = crashes + 1
  /\ Goto(c, "dead")
  /\ UNCHANGED <<source, dir, superseded, staging, quarantine, forced, named, made, returned>>

Step(c) ==
  \/ Begin(c) \/ Lookup(c) \/ Load(c) \/ PutSource(c)
  \/ Extract(c) \/ ExtractionCompletes(c) \/ ExtractionFails(c) \/ ExtractionRaises(c)
  \/ Assemble(c) \/ ForcedCheck(c) \/ Supersede(c) \/ Promote(c) \/ Replace(c)
  \/ MakeDir(c) \/ WriteTmp(c) \/ WriteFailure(c) \/ RecordQuarantine(c)

Next == \E c \in Call : Step(c) \/ Crash(c)

Spec == Init /\ [][Next]_vars
--------------------------------------------------------------------------------
(* Correctness                                                             *)

Directories == superseded \cup ({dir} \ {None})

(* "Readers only ever observe either no directory or a complete one"       *)
(* (promote_prefix): wherever a completed manifest is read, the artifacts  *)
(* beside it are those it describes, of the same call and of no other,     *)
(* however calls, forced reruns, failures and crashes interleave.          *)
CompletedIsWhole ==
  \A d \in Directories :
    d.manifest # None /\ made[d.manifest] = "completed" => d.parts = {d.manifest}

(* Artifacts that were promoted once stay in the store: a forced rerun     *)
(* moves them to superseded/, and nothing else takes them away.            *)
Holds(dirs, c) == \E d \in dirs : c \in d.parts
ArtifactsAreKept ==
  [][\A c \in Call : Holds(Directories, c) => Holds(Directories', c)]_vars

(* A timeout or a native crash "must not permanently pin the sample's      *)
(* outcome" (_finalize_failure): no such manifest is where a later call    *)
(* would find it.                                                          *)
EnvironmentDoesNotPin ==
  \A d \in Directories : d.manifest # None => made[d.manifest] # "environment"

(* A manifest that says its source is stored says so truly.                *)
SourceIsThere ==
  \A d \in Directories : d.manifest # None /\ named[d.manifest] => source

(* Idempotency: among calls that neither force a rerun nor fail, one that  *)
(* has answered "completed" can rely on a completed sample being stored,   *)
(* its own or that of the call that overtook it.                           *)
Quiet == \A c \in Call : ~forced[c] /\ made[c] # "failed"
CompletedIsFound ==
  Quiet =>
    \A c \in Call :
      returned[c] # None /\ made[returned[c]] = "completed"
        => ManifestExists /\ made[dir.manifest] = "completed"

(* Only a call that has died leaves a staging directory behind.            *)
NoStagingLeft ==
  \A c \in Call : pc[c] \in {"done", "raised"} => staging[StagingOf(c)] = None

(* "If the destination already exists (idempotent rerun) the staging copy  *)
(* is discarded" (promote_prefix): what is discarded is a copy.  When all  *)
(* calls have ended and one of them has answered "completed", there is a   *)
(* manifest for the next call to find.                                     *)
AnsweredIsStored ==
  /\ \A c \in Call : pc[c] \in {"done", "raised", "dead"}
  /\ \E c \in Call : returned[c] # None /\ made[returned[c]] = "completed"
  => \E d \in Directories : d.manifest # None
================================================================================
