------------------------------- MODULE Submission ------------------------------
(***************************************************************************)
(* Clients that hand in one and the same STEP file at the same time: POST  *)
(* /v1/files and then POST /v1/jobs (apps/api/main.py), which call         *)
(* register_file and submit_job (cad2ml/jobs/service.py).  All of them     *)
(* share one content hash and one idempotency key.  Jobs models what       *)
(* becomes of the job; here it is who creates it and what the others get.  *)
(*                                                                         *)
(* A request that has ended badly is retried by another member of Request. *)
(* An operator named Bug... is a wrong form of the operator after it.      *)
(***************************************************************************)
EXTENDS Naturals

CONSTANTS
  Request,     \* the clients' attempts at handing the file in
  None,        \* no file row, no job
  MaxCrashes   \* bound: requests that die between two steps

ASSUME RequestAssumption == None \notin Request /\ MaxCrashes \in Nat

VARIABLES
  source,      \* the bytes are in the artifact store
  files,       \* rows of files with this hash, named by the request that inserted them
  jobs,        \* rows of jobs with this key, named likewise
  jobState,    \* the state of such a row
  enqueued,    \* how often the id of such a row was pushed to the queue
  pc,          \* the next step of the request
  fileId,      \* the file row the client was told of
  jobId,       \* the job the client was told of
  created,     \* "created" of the answer to POST /v1/jobs
  crashes

vars == <<source, files, jobs, jobState, enqueued, pc, fileId, jobId, created, crashes>>
rowVars == <<source, files, jobs, jobState, enqueued>>

Step == { "put", "selectFile", "insertFile", "selectJob", "insertJob", "reselect",
          "validate", "queue", "enqueue" }

TypeOK ==
  /\ source \in BOOLEAN
  /\ files \subseteq Request
  /\ jobs \subseteq Request
  /\ jobState \in [Request -> {"absent", "received", "validated", "queued"}]
  /\ enqueued \in [Request -> Nat]
  /\ pc \in [Request -> Step \cup {"done", "failed"}]
  /\ fileId \in [Request -> Request \cup {None}]
  /\ jobId \in [Request -> Request \cup {None}]
  /\ created \in [Request -> BOOLEAN]
  /\ crashes \in Nat

Init ==
  /\ source = FALSE /\ files = {} /\ jobs = {}
  /\ jobState = [r \in Request |-> "absent"]
  /\ enqueued = [r \in Request |-> 0]
  /\ pc = [r \in Request |-> "put"]
  /\ fileId = [r \in Request |-> None]
  /\ jobId = [r \in Request |-> None]
  /\ created = [r \in Request |-> FALSE]
  /\ crashes = 0

Goto(r, label) == pc' = [pc EXCEPT ![r] = label]
At(r, label) == pc[r] = label
--------------------------------------------------------------------------------
(* POST /v1/files                                                          *)

\* The bytes are written (or found) before any row speaks of them.
PutSource(r) ==
  /\ At(r, "put")
  /\ source' = TRUE
  /\ Goto(r, "selectFile")
  /\ UNCHANGED <<files, jobs, jobState, enqueued, fileId, jobId, created, crashes>>

SelectFile(r) ==
  /\ At(r, "selectFile")
  /\ IF files = {}
     THEN Goto(r, "insertFile") /\ UNCHANGED fileId
     ELSE \E f \in files : fileId' = [fileId EXCEPT ![r] = f] /\ Goto(r, "selectJob")
  /\ UNCHANGED <<rowVars, jobId, created, crashes>>

\* The unique hash makes the commit of the second insert raise; nothing catches it.
InsertFile(r) ==
  /\ At(r, "insertFile")
  /\ IF files = {}
     THEN /\ files' = files \cup {r}
          /\ fileId' = [fileId EXCEPT ![r] = r]
          /\ Goto(r, "selectJob")
     ELSE Goto(r, "failed") /\ UNCHANGED <<files, fileId>>
  /\ UNCHANGED <<source, jobs, jobState, enqueued, jobId, created, crashes>>

--------------------------------------------------------------------------------
(* POST /v1/jobs: submit_job                                               *)

SelectJob(r) ==
  /\ At(r, "selectJob")
  /\ IF jobs = {}
     THEN Goto(r, "insertJob") /\ UNCHANGED jobId
     ELSE \E j \in jobs : jobId' = [jobId EXCEPT ![r] = j] /\ Goto(r, "done")
  /\ UNCHANGED <<rowVars, fileId, created, crashes>>

\* uq_jobs_kind_idempotency: the database takes one row of a key.
BugKeyIsFree == TRUE
KeyIsFree == jobs = {}
\* except IntegrityError: the loser looks the winner's row up.
BugAfterConflict == "validate"
AfterConflict == "reselect"

InsertJob(r) ==
  /\ At(r, "insertJob")
  /\ jobId' = [jobId EXCEPT ![r] = r]
  /\ IF KeyIsFree
     THEN /\ jobs' = jobs \cup {r}
          /\ jobState' = [jobState EXCEPT ![r] = "received"]
          /\ Goto(r, "validate")
     ELSE Goto(r, AfterConflict) /\ UNCHANGED <<jobs, jobState>>
  /\ UNCHANGED <<source, files, enqueued, fileId, created, crashes>>

Reselect(r) ==
  /\ At(r, "reselect")
  /\ \E j \in jobs : jobId' = [jobId EXCEPT ![r] = j]
  /\ Goto(r, "done")
  /\ UNCHANGED <<rowVars, fileId, created, crashes>>

Advance(j, src, dst) ==
  jobState' = [jobState EXCEPT ![j] = IF @ = src THEN dst ELSE @]

Validate(r) ==
  /\ At(r, "validate")
  /\ Advance(jobId[r], "received", "validated")
  /\ Goto(r, "queue")
  /\ UNCHANGED <<source, files, jobs, enqueued, fileId, jobId, created, crashes>>

Queue(r) ==
  /\ At(r, "queue")
  /\ Advance(jobId[r], "validated", "queued")
  /\ Goto(r, "enqueue")
  /\ UNCHANGED <<source, files, jobs, enqueued, fileId, jobId, created, crashes>>

Enqueue(r) ==
  /\ At(r, "enqueue")
  /\ enqueued' = [enqueued EXCEPT ![jobId[r]] = @ + 1]
  /\ created' = [created EXCEPT ![r] = TRUE]
  /\ Goto(r, "done")
  /\ UNCHANGED <<source, files, jobs, jobState, fileId, jobId, crashes>>

\* The request dies between two of its steps: the process is killed, or the
\* database or Valkey cannot be reached.
Crash(r) ==
  /\ pc[r] \in Step
  /\ crashes < MaxCrashes
  /\ crashes' = crashes + 1
  /\ Goto(r, "failed")
  /\ UNCHANGED <<rowVars, fileId, jobId, created>>

RequestStep(r) ==
  \/ PutSource(r) \/ SelectFile(r) \/ InsertFile(r)
  \/ SelectJob(r) \/ InsertJob(r) \/ Reselect(r)
  \/ Validate(r) \/ Queue(r) \/ Enqueue(r)

Next == \E r \in Request : RequestStep(r) \/ Crash(r)

Spec == Init /\ [][Next]_vars

\* A request that has not died goes on.
FairSpec == Spec /\ \A r \in Request : WF_vars(RequestStep(r))
--------------------------------------------------------------------------------
(* Correctness                                                             *)

(* Identical submissions share one job (submit_job): whatever the order of *)
(* their steps, the table has at most one row of the key, and every client *)
(* that got an answer was told of that row.                                *)
OneJob ==
  /\ \A i, j \in jobs : i = j
  /\ \A r \in Request : At(r, "done") => jobId[r] \in jobs

(* Only the request that created the row announces it: the job is queued   *)
(* once, and at most one client is told that it was created.               *)
AnnouncedOnce ==
  /\ \A j \in Request : enqueued[j] <= 1 /\ (enqueued[j] = 1 => jobState[j] = "queued")
  /\ \A q, r \in Request : created[q] /\ created[r] => q = r

(* An idempotent answer is as good as the first one: the job a client was  *)
(* told of reaches the queue, unless a request has died on the way.        *)
AnsweredIsQueued ==
  \A r \in Request :
    At(r, "done") ~> (crashes > 0 \/ \E j \in jobs : jobId[r] = j /\ enqueued[j] = 1)
================================================================================
