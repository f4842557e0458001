---------------------------- MODULE SubmissionProofs ---------------------------
(***************************************************************************)
(* Theorems about Submission, for any number of requests and crashes.      *)
(***************************************************************************)
EXTENDS Submission, TLAPS

(* What each step of a request has established.  Only the request that     *)
(* inserted the row is ever in Creating, so its job is its own.            *)
Before == { "put", "selectFile", "insertFile", "selectJob", "insertJob" }
Creating == { "validate", "queue", "enqueue" }

RequestInv(r) ==
  /\ pc[r] \in Before => r \notin jobs
  /\ pc[r] \in Creating => jobId[r] = r /\ r \in jobs
  /\ pc[r] = "enqueue" => jobState[r] = "queued"
  /\ pc[r] = "queue" => jobState[r] = "validated"
  /\ pc[r] = "validate" => jobState[r] = "received"
  /\ pc[r] = "reselect" => jobs # {}
  /\ pc[r] = "done" => jobId[r] \in jobs
  /\ enqueued[r] # 0 => pc[r] = "done" /\ enqueued[r] = 1 /\ jobState[r] = "queued"
  /\ created[r] => pc[r] = "done" /\ r \in jobs

OneRow == \A i, j \in jobs : i = j

Inv == TypeOK /\ OneRow /\ \A r \in Request : RequestInv(r)

(* The empty tables satisfy it.                                            *)
LEMMA InitInv == Init => Inv
<1> SUFFICES ASSUME Init PROVE Inv
  OBVIOUS
<1>1. TypeOK
  BY DEF Init, TypeOK, Step
<1>2. OneRow
  BY DEF Init, OneRow
<1>3. ASSUME NEW r \in Request PROVE RequestInv(r)
  BY DEF Init, RequestInv, Before, Creating
<1>. QED
  BY <1>1, <1>2, <1>3 DEF Inv

(* Every step of a request keeps it: the insert by KeyIsFree, the others   *)
(* because a request touches no row but its own.                           *)
LEMMA NextInv == Inv /\ [Next]_vars => Inv'
<1> SUFFICES ASSUME Inv, [Next]_vars PROVE Inv'
  OBVIOUS
<1> USE RequestAssumption DEF At, Goto, Inv, TypeOK, OneRow, RequestInv, Step, Before, Creating
<1>1. ASSUME NEW r \in Request, PutSource(r) PROVE Inv'
  BY <1>1 DEF PutSource
<1>2. ASSUME NEW r \in Request, SelectFile(r) PROVE Inv'
  BY <1>2 DEF SelectFile, rowVars
<1>3. ASSUME NEW r \in Request, InsertFile(r) PROVE Inv'
  BY <1>3 DEF InsertFile
<1>4. ASSUME NEW r \in Request, SelectJob(r) PROVE Inv'
  BY <1>4 DEF SelectJob, rowVars
<1>5. ASSUME NEW r \in Request, InsertJob(r) PROVE Inv'
  BY <1>5 DEF InsertJob, KeyIsFree, AfterConflict
<1>6. ASSUME NEW r \in Request, Reselect(r) PROVE Inv'
  BY <1>6 DEF Reselect, rowVars
<1>7. ASSUME NEW r \in Request, Validate(r) PROVE Inv'
  BY <1>7 DEF Validate, Advance
<1>8. ASSUME NEW r \in Request, Queue(r) PROVE Inv'
  BY <1>8 DEF Queue, Advance
<1>9. ASSUME NEW r \in Request, Enqueue(r) PROVE Inv'
  BY <1>9 DEF Enqueue
<1>10. ASSUME NEW r \in Request, Crash(r) PROVE Inv'
  BY <1>10 DEF Crash, rowVars
<1>11. ASSUME UNCHANGED vars PROVE Inv'
  BY <1>11 DEF vars
<1>. QED
  BY <1>1, <1>2, <1>3, <1>4, <1>5, <1>6, <1>7, <1>8, <1>9, <1>10, <1>11 DEF Next, RequestStep

(* So it holds throughout.                                                 *)
LEMMA Invariant == Spec => []Inv
BY InitInv, NextInv, PTL DEF Spec

--------------------------------------------------------------------------------

(* The rows and the requests keep their shape: FileRow, JobRow.            *)
THEOREM TypeCorrect == Spec => []TypeOK
<1>1. Inv => TypeOK
  BY DEF Inv
<1>. QED
  BY <1>1, Invariant, PTL

(* Identical submissions share one row, and every answer names it          *)
(* (submit_job, uq_jobs_kind_idempotency).                                 *)
THEOREM OneJobOnly == Spec => []OneJob
<1>1. Inv => OneJob
  BY DEF Inv, OneRow, RequestInv, OneJob, At
<1>. QED
  BY <1>1, Invariant, PTL

(* The id is pushed to the queue once, after the row says "queued", and    *)
(* one client at most is told that it created the job (submit_job).        *)
THEOREM AnnouncedOnlyOnce == Spec => []AnnouncedOnce
<1>1. Inv => AnnouncedOnce
  BY DEF Inv, OneRow, RequestInv, TypeOK, AnnouncedOnce
<1>. QED
  BY <1>1, Invariant, PTL
================================================================================
