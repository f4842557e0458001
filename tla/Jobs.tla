---------------------------------- MODULE Jobs ---------------------------------
(***************************************************************************)
(* The job system of CAD2ML: the API submits jobs (cad2ml/jobs/service.py),*)
(* worker processes claim and run them (apps/worker/main.py), every worker *)
(* also reaps expired leases and reconciles the queue with the database.   *)
(*                                                                         *)
(* One action is one atomic step of the program: one database transaction, *)
(* one Valkey command, or a local decision between two of them.  A process *)
(* may die between any two.  What a worker does next is pc[w].             *)
(*                                                                         *)
(* An operator named Bug... is not part of the model: it is a wrong form   *)
(* of the operator after it, kept to show which property notices.          *)
(***************************************************************************)
EXTENDS Naturals, Sequences, FiniteSets, JobStates

CONSTANTS
  Job,          \* the jobs that may be submitted (one idempotency key each)
  TrainJobs,    \* those of kind "train"; the others are of kind "process"
  Worker,       \* the worker processes that run at the same time
  None,         \* no worker, no job
  MaxAttempts,  \* Settings.max_attempts, of process jobs
  Outcomes,     \* how a run of the pipeline may end; "raise" is an exception
  MaxCrashes,   \* bound: processes that die between two steps
  MaxStops,     \* bound: SIGTERMs sent to workers
  MaxPauses,    \* bound: leases that expire although the worker is running
  MaxLosses     \* bound: times the queue is emptied

OutcomeSet == { "completed", "rejected", "quarantined", "timed_out",
                "failed_retryable", "failed_terminal", "raise" }

ASSUME ConstantsAssumption ==
  /\ TrainJobs \subseteq Job
  /\ None \notin Job \cup Worker
  /\ MaxAttempts \in Nat \ {0}
  /\ Outcomes \subseteq OutcomeSet
  /\ MaxCrashes \in Nat /\ MaxStops \in Nat /\ MaxPauses \in Nat /\ MaxLosses \in Nat

VARIABLES
  \* the rows of the jobs table (PostgreSQL)
  state,        \* "absent" before the row is inserted
  attempts,
  owner,        \* worker_id; None also for the id of a process that has died
  lease,        \* lease_expires_at: "none", "live" or "expired" (in the past)
  aged,         \* updated_at is older than the reconciler's min_age_s
  queuedEvents, \* how many rows of job_events say "queued"
  \* the list cad2ml:queue (Valkey); its head is the end that reserve pops
  queue,
  \* the API request that submits each job
  api,
  \* the worker processes
  pc,           \* the next step of the main thread
  job,          \* the job it handles, or the job it is reaping
  cur,          \* state["cur"] of _run_processing, then `state` of the handler
  stage,        \* how many of the pipeline's stages it has announced
  att,          \* attempts as the claim returned it
  rows,         \* the rows the reaper selected
  ids,          \* the reconciler's `present`, then `missing`
  stopping,     \* the stop event is set: the heartbeat thread has ended
  \* what has been spent of each bound
  crashes, stops, pauses, losses

dbVars == <<state, attempts, owner, lease, aged, queuedEvents>>
workerVars == <<pc, job, cur, stage, att, rows, ids, stopping>>
budgetVars == <<crashes, stops, pauses, losses>>
vars == <<dbVars, queue, api, workerVars, budgetVars>>

--------------------------------------------------------------------------------
(* Types                                                                   *)

\* current is set: the heartbeat thread refreshes the lease of job[w].
Handling == { "beat", "run", "retry", "requeue", "enqueue", "exhaust", "except", "fail" }
Reaping == { "reapRequeue", "reapEnqueue", "reapExhaust" }
PC == Handling \cup Reaping \cup
      { "down", "loop", "reserve", "claim", "ack", "reap", "reconcile", "reenqueue" }

\* Stages of the pipeline that are also states of the job, in their order.
Stage == <<"normalizing", "extracting", "validating_outputs">>

Row == [job : Job, state : IN_FLIGHT, attempts : Nat]

TypeOK ==
  /\ state \in [Job -> JobState \cup {"absent"}]
  /\ attempts \in [Job -> Nat]
  /\ owner \in [Job -> Worker \cup {None}]
  /\ lease \in [Job -> {"none", "live", "expired"}]
  /\ aged \in [Job -> BOOLEAN]
  /\ queuedEvents \in [Job -> Nat]
  /\ queue \in Seq(Job)
  /\ api \in [Job -> {"idle", "received", "validated", "queued", "done", "dead"}]
  /\ pc \in [Worker -> PC]
  /\ job \in [Worker -> Job \cup {None}]
  /\ cur \in [Worker -> JobState \cup {None}]
  /\ stage \in [Worker -> 0..Len(Stage)]
  /\ att \in [Worker -> Nat]
  /\ rows \in [Worker -> SUBSET Row]
  /\ ids \in [Worker -> SUBSET Job]
  /\ stopping \in [Worker -> BOOLEAN]
  /\ crashes \in Nat /\ stops \in Nat /\ pauses \in Nat /\ losses \in Nat

Init ==
  /\ state = [j \in Job |-> "absent"]
  /\ attempts = [j \in Job |-> 0]
  /\ owner = [j \in Job |-> None]
  /\ lease = [j \in Job |-> "none"]
  /\ aged = [j \in Job |-> FALSE]
  /\ queuedEvents = [j \in Job |-> 0]
  /\ queue = <<>>
  /\ api = [j \in Job |-> "idle"]
  /\ pc = [w \in Worker |-> "loop"]
  /\ job = [w \in Worker |-> None]
  /\ cur = [w \in Worker |-> None]
  /\ stage = [w \in Worker |-> 0]
  /\ att = [w \in Worker |-> 0]
  /\ rows = [w \in Worker |-> {}]
  /\ ids = [w \in Worker |-> {}]
  /\ stopping = [w \in Worker |-> FALSE]
  /\ crashes = 0 /\ stops = 0 /\ pauses = 0 /\ losses = 0

--------------------------------------------------------------------------------
(* Helpers                                                                 *)

MaxAttemptsOf(j) == IF j \in TrainJobs THEN 1 ELSE MaxAttempts
First(j) == IF j \in TrainJobs THEN "training" ELSE "parsing"

\* Database.transition, for a legal pair: a compare-and-set on the state alone.
\* Neither the worker that asks nor the attempt it works on is compared.
BugWonUnchecked(j, src) == state[j] # "absent"
Won(j, src) == state[j] = src
Transition(j, src, dst) ==
  /\ IF Won(j, src)
     THEN /\ state' = [state EXCEPT ![j] = dst]
          /\ aged' = [aged EXCEPT ![j] = FALSE]
          /\ queuedEvents' = [queuedEvents EXCEPT ![j] = IF dst = "queued" THEN @ + 1 ELSE @]
     ELSE UNCHANGED <<state, aged, queuedEvents>>
  /\ UNCHANGED <<attempts, owner, lease>>

Enqueue(j) == queue' = Append(queue, j)
At(w, label) == pc[w] = label
Goto(w, label) == pc' = [pc EXCEPT ![w] = label]

\* The job whose lease the heartbeat thread of w refreshes (Worker.current).
Current(w) == IF pc[w] \in Handling THEN job[w] ELSE None
Beating(w) == Current(w) # None /\ ~stopping[w]

\* Every row that w owns, as seen when w's process id is gone for good.
Disown(w) == owner' = [j \in Job |-> IF owner[j] = w THEN None ELSE owner[j]]
\* A process that ends forgets its locals.
Forget(w) ==
  /\ job' = [job EXCEPT ![w] = None]
  /\ cur' = [cur EXCEPT ![w] = None]
  /\ stage' = [stage EXCEPT ![w] = 0]
  /\ att' = [att EXCEPT ![w] = 0]
  /\ rows' = [rows EXCEPT ![w] = {}]
  /\ ids' = [ids EXCEPT ![w] = {}]
  /\ stopping' = [stopping EXCEPT ![w] = FALSE]

--------------------------------------------------------------------------------
(* The API: submit_job, four steps that a crash may separate               *)

SubmitInsert(j) ==
  /\ api[j] = "idle"
  /\ state' = [state EXCEPT ![j] = "received"]
  /\ api' = [api EXCEPT ![j] = "received"]
  /\ UNCHANGED <<attempts, owner, lease, aged, queuedEvents, queue, workerVars, budgetVars>>

SubmitValidate(j) ==
  /\ api[j] = "received"
  /\ Transition(j, "received", "validated")
  /\ api' = [api EXCEPT ![j] = "validated"]
  /\ UNCHANGED <<queue, workerVars, budgetVars>>

SubmitQueue(j) ==
  /\ api[j] = "validated"
  /\ Transition(j, "validated", "queued")
  /\ api' = [api EXCEPT ![j] = "queued"]
  /\ UNCHANGED <<queue, workerVars, budgetVars>>

SubmitEnqueue(j) ==
  /\ api[j] = "queued"
  /\ Enqueue(j)
  /\ api' = [api EXCEPT ![j] = "done"]
  /\ UNCHANGED <<dbVars, workerVars, budgetVars>>

\* The request dies: a crash of the API, or an exception of the database or of
\* Valkey, which submit_job does not catch.
ApiCrash(j) ==
  /\ api[j] \in {"received", "validated", "queued"}
  /\ crashes < MaxCrashes
  /\ crashes' = crashes + 1
  /\ api' = [api EXCEPT ![j] = "dead"]
  /\ UNCHANGED <<dbVars, queue, workerVars, stops, pauses, losses>>

--------------------------------------------------------------------------------
(* The worker's loop: maintenance, then reserve                            *)

\* BLMOVE; what is left in the list processing:<worker> is read by nobody but
\* a process of the same id, and ids are never reused, so job[w] stands for it.
Reserve(w) ==
  /\ (At(w, "loop") /\ ~stopping[w]) \/ At(w, "reserve")
  /\ queue # <<>>
  /\ job' = [job EXCEPT ![w] = Head(queue)]
  /\ queue' = Tail(queue)
  /\ Goto(w, "claim")
  /\ UNCHANGED <<dbVars, api, cur, stage, att, rows, ids, stopping, budgetVars>>

ReserveTimeout(w) ==
  /\ At(w, "reserve")
  /\ queue = <<>>
  /\ Goto(w, "loop")
  /\ UNCHANGED <<dbVars, queue, api, job, cur, stage, att, rows, ids, stopping, budgetVars>>

\* reap_expired_leases, the select: the rows are kept, and used later as read.
BugReapableAnyState(j) == lease[j] = "expired"
BugReapableAnyLease(j) == state[j] \in IN_FLIGHT
BugReapableEarly(j) == state[j] \in {"parsing", "normalizing"} /\ lease[j] = "expired"
Reapable(j) == state[j] \in IN_FLIGHT /\ lease[j] = "expired"
ReapSelect(w) ==
  /\ At(w, "loop") /\ ~stopping[w]
  /\ rows' = [rows EXCEPT ![w] =
       { [job |-> j, state |-> state[j], attempts |-> attempts[j]] :
           j \in { k \in Job : Reapable(k) } }]
  /\ Goto(w, "reap")
  /\ UNCHANGED <<dbVars, queue, api, job, cur, stage, att, ids, stopping, budgetVars>>

\* The decision rests on the attempts the select returned.
BugAfterReapOneMore(r) ==
  IF r.attempts <= MaxAttemptsOf(r.job) THEN "reapRequeue" ELSE "reapExhaust"
BugAfterReapOneLess(r) ==
  IF r.attempts + 1 < MaxAttemptsOf(r.job) THEN "reapRequeue" ELSE "reapExhaust"
AfterReap(r) ==
  IF r.attempts < MaxAttemptsOf(r.job) THEN "reapRequeue" ELSE "reapExhaust"

ReapRow(w) ==
  /\ At(w, "reap")
  /\ \E r \in rows[w] :
       /\ Transition(r.job, r.state, "failed_retryable")
       /\ rows' = [rows EXCEPT ![w] = @ \ {r}]
       /\ IF Won(r.job, r.state)
          THEN /\ job' = [job EXCEPT ![w] = r.job]
               /\ Goto(w, AfterReap(r))
          ELSE UNCHANGED <<job, pc>>
  /\ UNCHANGED <<queue, api, cur, stage, att, ids, stopping, budgetVars>>

\* Whether the transition moved the row is not looked at: the job is enqueued.
ReapRequeue(w) ==
  /\ At(w, "reapRequeue")
  /\ Transition(job[w], "failed_retryable", "queued")
  /\ Goto(w, "reapEnqueue")
  /\ UNCHANGED <<queue, api, job, cur, stage, att, rows, ids, stopping, budgetVars>>

ReapEnqueue(w) ==
  /\ At(w, "reapEnqueue")
  /\ Enqueue(job[w])
  /\ job' = [job EXCEPT ![w] = None]
  /\ Goto(w, "reap")
  /\ UNCHANGED <<dbVars, api, cur, stage, att, rows, ids, stopping, budgetVars>>

ReapExhaust(w) ==
  /\ At(w, "reapExhaust")
  /\ Transition(job[w], "failed_retryable", "failed_terminal")
  /\ job' = [job EXCEPT ![w] = None]
  /\ Goto(w, "reap")
  /\ UNCHANGED <<queue, api, cur, stage, att, rows, ids, stopping, budgetVars>>

\* reconcile_queue reads the list first and the table second.
ReconcileRead(w) ==
  /\ At(w, "reap") /\ rows[w] = {}
  /\ ids' = [ids EXCEPT ![w] = { queue[i] : i \in DOMAIN queue }]
  /\ Goto(w, "reconcile")
  /\ UNCHANGED <<dbVars, queue, api, job, cur, stage, att, rows, stopping, budgetVars>>

BugMissingInverted(w) == { j \in Job : state[j] = "queued" /\ aged[j] } \cap ids[w]
Missing(w) == { j \in Job : state[j] = "queued" /\ aged[j] } \ ids[w]

ReconcileSelect(w) ==
  /\ At(w, "reconcile")
  /\ ids' = [ids EXCEPT ![w] = Missing(w)]
  /\ Goto(w, "reenqueue")
  /\ UNCHANGED <<dbVars, queue, api, job, cur, stage, att, rows, stopping, budgetVars>>

Reenqueue(w) ==
  /\ At(w, "reenqueue")
  /\ \E j \in ids[w] :
       /\ Enqueue(j)
       /\ ids' = [ids EXCEPT ![w] = @ \ {j}]
  /\ UNCHANGED <<dbVars, api, pc, job, cur, stage, att, rows, stopping, budgetVars>>

ReconcileDone(w) ==
  /\ At(w, "reenqueue") /\ ids[w] = {}
  /\ Goto(w, "reserve")
  /\ UNCHANGED <<dbVars, queue, api, job, cur, stage, att, rows, ids, stopping, budgetVars>>

--------------------------------------------------------------------------------
(* handle: claim, run, settle, acknowledge                                 *)

\* service.claim: the one place that spends an attempt and that names an owner.
BugClaimableUnlessDone(j) == state[j] \notin TERMINAL
Claimable(j) == state[j] = "queued"
BugUnspentAttempt(j) == attempts[j]
SpentAttempt(j) == attempts[j] + 1
BugFirstOwner(j, w) == IF owner[j] = None THEN w ELSE owner[j]
NewOwner(j, w) == w

Claim(w) ==
  LET j == job[w] IN
  /\ At(w, "claim")
  /\ IF Claimable(j)
     THEN /\ state' = [state EXCEPT ![j] = First(j)]
          /\ attempts' = [attempts EXCEPT ![j] = SpentAttempt(j)]
          /\ owner' = [owner EXCEPT ![j] = NewOwner(j, w)]
          /\ lease' = [lease EXCEPT ![j] = "live"]
          /\ aged' = [aged EXCEPT ![j] = FALSE]
          /\ cur' = [cur EXCEPT ![w] = First(j)]
          /\ att' = [att EXCEPT ![w] = SpentAttempt(j)]
          /\ Goto(w, "beat")
     ELSE /\ Goto(w, "ack")
          /\ UNCHANGED <<state, attempts, owner, lease, aged, cur, att>>
  /\ UNCHANGED <<queuedEvents, queue, api, job, stage, rows, ids, stopping, budgetVars>>

\* service.heartbeat refreshes the lease of a row that still names this worker.
Refresh(w) ==
  lease' = [lease EXCEPT ![job[w]] = IF owner[job[w]] = w THEN "live" ELSE @]

FirstHeartbeat(w) ==
  /\ At(w, "beat")
  /\ Refresh(w)
  /\ Goto(w, "run")
  /\ UNCHANGED <<state, attempts, owner, aged, queuedEvents, queue, api,
                 job, cur, stage, att, rows, ids, stopping, budgetVars>>

Heartbeat(w) ==
  /\ Beating(w)
  /\ Refresh(w)
  /\ UNCHANGED <<state, attempts, owner, aged, queuedEvents, queue, api, workerVars, budgetVars>>

\* progress(): an illegal pair raises; a lost compare-and-set leaves cur behind.
Progress(w) ==
  /\ At(w, "run") /\ job[w] \notin TrainJobs /\ stage[w] < Len(Stage)
  /\ LET target == Stage[stage[w] + 1] IN
     IF Legal(cur[w], target)
     THEN /\ Transition(job[w], cur[w], target)
          /\ cur' = [cur EXCEPT ![w] = IF Won(job[w], @) THEN target ELSE @]
          /\ UNCHANGED pc
     ELSE /\ Goto(w, "except")
          /\ UNCHANGED <<dbVars, cur>>
  /\ stage' = [stage EXCEPT ![w] = @ + 1]
  /\ UNCHANGED <<queue, api, job, att, rows, ids, stopping, budgetVars>>

\* A training run completes or raises.  A process run completes after the last
\* stage, or before the first one when the stored sample is reused; it may end
\* in any other way at any stage.
MayEnd(w, o) ==
  \/ o = "raise"
  \/ o = "completed" /\ (job[w] \in TrainJobs \/ stage[w] \in {0, Len(Stage)})
  \/ o \notin {"raise", "completed"} /\ job[w] \notin TrainJobs

Finish(w) ==
  /\ At(w, "run")
  /\ \E o \in Outcomes :
       /\ MayEnd(w, o)
       /\ IF o = "raise" \/ ~Legal(cur[w], o)
          THEN /\ Goto(w, "except")
               /\ UNCHANGED dbVars
          ELSE /\ Transition(job[w], cur[w], o)
               /\ Goto(w, IF o = "failed_retryable" /\ Won(job[w], cur[w]) THEN "retry" ELSE "ack")
  /\ UNCHANGED <<queue, api, job, cur, stage, att, rows, ids, stopping, budgetVars>>

\* The worker's own retry reads the row again before it decides.
BugAfterRetryForgotten(j) == IF attempts[j] < MaxAttemptsOf(j) THEN "requeue" ELSE "ack"
AfterRetry(j) == IF attempts[j] < MaxAttemptsOf(j) THEN "requeue" ELSE "exhaust"

RetryRead(w) ==
  /\ At(w, "retry")
  /\ Goto(w, AfterRetry(job[w]))
  /\ UNCHANGED <<dbVars, queue, api, job, cur, stage, att, rows, ids, stopping, budgetVars>>

RetryRequeue(w) ==
  /\ At(w, "requeue")
  /\ Transition(job[w], "failed_retryable", "queued")
  /\ Goto(w, "enqueue")
  /\ UNCHANGED <<queue, api, job, cur, stage, att, rows, ids, stopping, budgetVars>>

RetryEnqueue(w) ==
  /\ At(w, "enqueue")
  /\ Enqueue(job[w])
  /\ Goto(w, "ack")
  /\ UNCHANGED <<dbVars, api, job, cur, stage, att, rows, ids, stopping, budgetVars>>

RetryExhaust(w) ==
  /\ At(w, "exhaust")
  /\ Transition(job[w], "failed_retryable", "failed_terminal")
  /\ Goto(w, "ack")
  /\ UNCHANGED <<queue, api, job, cur, stage, att, rows, ids, stopping, budgetVars>>

\* The handler of handle() takes whatever state the row is in now as its own.
ExceptRead(w) ==
  /\ At(w, "except")
  /\ cur' = [cur EXCEPT ![w] = state[job[w]]]
  /\ Goto(w, IF state[job[w]] \in TERMINAL THEN "ack" ELSE "fail")
  /\ UNCHANGED <<dbVars, queue, api, job, stage, att, rows, ids, stopping, budgetVars>>

ExceptFail(w) ==
  /\ At(w, "fail")
  /\ Transition(job[w], cur[w], "failed_terminal")
  /\ Goto(w, "ack")
  /\ UNCHANGED <<queue, api, job, cur, stage, att, rows, ids, stopping, budgetVars>>

Ack(w) ==
  /\ At(w, "ack")
  /\ job' = [job EXCEPT ![w] = None]
  /\ cur' = [cur EXCEPT ![w] = None]
  /\ stage' = [stage EXCEPT ![w] = 0]
  /\ att' = [att EXCEPT ![w] = 0]
  /\ Goto(w, "loop")
  /\ UNCHANGED <<dbVars, queue, api, rows, ids, stopping, budgetVars>>

--------------------------------------------------------------------------------
(* Processes, clocks and the transport                                     *)

\* SIGTERM only sets the stop event.  The main thread goes on with its job; the
\* heartbeat thread, which waits on that event, ends at once.
Stop(w) ==
  /\ pc[w] # "down" /\ ~stopping[w]
  /\ stops < MaxStops
  /\ stops' = stops + 1
  /\ stopping' = [stopping EXCEPT ![w] = TRUE]
  /\ UNCHANGED <<dbVars, queue, api, pc, job, cur, stage, att, rows, ids, crashes, pauses, losses>>

Exit(w) ==
  /\ At(w, "loop") /\ stopping[w]
  /\ Goto(w, "down")
  /\ Disown(w)
  /\ Forget(w)
  /\ UNCHANGED <<state, attempts, lease, aged, queuedEvents, queue, api, budgetVars>>

\* The process dies: killed, or an exception outside the try of handle().
Crash(w) ==
  /\ pc[w] # "down"
  /\ crashes < MaxCrashes
  /\ crashes' = crashes + 1
  /\ Goto(w, "down")
  /\ Disown(w)
  /\ Forget(w)
  /\ UNCHANGED <<state, attempts, lease, aged, queuedEvents, queue, api, stops, pauses, losses>>

\* A new process takes the place of the old one, under a new id.
Restart(w) ==
  /\ At(w, "down")
  /\ Goto(w, "loop")
  /\ UNCHANGED <<dbVars, queue, api, job, cur, stage, att, rows, ids, stopping, budgetVars>>

Kept(j) == owner[j] # None /\ Beating(owner[j]) /\ Current(owner[j]) = j

\* A lease nobody refreshes runs out.
LeaseExpires(j) ==
  /\ state[j] \in IN_FLIGHT /\ lease[j] = "live"
  /\ ~Kept(j)
  /\ lease' = [lease EXCEPT ![j] = "expired"]
  /\ UNCHANGED <<state, attempts, owner, aged, queuedEvents, queue, api, workerVars, budgetVars>>

\* A lease may also run out under a live worker: its heartbeats keep failing
\* (the thread survives that), or the whole process does not get to run.
LeasePaused(j) ==
  /\ state[j] \in IN_FLIGHT /\ lease[j] = "live"
  /\ Kept(j)
  /\ pauses < MaxPauses
  /\ pauses' = pauses + 1
  /\ lease' = [lease EXCEPT ![j] = "expired"]
  /\ UNCHANGED <<state, attempts, owner, aged, queuedEvents, queue, api, workerVars,
                 crashes, stops, losses>>

Age(j) ==
  /\ state[j] = "queued" /\ ~aged[j]
  /\ aged' = [aged EXCEPT ![j] = TRUE]
  /\ UNCHANGED <<state, attempts, owner, lease, queuedEvents, queue, api, workerVars, budgetVars>>

\* Valkey is emptied, or restarts without its data.
QueueLoss ==
  /\ queue # <<>>
  /\ losses < MaxLosses
  /\ losses' = losses + 1
  /\ queue' = <<>>
  /\ UNCHANGED <<dbVars, api, workerVars, crashes, stops, pauses>>

--------------------------------------------------------------------------------

Submit(j) ==
  \/ SubmitInsert(j) \/ SubmitValidate(j) \/ SubmitQueue(j) \/ SubmitEnqueue(j)

\* The steps of a worker's main thread.
MainThread(w) ==
  \/ Reserve(w) \/ ReserveTimeout(w)
  \/ ReapSelect(w) \/ ReapRow(w) \/ ReapRequeue(w) \/ ReapEnqueue(w) \/ ReapExhaust(w)
  \/ ReconcileRead(w) \/ ReconcileSelect(w) \/ Reenqueue(w) \/ ReconcileDone(w)
  \/ Claim(w) \/ FirstHeartbeat(w) \/ Progress(w) \/ Finish(w)
  \/ RetryRead(w) \/ RetryRequeue(w) \/ RetryEnqueue(w) \/ RetryExhaust(w)
  \/ ExceptRead(w) \/ ExceptFail(w) \/ Ack(w) \/ Exit(w)

Next ==
  \/ \E j \in Job : Submit(j) \/ ApiCrash(j) \/ LeaseExpires(j) \/ LeasePaused(j) \/ Age(j)
  \/ \E w \in Worker : MainThread(w) \/ Heartbeat(w) \/ Stop(w) \/ Crash(w) \/ Restart(w)
  \/ QueueLoss

Spec == Init /\ [][Next]_vars

\* Requests and workers do not halt by themselves, time passes, the container
\* runtime starts a dead worker again.  Nothing is assumed of crashes, SIGTERMs,
\* pauses and losses.
Fairness ==
  /\ \A j \in Job : WF_vars(Submit(j)) /\ WF_vars(LeaseExpires(j)) /\ WF_vars(Age(j))
  /\ \A w \in Worker : WF_vars(MainThread(w)) /\ WF_vars(Heartbeat(w)) /\ WF_vars(Restart(w))

FairSpec == Spec /\ Fairness
--------------------------------------------------------------------------------
(* Safety                                                                  *)

(* Duplicate deliveries are harmless (queue.py: a job is claimed by a      *)
(* compare-and-set): however often the reaper, the reconciler and restarts *)
(* deliver an id, each entry of the row into "queued" is claimed at most   *)
(* once, so no attempt is spent twice on one queueing.                     *)
ClaimedOncePerQueueing ==
  \A j \in Job : attempts[j] + (IF state[j] = "queued" THEN 1 ELSE 0) <= queuedEvents[j]

(* Two workers that are busy with one job at the same time, a stale one    *)
(* and its successor, work on different attempts of it.                    *)
AttemptsAreDistinct ==
  \A v, w \in Worker :
    v # w /\ Current(v) # None /\ Current(v) = Current(w) => att[v] # att[w]

(* A heartbeat only ever prolongs the attempt its sender is working on: a  *)
(* worker that lost its job cannot keep the lease of a later attempt alive,*)
(* which would hide the death of the worker that holds that attempt.       *)
HeartbeatKeepsOwnAttempt ==
  \A w \in Worker :
    Current(w) # None /\ owner[Current(w)] = w => att[w] = attempts[Current(w)]

(* reap_expired_leases and _run_processing go through failed_retryable in  *)
(* two transactions.  As long as no process has died in between, a row in  *)
(* that state has a worker that is about to move it on; likewise the rows  *)
(* that submit_job leaves in received and validated.  And as long as the   *)
(* queue has not been emptied either, the id of a queued job is in it or in*)
(* the hands of somebody who is to put it there or to claim it: nothing has*)
(* to be found again by the reconciler.                                    *)
MovesOn(w, j) == job[w] = j /\ pc[w] \in {"retry", "requeue", "exhaust", "reapRequeue", "reapExhaust"}
Delivers(w, j) == job[w] = j /\ pc[w] \in {"claim", "enqueue", "reapEnqueue"}
InQueue(j) == \E i \in DOMAIN queue : queue[i] = j
NobodyStranded ==
  crashes = 0 =>
    \A j \in Job :
      /\ state[j] = "failed_retryable" => \E w \in Worker : MovesOn(w, j)
      /\ state[j] \in {"received", "validated"} => api[j] = state[j]
      /\ losses = 0 /\ state[j] = "queued" =>
           InQueue(j) \/ api[j] = "queued" \/ \E w \in Worker : Delivers(w, j)

(* The decision to try a job once more rests on attempts that were read    *)
(* some steps ago, by the reaper (service.py, reap_expired_leases) and by  *)
(* the worker's own retry.  Yet one worker can overlook no more than one   *)
(* attempt that another has spent meanwhile: n workers try a job at most   *)
(* n - 1 times more often than max_attempts allows.                        *)
OverrunBounded == \A j \in Job : attempts[j] < MaxAttemptsOf(j) + Cardinality(Worker)

(* The rows behave as JobLifecycle says.                                   *)
Lifecycle == INSTANCE JobLifecycle WITH state <- state, attempts <- attempts
ImplementsLifecycle == Lifecycle!LifecycleSpec

--------------------------------------------------------------------------------
(* Liveness                                                                *)

(* "An emptied or restarted Valkey loses no work" (queue.py): a queued job *)
(* is eventually claimed or settled, whatever happened to the queue.       *)
QueuedIsServed == \A j \in Job : state[j] = "queued" ~> state[j] # "queued"

(* A job in the hands of a worker, dead or alive, does not stay in flight: *)
(* it ends, or it rests in failed_retryable, which NobodyStranded explains.*)
InFlightEnds ==
  \A j \in Job : state[j] \in IN_FLIGHT ~> state[j] \in TERMINAL \cup {"failed_retryable"}

--------------------------------------------------------------------------------
(* What the documentation says                                             *)

(* "failed_retryable -> queued (attempts < max)" (docs/architecture.md):   *)
(* no job is ever tried more often than max_attempts.                      *)
AttemptsBounded == \A j \in Job : attempts[j] <= MaxAttemptsOf(j)

(* "lease expired: worker is presumed dead" (reap_expired_leases): only an *)
(* in-flight row whose lease has run out is taken from its worker.         *)
OnlyExpiredLeasesAreReaped ==
  [][\A j \in Job, w \in Worker :
       pc'[w] \in Reaping /\ job'[w] = j /\ state[j] \in IN_FLIGHT
         /\ state'[j] = "failed_retryable" => lease[j] = "expired"]_vars

(* "retries exhausted or internal error" (states.py, of failed_terminal):  *)
(* with a pipeline that raises nothing, a job fails for good only when its *)
(* attempts are spent.                                                     *)
OnlyExhaustedJobsFail ==
  [][\A j \in Job :
       state[j] # "failed_terminal" /\ state'[j] = "failed_terminal"
         => attempts[j] >= MaxAttemptsOf(j)]_vars

(* "A lost worker moves an in-flight job to failed_retryable and back to   *)
(* queued" (states.py): a job does not stay in failed_retryable.           *)
RetryableMovesOn ==
  \A j \in Job : state[j] = "failed_retryable" ~> state[j] # "failed_retryable"
================================================================================
