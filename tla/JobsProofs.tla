------------------------------- MODULE JobsProofs ------------------------------
(***************************************************************************)
(* Theorems about Jobs, for any jobs, workers, outcomes and bounds.        *)
(***************************************************************************)
EXTENDS Jobs, SequenceTheorems, FiniteSetTheorems, TLAPS

(* The type invariant is inductive once it is known that a worker that is  *)
(* in the middle of something has a job in its hands, which has a row.     *)
Holding == Handling \cup Reaping \cup {"claim", "ack"}

HoldsJob ==
  \A w \in Worker :
    /\ pc[w] \in Holding => job[w] \in Job
    /\ pc[w] \in Handling => state[job[w]] # "absent"

TypeInv == TypeOK /\ HoldsJob

(* What Transition leaves of the rows' types: it writes dst or nothing, and*)
(* no row disappears.                                                      *)
LEMMA TransitionType ==
  ASSUME TypeOK, NEW j \in Job, NEW src, NEW dst \in JobState, Transition(j, src, dst)
  PROVE  /\ state' \in [Job -> JobState \cup {"absent"}]
         /\ aged' \in [Job -> BOOLEAN]
         /\ queuedEvents' \in [Job -> Nat]
         /\ attempts' \in [Job -> Nat]
         /\ owner' \in [Job -> Worker \cup {None}]
         /\ lease' \in [Job -> {"none", "live", "expired"}]
         /\ \A k \in Job : state[k] # "absent" => state'[k] # "absent"
<1> USE DEF TypeOK
<1>1. CASE Won(j, src)
  <2>1. state' = [state EXCEPT ![j] = dst] /\ aged' = [aged EXCEPT ![j] = FALSE]
    BY <1>1 DEF Transition
  <2>2. queuedEvents' = [queuedEvents EXCEPT ![j] = IF dst = "queued" THEN @ + 1 ELSE @]
    BY <1>1 DEF Transition
  <2>3. queuedEvents' \in [Job -> Nat]
    BY <2>2
  <2>4. UNCHANGED <<attempts, owner, lease>>
    BY DEF Transition
  <2>5. state' \in [Job -> JobState \cup {"absent"}] /\ aged' \in [Job -> BOOLEAN]
    BY <2>1
  <2>6. dst # "absent"
    BY DEF JobState
  <2>7. \A k \in Job : state[k] # "absent" => state'[k] # "absent"
    BY <2>1, <2>6
  <2>. QED
    BY <2>3, <2>4, <2>5, <2>7
<1>2. CASE ~Won(j, src)
  <2>1. UNCHANGED <<state, aged, queuedEvents, attempts, owner, lease>>
    BY <1>2 DEF Transition
  <2>. QED
    BY <2>1
<1>. QED
  BY <1>1, <1>2

(* The initial values have their types.                                    *)
LEMMA InitType == Init => TypeInv
BY ConstantsAssumption DEF Init, TypeInv, TypeOK, HoldsJob, Holding, Handling, Reaping, PC, JobState, Stage

(* The part of the type invariant that a step owes to the rows.            *)
TypedRows ==
  /\ state' \in [Job -> JobState \cup {"absent"}]
  /\ aged' \in [Job -> BOOLEAN]
  /\ queuedEvents' \in [Job -> Nat]
  /\ attempts' \in [Job -> Nat]
  /\ owner' \in [Job -> Worker \cup {None}]
  /\ lease' \in [Job -> {"none", "live", "expired"}]
  /\ \A k \in Job : state[k] # "absent" => state'[k] # "absent"

(* A step that leaves the rows alone owes them nothing.                    *)
LEMMA TypeSame == ASSUME TypeOK, UNCHANGED dbVars PROVE TypedRows
BY DEF TypeOK, dbVars, TypedRows

(* Every step keeps the types, and that a worker in the middle of a job    *)
(* has one.                                                                *)
LEMMA NextType == TypeInv /\ [Next]_vars => TypeInv'
<1> SUFFICES ASSUME TypeInv, [Next]_vars PROVE TypeInv'
  OBVIOUS
<1>1. ASSUME NEW j \in Job, SubmitInsert(j) PROVE TypeInv'
  BY <1>1, ConstantsAssumption DEF TypeInv, TypeOK, HoldsJob, Holding, Handling, Reaping, PC, dbVars, workerVars, budgetVars, At, Goto, SubmitInsert, JobState
<1>2. ASSUME NEW j \in Job, SubmitEnqueue(j) PROVE TypeInv'
  <2>1. queue' \in Seq(Job)
    BY <1>2 DEF TypeInv, TypeOK, SubmitEnqueue, Enqueue
  <2>. QED
    BY <1>2, ConstantsAssumption, <2>1 DEF TypeInv, TypeOK, HoldsJob, Holding, Handling, Reaping, PC, dbVars, workerVars, budgetVars, At, Goto, SubmitEnqueue
<1>3. ASSUME NEW j \in Job, ApiCrash(j) PROVE TypeInv'
  BY <1>3, ConstantsAssumption DEF TypeInv, TypeOK, HoldsJob, Holding, Handling, Reaping, PC, dbVars, workerVars, budgetVars, At, Goto, ApiCrash
<1>4. ASSUME NEW j \in Job, LeaseExpires(j) PROVE TypeInv'
  BY <1>4, ConstantsAssumption DEF TypeInv, TypeOK, HoldsJob, Holding, Handling, Reaping, PC, dbVars, workerVars, budgetVars, At, Goto, LeaseExpires
<1>5. ASSUME NEW j \in Job, LeasePaused(j) PROVE TypeInv'
  BY <1>5, ConstantsAssumption DEF TypeInv, TypeOK, HoldsJob, Holding, Handling, Reaping, PC, dbVars, workerVars, budgetVars, At, Goto, LeasePaused
<1>6. ASSUME NEW j \in Job, Age(j) PROVE TypeInv'
  BY <1>6, ConstantsAssumption DEF TypeInv, TypeOK, HoldsJob, Holding, Handling, Reaping, PC, dbVars, workerVars, budgetVars, At, Goto, Age
<1>7. ASSUME NEW w \in Worker, Reserve(w) PROVE TypeInv'
  BY <1>7, ConstantsAssumption DEF TypeInv, TypeOK, HoldsJob, Holding, Handling, Reaping, PC, dbVars, workerVars, budgetVars, At, Goto, Reserve
<1>8. ASSUME NEW w \in Worker, ReserveTimeout(w) PROVE TypeInv'
  BY <1>8, ConstantsAssumption DEF TypeInv, TypeOK, HoldsJob, Holding, Handling, Reaping, PC, dbVars, workerVars, budgetVars, At, Goto, ReserveTimeout
<1>9. ASSUME NEW w \in Worker, ReapSelect(w) PROVE TypeInv'
  <2>1. rows' \in [Worker -> SUBSET Row]
    BY <1>9 DEF TypeInv, TypeOK, ReapSelect, Row, Reapable
  <2>. QED
    BY <1>9, ConstantsAssumption, <2>1 DEF TypeInv, TypeOK, HoldsJob, Holding, Handling, Reaping, PC, dbVars, workerVars, budgetVars, At, Goto, ReapSelect
<1>10. ASSUME NEW w \in Worker, ReapEnqueue(w) PROVE TypeInv'
  <2>1. job[w] \in Job
    BY <1>10 DEF TypeInv, HoldsJob, Holding, Handling, Reaping, At, ReapEnqueue
  <2>2. queue' \in Seq(Job)
    BY <1>10, <2>1 DEF TypeInv, TypeOK, Enqueue, ReapEnqueue
  <2>. QED
    BY <1>10, ConstantsAssumption, <2>1, <2>2 DEF TypeInv, TypeOK, HoldsJob, Holding, Handling, Reaping, PC, dbVars, workerVars, budgetVars, At, Goto, ReapEnqueue
<1>11. ASSUME NEW w \in Worker, ReconcileRead(w) PROVE TypeInv'
  BY <1>11, ConstantsAssumption DEF TypeInv, TypeOK, HoldsJob, Holding, Handling, Reaping, PC, dbVars, workerVars, budgetVars, At, Goto, ReconcileRead
<1>12. ASSUME NEW w \in Worker, ReconcileSelect(w) PROVE TypeInv'
  <2>1. ids' \in [Worker -> SUBSET Job]
    BY <1>12 DEF TypeInv, TypeOK, ReconcileSelect, Missing
  <2>. QED
    BY <1>12, ConstantsAssumption, <2>1 DEF TypeInv, TypeOK, HoldsJob, Holding, Handling, Reaping, PC, dbVars, workerVars, budgetVars, At, Goto, ReconcileSelect
<1>13. ASSUME NEW w \in Worker, Reenqueue(w) PROVE TypeInv'
  <2>1. queue' \in Seq(Job)
    BY <1>13 DEF TypeInv, TypeOK, Reenqueue, Enqueue
  <2>2. ids' \in [Worker -> SUBSET Job]
    BY <1>13 DEF TypeInv, TypeOK, Reenqueue
  <2>. QED
    BY <1>13, ConstantsAssumption, <2>1, <2>2 DEF TypeInv, TypeOK, HoldsJob, Holding, Handling, Reaping, PC, dbVars, workerVars, budgetVars, At, Goto, Reenqueue
<1>14. ASSUME NEW w \in Worker, ReconcileDone(w) PROVE TypeInv'
  BY <1>14, ConstantsAssumption DEF TypeInv, TypeOK, HoldsJob, Holding, Handling, Reaping, PC, dbVars, workerVars, budgetVars, At, Goto, ReconcileDone
<1>15. ASSUME NEW w \in Worker, Claim(w) PROVE TypeInv'
  <2>1. job[w] \in Job
    BY <1>15 DEF TypeInv, HoldsJob, Holding, Handling, Reaping, At, Claim
  <2>2. UNCHANGED <<queuedEvents, queue, api, job, stage, rows, ids, stopping, budgetVars>>
         /\ pc[w] = "claim"
    BY <1>15 DEF Claim, At
  <2>3. CASE Claimable(job[w])
    <3>1. /\ state' = [state EXCEPT ![job[w]] = First(job[w])]
          /\ attempts' = [attempts EXCEPT ![job[w]] = attempts[job[w]] + 1]
          /\ owner' = [owner EXCEPT ![job[w]] = w]
          /\ lease' = [lease EXCEPT ![job[w]] = "live"]
          /\ aged' = [aged EXCEPT ![job[w]] = FALSE]
          /\ cur' = [cur EXCEPT ![w] = First(job[w])]
          /\ att' = [att EXCEPT ![w] = attempts[job[w]] + 1]
          /\ pc' = [pc EXCEPT ![w] = "beat"]
      BY <1>15, <2>3 DEF Claim, SpentAttempt, NewOwner, Goto
    <3>2. First(job[w]) \in JobState /\ First(job[w]) # "absent"
      BY DEF First, JobState
    <3>3. TypedRows
      BY <2>1, <2>2, <3>1, <3>2 DEF TypeInv, TypeOK, TypedRows
    <3>4. att' \in [Worker -> Nat]
      BY <2>1, <3>1 DEF TypeInv, TypeOK
    <3>. QED
      BY <2>1, <2>2, <3>1, <3>2, <3>3, <3>4 DEF TypeInv, TypeOK, HoldsJob, TypedRows,
           Holding, Handling, Reaping, PC, budgetVars
  <2>4. CASE ~Claimable(job[w])
    <3>1. pc' = [pc EXCEPT ![w] = "ack"] /\ UNCHANGED <<state, attempts, owner, lease, aged, cur, att>>
      BY <1>15, <2>4 DEF Claim, Goto
    <3>. QED
      BY <2>1, <2>2, <3>1 DEF TypeInv, TypeOK, HoldsJob, Holding, Handling, Reaping, PC, budgetVars
  <2>. QED
    BY <2>3, <2>4
<1>16. ASSUME NEW w \in Worker, FirstHeartbeat(w) PROVE TypeInv'
  <2>1. job[w] \in Job
    BY <1>16 DEF TypeInv, HoldsJob, Holding, Handling, Reaping, At, FirstHeartbeat
  <2>2. lease' \in [Job -> {"none", "live", "expired"}]
    BY <1>16, <2>1 DEF TypeInv, TypeOK, FirstHeartbeat, Refresh
  <2>. QED
    BY <1>16, ConstantsAssumption, <2>1, <2>2 DEF TypeInv, TypeOK, HoldsJob, Holding, Handling, Reaping, PC, dbVars, workerVars, budgetVars, At, Goto, FirstHeartbeat
<1>17. ASSUME NEW w \in Worker, Heartbeat(w) PROVE TypeInv'
  <2>1. lease' \in [Job -> {"none", "live", "expired"}]
    BY <1>17 DEF TypeInv, TypeOK, Heartbeat, Refresh
  <2>. QED
    BY <1>17, ConstantsAssumption, <2>1 DEF TypeInv, TypeOK, HoldsJob, Holding, Handling, Reaping, PC, dbVars, workerVars, budgetVars, At, Goto, Heartbeat
<1>18. ASSUME NEW w \in Worker, RetryRead(w) PROVE TypeInv'
  <2>1. AfterRetry(job[w]) \in {"requeue", "exhaust"}
    BY DEF AfterRetry
  <2>. QED
    BY <1>18, ConstantsAssumption, <2>1 DEF TypeInv, TypeOK, HoldsJob, Holding, Handling, Reaping, PC, dbVars, workerVars, budgetVars, At, Goto, RetryRead
<1>19. ASSUME NEW w \in Worker, RetryEnqueue(w) PROVE TypeInv'
  <2>1. job[w] \in Job
    BY <1>19 DEF TypeInv, HoldsJob, Holding, Handling, Reaping, At, RetryEnqueue
  <2>2. queue' \in Seq(Job)
    BY <1>19, <2>1 DEF TypeInv, TypeOK, Enqueue, RetryEnqueue
  <2>. QED
    BY <1>19, ConstantsAssumption, <2>1, <2>2 DEF TypeInv, TypeOK, HoldsJob, Holding, Handling, Reaping, PC, dbVars, workerVars, budgetVars, At, Goto, RetryEnqueue
<1>20. ASSUME NEW w \in Worker, ExceptRead(w) PROVE TypeInv'
  BY <1>20, ConstantsAssumption DEF TypeInv, TypeOK, HoldsJob, Holding, Handling, Reaping, PC, dbVars, workerVars, budgetVars, At, Goto, ExceptRead
<1>21. ASSUME NEW w \in Worker, Ack(w) PROVE TypeInv'
  BY <1>21, ConstantsAssumption DEF TypeInv, TypeOK, HoldsJob, Holding, Handling, Reaping, PC, dbVars, workerVars, budgetVars, At, Goto, Ack
<1>22. ASSUME NEW w \in Worker, Exit(w) PROVE TypeInv'
  <2>1. owner' \in [Job -> Worker \cup {None}]
    BY <1>22 DEF TypeInv, TypeOK, Exit, Disown
  <2>. QED
    BY <1>22, ConstantsAssumption, <2>1 DEF TypeInv, TypeOK, HoldsJob, Holding, Handling, Reaping, PC, dbVars, workerVars, budgetVars, At, Goto, Exit, Forget, Stage
<1>23. ASSUME NEW w \in Worker, Stop(w) PROVE TypeInv'
  BY <1>23, ConstantsAssumption DEF TypeInv, TypeOK, HoldsJob, Holding, Handling, Reaping, PC, dbVars, workerVars, budgetVars, At, Goto, Stop
<1>24. ASSUME NEW w \in Worker, Crash(w) PROVE TypeInv'
  <2>1. owner' \in [Job -> Worker \cup {None}]
    BY <1>24 DEF TypeInv, TypeOK, Crash, Disown
  <2>. QED
    BY <1>24, ConstantsAssumption, <2>1 DEF TypeInv, TypeOK, HoldsJob, Holding, Handling, Reaping, PC, dbVars, workerVars, budgetVars, At, Goto, Crash, Forget, Stage
<1>25. ASSUME NEW w \in Worker, Restart(w) PROVE TypeInv'
  BY <1>25, ConstantsAssumption DEF TypeInv, TypeOK, HoldsJob, Holding, Handling, Reaping, PC, dbVars, workerVars, budgetVars, At, Goto, Restart
<1>26. ASSUME NEW j \in Job, SubmitValidate(j) PROVE TypeInv'
  <2>1. TypedRows
    BY <1>26, TransitionType DEF TypeInv, TypedRows, JobState, SubmitValidate
  <2>. QED
    BY <1>26, ConstantsAssumption, <2>1 DEF TypeInv, TypeOK, HoldsJob, Holding, Handling, Reaping, PC, dbVars, workerVars, budgetVars, At, Goto, SubmitValidate, TypedRows
<1>27. ASSUME NEW j \in Job, SubmitQueue(j) PROVE TypeInv'
  <2>1. TypedRows
    BY <1>27, TransitionType DEF TypeInv, TypedRows, JobState, SubmitQueue
  <2>. QED
    BY <1>27, ConstantsAssumption, <2>1 DEF TypeInv, TypeOK, HoldsJob, Holding, Handling, Reaping, PC, dbVars, workerVars, budgetVars, At, Goto, SubmitQueue, TypedRows
<1>28. ASSUME NEW w \in Worker, ReapRequeue(w) PROVE TypeInv'
  <2>1. job[w] \in Job
    BY <1>28 DEF TypeInv, HoldsJob, Holding, Handling, Reaping, At, ReapRequeue
  <2>2. TypedRows
    BY <1>28, <2>1, TransitionType DEF TypeInv, TypedRows, JobState, ReapRequeue
  <2>. QED
    BY <1>28, ConstantsAssumption, <2>1, <2>2 DEF TypeInv, TypeOK, HoldsJob, Holding, Handling, Reaping, PC, dbVars, workerVars, budgetVars, At, Goto, ReapRequeue, TypedRows
<1>29. ASSUME NEW w \in Worker, ReapExhaust(w) PROVE TypeInv'
  <2>1. job[w] \in Job
    BY <1>29 DEF TypeInv, HoldsJob, Holding, Handling, Reaping, At, ReapExhaust
  <2>2. TypedRows
    BY <1>29, <2>1, TransitionType DEF TypeInv, TypedRows, JobState, ReapExhaust
  <2>. QED
    BY <1>29, ConstantsAssumption, <2>1, <2>2 DEF TypeInv, TypeOK, HoldsJob, Holding, Handling, Reaping, PC, dbVars, workerVars, budgetVars, At, Goto, ReapExhaust, TypedRows
<1>30. ASSUME NEW w \in Worker, RetryRequeue(w) PROVE TypeInv'
  <2>1. job[w] \in Job
    BY <1>30 DEF TypeInv, HoldsJob, Holding, Handling, Reaping, At, RetryRequeue
  <2>2. TypedRows
    BY <1>30, <2>1, TransitionType DEF TypeInv, TypedRows, JobState, RetryRequeue
  <2>. QED
    BY <1>30, ConstantsAssumption, <2>1, <2>2 DEF TypeInv, TypeOK, HoldsJob, Holding, Handling, Reaping, PC, dbVars, workerVars, budgetVars, At, Goto, RetryRequeue, TypedRows
<1>31. ASSUME NEW w \in Worker, RetryExhaust(w) PROVE TypeInv'
  <2>1. job[w] \in Job
    BY <1>31 DEF TypeInv, HoldsJob, Holding, Handling, Reaping, At, RetryExhaust
  <2>2. TypedRows
    BY <1>31, <2>1, TransitionType DEF TypeInv, TypedRows, JobState, RetryExhaust
  <2>. QED
    BY <1>31, ConstantsAssumption, <2>1, <2>2 DEF TypeInv, TypeOK, HoldsJob, Holding, Handling, Reaping, PC, dbVars, workerVars, budgetVars, At, Goto, RetryExhaust, TypedRows
<1>32. ASSUME NEW w \in Worker, ExceptFail(w) PROVE TypeInv'
  <2>1. job[w] \in Job
    BY <1>32 DEF TypeInv, HoldsJob, Holding, Handling, Reaping, At, ExceptFail
  <2>2. TypedRows
    BY <1>32, <2>1, TransitionType DEF TypeInv, TypedRows, JobState, ExceptFail
  <2>. QED
    BY <1>32, ConstantsAssumption, <2>1, <2>2 DEF TypeInv, TypeOK, HoldsJob, Holding, Handling, Reaping, PC, dbVars, workerVars, budgetVars, At, Goto, ExceptFail, TypedRows
<1>33. ASSUME NEW w \in Worker, ReapRow(w) PROVE TypeInv'
  <2>1. PICK r \in rows[w] :
         /\ Transition(r.job, r.state, "failed_retryable")
         /\ rows' = [rows EXCEPT ![w] = @ \ {r}]
         /\ IF Won(r.job, r.state)
            THEN job' = [job EXCEPT ![w] = r.job] /\ Goto(w, AfterReap(r))
            ELSE UNCHANGED <<job, pc>>
    BY <1>33 DEF ReapRow
  <2>2. r.job \in Job /\ AfterReap(r) \in Reaping
    BY <2>1 DEF TypeInv, TypeOK, Row, AfterReap, Reaping
  <2>3. TypedRows
    BY <2>1, <2>2, TransitionType DEF TypeInv, TypedRows, JobState
  <2>4. UNCHANGED <<queue, api, cur, stage, att, ids, stopping, budgetVars>> /\ pc[w] = "reap"
    BY <1>33 DEF ReapRow, At
  <2>5. CASE Won(r.job, r.state)
    <3>1. job' = [job EXCEPT ![w] = r.job] /\ pc' = [pc EXCEPT ![w] = AfterReap(r)]
      BY <2>1, <2>5 DEF Goto
    <3>2. TypeOK'
      BY <2>1, <2>2, <2>3, <2>4, <3>1 DEF TypeInv, TypeOK, TypedRows, PC, budgetVars
    <3>3. HoldsJob'
      BY <2>2, <2>3, <3>1 DEF TypeInv, TypeOK, HoldsJob, TypedRows, Holding, Handling, Reaping
    <3>. QED
      BY <3>2, <3>3 DEF TypeInv
  <2>6. CASE ~Won(r.job, r.state)
    BY <2>1, <2>2, <2>3, <2>4, <2>6 DEF TypeInv, TypeOK, HoldsJob, TypedRows,
         Holding, Handling, Reaping, PC, budgetVars
  <2>. QED
    BY <2>5, <2>6
<1>34. ASSUME NEW w \in Worker, Progress(w) PROVE TypeInv'
  <2>1. job[w] \in Job
    BY <1>34 DEF TypeInv, HoldsJob, Holding, Handling, Reaping, At, Progress
  <2>2. Stage[stage[w] + 1] \in JobState /\ stage[w] + 1 \in 0..Len(Stage)
    <3>1. Len(Stage) = 3 /\ stage[w] \in 0..3 /\ stage[w] < 3
      BY <1>34 DEF TypeInv, TypeOK, Progress, Stage
    <3>2. stage[w] = 0 \/ stage[w] = 1 \/ stage[w] = 2
      BY <3>1
    <3>. QED
      BY <3>1, <3>2 DEF Stage, JobState
  <2>3. stage' \in [Worker -> 0..Len(Stage)]
    BY <1>34, <2>2 DEF TypeInv, TypeOK, Progress
  <2>4. UNCHANGED <<queue, api, job, att, rows, ids, stopping, budgetVars>> /\ pc[w] = "run"
    BY <1>34 DEF Progress, At
  <2>5. CASE Legal(cur[w], Stage[stage[w] + 1])
    <3>1. /\ Transition(job[w], cur[w], Stage[stage[w] + 1])
          /\ cur' = [cur EXCEPT ![w] = IF Won(job[w], @) THEN Stage[stage[w] + 1] ELSE @]
          /\ UNCHANGED pc
      BY <1>34, <2>5 DEF Progress
    <3>2. TypedRows
      BY <2>1, <2>2, <3>1, TransitionType DEF TypeInv, TypedRows
    <3>3. cur' \in [Worker -> JobState \cup {None}]
      BY <2>2, <3>1 DEF TypeInv, TypeOK
    <3>4. TypeOK'
      BY <2>3, <2>4, <3>1, <3>2, <3>3 DEF TypeInv, TypeOK, TypedRows, budgetVars
    <3>5. HoldsJob'
      BY <2>4, <3>1, <3>2 DEF TypeInv, HoldsJob, TypedRows, Holding, Handling
    <3>. QED
      BY <3>4, <3>5 DEF TypeInv
  <2>6. CASE ~Legal(cur[w], Stage[stage[w] + 1])
    <3>1. Goto(w, "except") /\ UNCHANGED dbVars /\ UNCHANGED cur
      BY <1>34, <2>6 DEF Progress
    <3>2. TypedRows
      BY <3>1, TypeSame DEF TypeInv
    <3>. QED
      BY <2>1, <2>3, <2>4, <3>1, <3>2 DEF TypeInv, TypeOK, HoldsJob, TypedRows,
           Holding, Handling, PC, Goto, budgetVars
  <2>. QED
    BY <2>5, <2>6
<1>35. ASSUME NEW w \in Worker, Finish(w) PROVE TypeInv'
  <2>1. job[w] \in Job
    BY <1>35 DEF TypeInv, HoldsJob, Holding, Handling, Reaping, At, Finish
  <2>2. PICK o \in Outcomes :
         IF o = "raise" \/ ~Legal(cur[w], o)
         THEN Goto(w, "except") /\ UNCHANGED dbVars
         ELSE /\ Transition(job[w], cur[w], o)
              /\ Goto(w, IF o = "failed_retryable" /\ Won(job[w], cur[w]) THEN "retry" ELSE "ack")
    BY <1>35 DEF Finish
  <2>3. o # "raise" => o \in JobState
    BY ConstantsAssumption DEF OutcomeSet, JobState
  <2>4. TypedRows
    BY <2>1, <2>2, <2>3, TransitionType, TypeSame DEF TypeInv, TypedRows
  <2>5. PICK label \in {"except", "retry", "ack"} : Goto(w, label)
    BY <2>2
  <2>6. UNCHANGED <<queue, api, job, cur, stage, att, rows, ids, stopping, budgetVars>> /\ pc[w] = "run"
    BY <1>35 DEF Finish, At
  <2>. QED
    BY <2>1, <2>4, <2>5, <2>6 DEF TypeInv, TypeOK, HoldsJob, TypedRows,
         Holding, Handling, PC, Goto, budgetVars
<1>36. CASE QueueLoss
  BY <1>36 DEF TypeInv, TypeOK, HoldsJob, Holding, Handling, Reaping, PC, dbVars, workerVars, budgetVars, At, Goto, QueueLoss
<1>37. CASE UNCHANGED vars
  BY <1>37 DEF TypeInv, TypeOK, HoldsJob, Holding, Handling, Reaping, PC, dbVars, workerVars, budgetVars, At, Goto, vars
<1>. QED
  BY <1>1, <1>2, <1>3, <1>4, <1>5, <1>6, <1>7, <1>8, <1>9, <1>10, <1>11, <1>12, <1>13, <1>14, <1>15, <1>16, <1>17, <1>18, <1>19, <1>20, <1>21, <1>22, <1>23, <1>24, <1>25, <1>26, <1>27, <1>28, <1>29, <1>30, <1>31, <1>32, <1>33, <1>34, <1>35, <1>36, <1>37 DEF Next, MainThread, Submit

(* Every variable keeps its type: no step of any worker, reaper, request or*)
(* crash writes a value the program could not hold.                        *)
THEOREM TypeCorrect == Spec => []TypeOK
<1>1. Spec => []TypeInv
  BY InitType, NextType, PTL DEF Spec
<1>2. TypeInv => TypeOK
  BY DEF TypeInv
<1>. QED
  BY <1>1, <1>2, PTL

--------------------------------------------------------------------------------
(* What a step may do to the rows.                                         *)

(* The handler of an exception writes to a state it has read, and it has   *)
(* read one that is not terminal.                                          *)
FailReadsLive == \A w \in Worker : pc[w] = "fail" => cur[w] \in JobState \ TERMINAL

(* Every step keeps it: only the read of the handler of an exception leads *)
(* there.                                                                  *)
LEMMA NextFailReadsLive == TypeInv /\ FailReadsLive /\ [Next]_vars => FailReadsLive'
<1> SUFFICES ASSUME TypeInv, FailReadsLive, [Next]_vars PROVE FailReadsLive'
  OBVIOUS
<1> USE DEF FailReadsLive, TypeInv, TypeOK, At, Goto
<1>1. ASSUME NEW w \in Worker,
             \/ Reserve(w) \/ ReserveTimeout(w) \/ ReapSelect(w) \/ ReapRequeue(w) \/ ReapEnqueue(w)
             \/ ReapExhaust(w) \/ ReconcileRead(w) \/ ReconcileSelect(w) \/ Reenqueue(w) \/ ReconcileDone(w)
      PROVE  FailReadsLive'
  BY <1>1 DEF Reserve, ReserveTimeout, ReapSelect, ReapRequeue, ReapEnqueue, ReapExhaust,
       ReconcileRead, ReconcileSelect, Reenqueue, ReconcileDone
<1>2. ASSUME NEW w \in Worker, ReapRow(w) PROVE FailReadsLive'
  BY <1>2 DEF ReapRow, AfterReap
<1>3. ASSUME NEW w \in Worker, Claim(w) PROVE FailReadsLive'
  BY <1>3 DEF Claim
<1>4. ASSUME NEW w \in Worker, Progress(w) PROVE FailReadsLive'
  BY <1>4 DEF Progress
<1>5. ASSUME NEW w \in Worker,
             FirstHeartbeat(w) \/ Finish(w) \/ RetryRead(w) \/ RetryRequeue(w) \/ RetryEnqueue(w) \/ RetryExhaust(w)
      PROVE  FailReadsLive'
  BY <1>5 DEF FirstHeartbeat, Finish, RetryRead, AfterRetry, RetryRequeue, RetryEnqueue, RetryExhaust
<1>6. ASSUME NEW w \in Worker, ExceptRead(w) PROVE FailReadsLive'
  <2>1. state[job[w]] \in JobState
    BY <1>6 DEF HoldsJob, Holding, Handling, ExceptRead
  <2>. QED
    BY <1>6, <2>1 DEF ExceptRead
<1>7. ASSUME NEW w \in Worker,
             ExceptFail(w) \/ Ack(w) \/ Exit(w) \/ Stop(w) \/ Crash(w) \/ Restart(w) \/ Heartbeat(w)
      PROVE  FailReadsLive'
  BY <1>7 DEF ExceptFail, Ack, Exit, Stop, Crash, Restart, Heartbeat, Forget, workerVars
<1>8. ASSUME NEW j \in Job,
             Submit(j) \/ ApiCrash(j) \/ LeaseExpires(j) \/ LeasePaused(j) \/ Age(j)
      PROVE  FailReadsLive'
  BY <1>8 DEF Submit, SubmitInsert, SubmitValidate, SubmitQueue, SubmitEnqueue, ApiCrash,
       LeaseExpires, LeasePaused, Age, workerVars
<1>9. CASE QueueLoss \/ UNCHANGED vars
  BY <1>9 DEF QueueLoss, vars, workerVars
<1>. QED
  BY <1>1, <1>2, <1>3, <1>4, <1>5, <1>6, <1>7, <1>8, <1>9 DEF Next, MainThread

(* The four ways in which a step may touch the states and attempts of the  *)
(* rows: not at all, by inserting one, by a claim, or by a compare-and-set *)
(* between a pair of states that check_transition allows.                  *)
Claimed == { "parsing", "training" }
ClaimsRow(j) ==
  /\ state[j] = "queued"
  /\ state' = [state EXCEPT ![j] = First(j)]
  /\ attempts' = [attempts EXCEPT ![j] = @ + 1]
  /\ UNCHANGED queuedEvents
MovesRow(j, src, dst) ==
  /\ src \in JobState
  /\ dst \in TRANSITIONS(src) \ Claimed
  /\ Transition(j, src, dst)
RowStep ==
  \/ UNCHANGED <<state, attempts, queuedEvents>>
  \/ \E j \in Job : SubmitInsert(j)
  \/ \E j \in Job : ClaimsRow(j)
  \/ \E j \in Job, src \in JobState, dst \in JobState : MovesRow(j, src, dst)

(* Every step of the system is one of these for the rows.                  *)
LEMMA NextRowStep == TypeInv /\ FailReadsLive /\ [Next]_vars => RowStep
<1> SUFFICES ASSUME TypeInv, FailReadsLive, [Next]_vars PROVE RowStep
  OBVIOUS
<1>1. ASSUME NEW w \in Worker,
             \/ Reserve(w) \/ ReserveTimeout(w) \/ ReapSelect(w) \/ ReapEnqueue(w)
             \/ ReconcileRead(w) \/ ReconcileSelect(w) \/ Reenqueue(w) \/ ReconcileDone(w)
             \/ FirstHeartbeat(w) \/ RetryRead(w) \/ RetryEnqueue(w) \/ ExceptRead(w) \/ Ack(w)
             \/ Exit(w) \/ Stop(w) \/ Crash(w) \/ Restart(w) \/ Heartbeat(w)
      PROVE  UNCHANGED <<state, attempts, queuedEvents>>
  BY <1>1 DEF Reserve, ReserveTimeout, ReapSelect, ReapEnqueue, ReconcileRead, ReconcileSelect,
       Reenqueue, ReconcileDone, FirstHeartbeat, RetryRead, RetryEnqueue, ExceptRead, Ack,
       Exit, Stop, Crash, Restart, Heartbeat, dbVars
<1>2. ASSUME NEW w \in Worker, ReapRow(w) PROVE RowStep
  <2>1. PICK r \in rows[w] : Transition(r.job, r.state, "failed_retryable")
    BY <1>2 DEF ReapRow
  <2>2. r.job \in Job /\ r.state \in IN_FLIGHT
    BY DEF TypeInv, TypeOK, Row
  <2>3. "failed_retryable" \in TRANSITIONS(r.state) \ Claimed
    BY <2>2 DEF IN_FLIGHT, TRANSITIONS, Fail, Claimed
  <2>4. MovesRow(r.job, r.state, "failed_retryable")
    BY <2>1, <2>2, <2>3 DEF MovesRow, IN_FLIGHT, JobState
  <2>. QED
    BY <2>2, <2>4 DEF RowStep, IN_FLIGHT, JobState
<1>3. ASSUME NEW w \in Worker, ReapRequeue(w) \/ RetryRequeue(w) PROVE RowStep
  <2>1. job[w] \in Job /\ Transition(job[w], "failed_retryable", "queued")
    BY <1>3 DEF TypeInv, HoldsJob, Holding, Handling, Reaping, At, ReapRequeue, RetryRequeue
  <2>2. MovesRow(job[w], "failed_retryable", "queued")
    BY <2>1 DEF MovesRow, TRANSITIONS, Claimed, JobState
  <2>. QED
    BY <2>1, <2>2 DEF RowStep, JobState
<1>4. ASSUME NEW w \in Worker, ReapExhaust(w) \/ RetryExhaust(w) PROVE RowStep
  <2>1. job[w] \in Job /\ Transition(job[w], "failed_retryable", "failed_terminal")
    BY <1>4 DEF TypeInv, HoldsJob, Holding, Handling, Reaping, At, ReapExhaust, RetryExhaust
  <2>2. MovesRow(job[w], "failed_retryable", "failed_terminal")
    BY <2>1 DEF MovesRow, TRANSITIONS, Claimed, JobState
  <2>. QED
    BY <2>1, <2>2 DEF RowStep, JobState
<1>5. ASSUME NEW w \in Worker, Claim(w) PROVE RowStep
  <2>1. job[w] \in Job
    BY <1>5 DEF TypeInv, HoldsJob, Holding, At, Claim
  <2>2. CASE Claimable(job[w])
    <3>1. ClaimsRow(job[w])
      BY <1>5, <2>1, <2>2 DEF Claim, Claimable, ClaimsRow, SpentAttempt, TypeInv, TypeOK
    <3>. QED
      BY <2>1, <3>1 DEF RowStep
  <2>3. CASE ~Claimable(job[w])
    BY <1>5, <2>3 DEF Claim, RowStep
  <2>. QED
    BY <2>2, <2>3
<1>6. ASSUME NEW w \in Worker, Progress(w) PROVE RowStep
  <2>1. job[w] \in Job /\ state[job[w]] # "absent"
    BY <1>6 DEF TypeInv, HoldsJob, Holding, Handling, At, Progress
  <2>2. PICK target : target = Stage[stage[w] + 1]
    OBVIOUS
  <2>3. target \in JobState \ Claimed
    <3>1. stage[w] = 0 \/ stage[w] = 1 \/ stage[w] = 2
      BY <1>6 DEF TypeInv, TypeOK, Progress, Stage
    <3>. QED
      BY <2>2, <3>1 DEF Stage, JobState, Claimed
  <2>4. CASE Legal(cur[w], target)
    <3>1. Transition(job[w], cur[w], target)
      BY <1>6, <2>2, <2>4 DEF Progress
    <3>2. cur[w] \in JobState
      BY <2>4 DEF Legal, TRANSITIONS, JobState
    <3>3. MovesRow(job[w], cur[w], target)
      BY <2>3, <2>4, <3>1, <3>2 DEF MovesRow, Legal
    <3>. QED
      BY <2>1, <2>3, <3>2, <3>3 DEF RowStep
  <2>5. CASE ~Legal(cur[w], target)
    BY <1>6, <2>2, <2>5 DEF Progress, RowStep, dbVars
  <2>. QED
    BY <2>4, <2>5
<1>7. ASSUME NEW w \in Worker, Finish(w) PROVE RowStep
  <2>1. job[w] \in Job
    BY <1>7 DEF TypeInv, HoldsJob, Holding, Handling, At, Finish
  <2>2. PICK o \in Outcomes :
         IF o = "raise" \/ ~Legal(cur[w], o) THEN UNCHANGED dbVars ELSE Transition(job[w], cur[w], o)
    BY <1>7 DEF Finish
  <2>3. CASE o = "raise" \/ ~Legal(cur[w], o)
    BY <2>2, <2>3 DEF RowStep, dbVars
  <2>4. CASE o # "raise" /\ Legal(cur[w], o)
    <3>1. o \in JobState \ Claimed
      BY <2>4, ConstantsAssumption DEF OutcomeSet, JobState, Claimed
    <3>2. cur[w] \in JobState
      BY <2>4 DEF Legal, TRANSITIONS, JobState
    <3>3. MovesRow(job[w], cur[w], o)
      BY <2>2, <2>4, <3>1, <3>2 DEF MovesRow, Legal
    <3>. QED
      BY <2>1, <3>1, <3>2, <3>3 DEF RowStep
  <2>. QED
    BY <2>3, <2>4
<1>8. ASSUME NEW w \in Worker, ExceptFail(w) PROVE RowStep
  <2>1. job[w] \in Job /\ cur[w] \in JobState \ TERMINAL
    BY <1>8 DEF TypeInv, HoldsJob, Holding, Handling, FailReadsLive, At, ExceptFail
  <2>2. "failed_terminal" \in TRANSITIONS(cur[w]) \ Claimed
    BY <2>1 DEF JobState, TERMINAL, TRANSITIONS, Fail, Claimed
  <2>3. MovesRow(job[w], cur[w], "failed_terminal")
    BY <1>8, <2>1, <2>2 DEF ExceptFail, MovesRow
  <2>. QED
    BY <2>1, <2>3 DEF RowStep, JobState
<1>9. ASSUME NEW j \in Job, Submit(j) PROVE RowStep
  <2>1. CASE SubmitInsert(j)
    BY <2>1 DEF RowStep
  <2>2. CASE SubmitValidate(j)
    <3>1. MovesRow(j, "received", "validated")
      BY <2>2 DEF SubmitValidate, MovesRow, TRANSITIONS, Claimed, JobState
    <3>. QED
      BY <3>1 DEF RowStep, JobState
  <2>3. CASE SubmitQueue(j)
    <3>1. MovesRow(j, "validated", "queued")
      BY <2>3 DEF SubmitQueue, MovesRow, TRANSITIONS, Claimed, JobState
    <3>. QED
      BY <3>1 DEF RowStep, JobState
  <2>4. CASE SubmitEnqueue(j)
    BY <2>4 DEF SubmitEnqueue, RowStep, dbVars
  <2>. QED
    BY <1>9, <2>1, <2>2, <2>3, <2>4 DEF Submit
<1>10. ASSUME NEW j \in Job, ApiCrash(j) \/ LeaseExpires(j) \/ LeasePaused(j) \/ Age(j)
       PROVE  UNCHANGED <<state, attempts, queuedEvents>>
  BY <1>10 DEF ApiCrash, LeaseExpires, LeasePaused, Age, dbVars
<1>11. CASE QueueLoss \/ UNCHANGED vars
  BY <1>11 DEF QueueLoss, vars, dbVars, RowStep
<1>. QED
  BY <1>1, <1>2, <1>3, <1>4, <1>5, <1>6, <1>7, <1>8, <1>9, <1>10, <1>11 DEF Next, MainThread, RowStep

--------------------------------------------------------------------------------
(* Theorems about the rows.                                                *)

(* A row is inserted once: before its request ran there is none.           *)
Unsubmitted == \A j \in Job : api[j] = "idle" => state[j] = "absent"

RowInv == TypeInv /\ FailReadsLive /\ Unsubmitted

(* The empty table satisfies it.                                           *)
LEMMA InitRowInv == Init => RowInv
BY InitType DEF Init, RowInv, FailReadsLive, Unsubmitted

(* No step sets a request back to idle.                                    *)
LEMMA NextIdle ==
  ASSUME TypeInv, [Next]_vars, NEW j \in Job, api'[j] = "idle"
  PROVE  api[j] = "idle" /\ ~\E k \in Job : k = j /\ SubmitInsert(k)
<1> USE DEF TypeInv, TypeOK
<1>1. ASSUME NEW k \in Job, Submit(k) \/ ApiCrash(k) PROVE api[j] = "idle"
  BY <1>1 DEF Submit, SubmitInsert, SubmitValidate, SubmitQueue, SubmitEnqueue, ApiCrash
<1>2. ASSUME NEW k \in Job, LeaseExpires(k) \/ LeasePaused(k) \/ Age(k) PROVE UNCHANGED api
  BY <1>2 DEF LeaseExpires, LeasePaused, Age
<1>3. ASSUME NEW w \in Worker, MainThread(w) PROVE UNCHANGED api
  BY <1>3 DEF MainThread, Reserve, ReserveTimeout, ReapSelect, ReapRow, ReapRequeue, ReapEnqueue,
       ReapExhaust, ReconcileRead, ReconcileSelect, Reenqueue, ReconcileDone, Claim, FirstHeartbeat,
       Progress, Finish, RetryRead, RetryRequeue, RetryEnqueue, RetryExhaust, ExceptRead, ExceptFail,
       Ack, Exit
<1>4. ASSUME NEW w \in Worker, Heartbeat(w) \/ Stop(w) \/ Crash(w) \/ Restart(w) PROVE UNCHANGED api
  BY <1>4 DEF Heartbeat, Stop, Crash, Restart
<1>5. ASSUME QueueLoss \/ UNCHANGED vars PROVE UNCHANGED api
  BY <1>5 DEF QueueLoss, vars
<1>6. api[j] = "idle"
  BY <1>1, <1>2, <1>3, <1>4, <1>5 DEF Next
<1>7. ~SubmitInsert(j)
  BY DEF SubmitInsert
<1>. QED
  BY <1>6, <1>7

(* Every kind of row step keeps it.                                        *)
LEMMA NextRowInv == RowInv /\ [Next]_vars => RowInv'
<1> SUFFICES ASSUME RowInv, [Next]_vars PROVE RowInv'
  OBVIOUS
<1>1. TypeInv' /\ FailReadsLive'
  BY NextType, NextFailReadsLive DEF RowInv
<1>2. ASSUME NEW j \in Job, api'[j] = "idle" PROVE state'[j] = "absent"
  <2>1. api[j] = "idle" /\ ~SubmitInsert(j) /\ state[j] = "absent"
    BY <1>2, NextIdle DEF RowInv, Unsubmitted
  <2>2. RowStep
    BY NextRowStep DEF RowInv
  <2>3. ASSUME NEW k \in Job, SubmitInsert(k) PROVE state'[j] = "absent"
    BY <2>1, <2>3 DEF SubmitInsert, RowInv, TypeInv, TypeOK
  <2>4. ASSUME NEW k \in Job, ClaimsRow(k) PROVE state'[j] = "absent"
    BY <2>1, <2>4 DEF ClaimsRow, RowInv, TypeInv, TypeOK
  <2>5. ASSUME NEW k \in Job, NEW src \in JobState, NEW dst \in JobState, MovesRow(k, src, dst)
        PROVE  state'[j] = "absent"
    <3>1. src # "absent"
      BY DEF JobState
    <3>. QED
      BY <2>1, <2>5, <3>1 DEF MovesRow, Transition, Won, RowInv, TypeInv, TypeOK
  <2>. QED
    BY <2>1, <2>2, <2>3, <2>4, <2>5 DEF RowStep
<1>. QED
  BY <1>1, <1>2 DEF RowInv, Unsubmitted

(* So it holds throughout.                                                 *)
LEMMA RowInvariant == Spec => []RowInv
BY InitRowInv, NextRowInv, PTL DEF Spec

(* Duplicate deliveries are harmless: an entry of a row into "queued" is   *)
(* claimed at most once, however often and by whomever its id is delivered.*)
THEOREM ClaimedOnce == Spec => []ClaimedOncePerQueueing
<1>1. Init => ClaimedOncePerQueueing
  BY DEF Init, ClaimedOncePerQueueing
<1>2. RowInv /\ ClaimedOncePerQueueing /\ [Next]_vars => ClaimedOncePerQueueing'
  <2> SUFFICES ASSUME RowInv, ClaimedOncePerQueueing, [Next]_vars, NEW j \in Job
               PROVE  (attempts[j] + (IF state[j] = "queued" THEN 1 ELSE 0) <= queuedEvents[j])'
    BY DEF ClaimedOncePerQueueing
  <2> USE DEF RowInv, TypeInv, TypeOK
  <2>1. attempts[j] + (IF state[j] = "queued" THEN 1 ELSE 0) <= queuedEvents[j]
    BY DEF ClaimedOncePerQueueing
  <2>2. RowStep
    BY NextRowStep
  <2>3. ASSUME NEW k \in Job, SubmitInsert(k)
        PROVE  (attempts[j] + (IF state[j] = "queued" THEN 1 ELSE 0) <= queuedEvents[j])'
    BY <2>1, <2>3 DEF SubmitInsert
  <2>4. ASSUME NEW k \in Job, ClaimsRow(k)
        PROVE  (attempts[j] + (IF state[j] = "queued" THEN 1 ELSE 0) <= queuedEvents[j])'
    BY <2>1, <2>4 DEF ClaimsRow, First
  <2>5. ASSUME NEW k \in Job, NEW src \in JobState, NEW dst \in JobState, MovesRow(k, src, dst)
        PROVE  (attempts[j] + (IF state[j] = "queued" THEN 1 ELSE 0) <= queuedEvents[j])'
    <3>1. CASE Won(k, src)
      <4>1. /\ state' = [state EXCEPT ![k] = dst]
            /\ queuedEvents' = [queuedEvents EXCEPT ![k] = IF dst = "queued" THEN @ + 1 ELSE @]
            /\ attempts' = attempts
        BY <2>5, <3>1 DEF MovesRow, Transition
      <4>2. state[k] = "queued" => dst # "queued"
        BY <2>5, <3>1 DEF MovesRow, Won, TRANSITIONS, Fail
      <4>. QED
        BY <2>1, <4>1, <4>2
    <3>2. CASE ~Won(k, src)
      BY <2>1, <2>5, <3>2 DEF MovesRow, Transition
    <3>. QED
      BY <3>1, <3>2
  <2>. QED
    BY <2>1, <2>2, <2>3, <2>4, <2>5 DEF RowStep
<1>. QED
  BY <1>1, <1>2, RowInvariant, PTL DEF Spec

(* The detailed job system implements the lifecycle a client is promised:  *)
(* every step of any actor is a step of the state machine of one job, or   *)
(* leaves the rows' states and attempts alone.                             *)
THEOREM LifecycleImplemented == Spec => ImplementsLifecycle
<1>1. Init => Lifecycle!LifecycleInit
  BY DEF Init, Lifecycle!LifecycleInit
<1>2. RowInv /\ [Next]_vars => [Lifecycle!LifecycleNext]_(Lifecycle!lifecycleVars)
  <2> SUFFICES ASSUME RowInv, [Next]_vars
               PROVE  Lifecycle!LifecycleNext \/ UNCHANGED <<state, attempts>>
    BY DEF Lifecycle!lifecycleVars
  <2>1. RowStep
    BY NextRowStep DEF RowInv
  <2>2. ASSUME NEW j \in Job, SubmitInsert(j) PROVE Lifecycle!LifecycleNext
    <3>1. Lifecycle!Create(j)
      BY <2>2 DEF SubmitInsert, RowInv, Unsubmitted, Lifecycle!Create
    <3>. QED
      BY <3>1 DEF Lifecycle!LifecycleNext
  <2>3. ASSUME NEW j \in Job, ClaimsRow(j) PROVE Lifecycle!LifecycleNext
    <3>1. Lifecycle!SpendAttempt(j)
      BY <2>3 DEF ClaimsRow, First, Lifecycle!SpendAttempt, Lifecycle!FirstState
    <3>. QED
      BY <3>1 DEF Lifecycle!LifecycleNext
  <2>4. ASSUME NEW j \in Job, NEW src \in JobState, NEW dst \in JobState, MovesRow(j, src, dst)
        PROVE  Lifecycle!LifecycleNext \/ UNCHANGED <<state, attempts>>
    <3>1. CASE Won(j, src)
      <4>1. state[j] # "absent"
        BY <3>1 DEF Won, JobState
      <4>2. Lifecycle!Move(j, dst)
        BY <2>4, <3>1, <4>1 DEF MovesRow, Transition, Won, Claimed, Lifecycle!Move, Lifecycle!Claimed,
             TRANSITIONS, Lifecycle!TRANSITIONS, Fail, Lifecycle!Fail
      <4>. QED
        BY <4>2 DEF Lifecycle!LifecycleNext, JobState, Lifecycle!JobState
    <3>2. CASE ~Won(j, src)
      BY <2>4, <3>2 DEF MovesRow, Transition
    <3>. QED
      BY <3>1, <3>2
  <2>. QED
    BY <2>1, <2>2, <2>3, <2>4 DEF RowStep
<1>. QED
  BY <1>1, <1>2, RowInvariant, PTL DEF Spec, ImplementsLifecycle, Lifecycle!LifecycleSpec

--------------------------------------------------------------------------------
(* Theorems about attempts and their owners.                               *)

(* What a step may do to what the workers hold: a claim puts one job into  *)
(* the hands of one worker; every other step spends no attempt, names no   *)
(* new owner, and leaves the hands of busy workers as they are or empties  *)
(* them.                                                                   *)
Takes(w) ==
  /\ job[w] \in Job
  /\ attempts' = [attempts EXCEPT ![job[w]] = @ + 1]
  /\ owner' = [owner EXCEPT ![job[w]] = w]
  /\ att' = [att EXCEPT ![w] = attempts[job[w]] + 1]
  /\ pc' = [pc EXCEPT ![w] = "beat"]
  /\ job' = job
Holds(v) ==
  pc'[v] \in Handling => pc[v] \in Handling /\ job'[v] = job[v] /\ att'[v] = att[v]
KeepsHands ==
  /\ UNCHANGED attempts
  /\ \A j \in Job : owner'[j] = owner[j] \/ owner'[j] = None
  /\ \A v \in Worker : Holds(v)

(* Every step is one of these for the jobs in the workers' hands.          *)
LEMMA NextHands == TypeInv /\ [Next]_vars => KeepsHands \/ \E w \in Worker : Takes(w)
<1> SUFFICES ASSUME TypeInv, [Next]_vars PROVE KeepsHands \/ \E w \in Worker : Takes(w)
  OBVIOUS
<1> USE DEF TypeInv, TypeOK, At, Goto
<1>1. ASSUME NEW w \in Worker,
             Reserve(w) \/ ReserveTimeout(w) \/ ReapSelect(w) \/ ReapEnqueue(w) \/ ReconcileRead(w)
             \/ ReconcileSelect(w) \/ Reenqueue(w) \/ ReconcileDone(w) \/ Restart(w)
      PROVE  KeepsHands
  BY <1>1 DEF Reserve, ReserveTimeout, ReapSelect, ReapEnqueue, ReconcileRead, ReconcileSelect,
       Reenqueue, ReconcileDone, Restart, KeepsHands, Holds, Handling, dbVars
<1>2. ASSUME NEW w \in Worker, ReapRow(w) PROVE KeepsHands
  <2>1. UNCHANGED <<attempts, owner, att>>
    BY <1>2 DEF ReapRow, Transition
  <2>2. ASSUME NEW v \in Worker PROVE Holds(v)
    BY <1>2, <2>1 DEF ReapRow, AfterReap, Holds, Handling
  <2>. QED
    BY <2>1, <2>2 DEF KeepsHands
<1>3. ASSUME NEW w \in Worker, ReapRequeue(w) \/ ReapExhaust(w) PROVE KeepsHands
  BY <1>3 DEF ReapRequeue, ReapExhaust, Transition, KeepsHands, Holds, Handling
<1>4. ASSUME NEW w \in Worker, Claim(w) PROVE KeepsHands \/ Takes(w)
  <2>1. job[w] \in Job
    BY <1>4 DEF HoldsJob, Holding, Claim
  <2>2. CASE Claimable(job[w])
    BY <1>4, <2>1, <2>2 DEF Claim, Takes, SpentAttempt, NewOwner
  <2>3. CASE ~Claimable(job[w])
    BY <1>4, <2>3 DEF Claim, KeepsHands, Holds, Handling
  <2>. QED
    BY <2>2, <2>3
<1>5. ASSUME NEW w \in Worker, FirstHeartbeat(w) \/ Heartbeat(w) PROVE KeepsHands
  BY <1>5 DEF FirstHeartbeat, Heartbeat, KeepsHands, Holds, Handling, workerVars
<1>6. ASSUME NEW w \in Worker, Progress(w) PROVE KeepsHands
  <2>1. UNCHANGED <<attempts, owner, job, att>>
    BY <1>6 DEF Progress, Transition, dbVars
  <2>2. \A v \in Worker : pc'[v] = pc[v] \/ pc[v] = "run"
    BY <1>6 DEF Progress
  <2>. QED
    BY <2>1, <2>2 DEF KeepsHands, Holds, Handling
<1>7. ASSUME NEW w \in Worker, Finish(w) PROVE KeepsHands
  <2>1. UNCHANGED <<attempts, owner, job, att>>
    BY <1>7 DEF Finish, Transition, dbVars
  <2>2. \A v \in Worker : pc'[v] = pc[v] \/ pc[v] = "run"
    BY <1>7 DEF Finish
  <2>. QED
    BY <2>1, <2>2 DEF KeepsHands, Holds, Handling
<1>8. ASSUME NEW w \in Worker,
             RetryRead(w) \/ RetryRequeue(w) \/ RetryEnqueue(w) \/ RetryExhaust(w)
             \/ ExceptRead(w) \/ ExceptFail(w)
      PROVE  KeepsHands
  <2>1. UNCHANGED <<attempts, owner, job, att>>
    BY <1>8 DEF RetryRead, RetryRequeue, RetryEnqueue, RetryExhaust, ExceptRead, ExceptFail,
         Transition, dbVars
  <2>2. \A v \in Worker : pc'[v] = pc[v] \/ pc[v] \in Handling
    BY <1>8 DEF RetryRead, RetryRequeue, RetryEnqueue, RetryExhaust, ExceptRead, ExceptFail, Handling
  <2>. QED
    BY <2>1, <2>2 DEF KeepsHands, Holds
<1>9. ASSUME NEW w \in Worker, Ack(w) \/ Stop(w) PROVE KeepsHands
  BY <1>9 DEF Ack, Stop, KeepsHands, Holds, Handling, dbVars
<1>10. ASSUME NEW w \in Worker, Exit(w) \/ Crash(w) PROVE KeepsHands
  BY <1>10 DEF Exit, Crash, Disown, Forget, KeepsHands, Holds, Handling
<1>11. ASSUME NEW j \in Job, Submit(j) PROVE KeepsHands
  BY <1>11 DEF Submit, SubmitInsert, SubmitValidate, SubmitQueue, SubmitEnqueue, Transition,
       KeepsHands, Holds, dbVars, workerVars
<1>12. ASSUME NEW j \in Job, ApiCrash(j) \/ LeaseExpires(j) \/ LeasePaused(j) \/ Age(j) PROVE KeepsHands
  BY <1>12 DEF ApiCrash, LeaseExpires, LeasePaused, Age, KeepsHands, Holds, dbVars, workerVars
<1>13. ASSUME QueueLoss \/ UNCHANGED vars PROVE KeepsHands
  BY <1>13 DEF QueueLoss, vars, KeepsHands, Holds, dbVars, workerVars
<1>. QED
  BY <1>1, <1>2, <1>3, <1>4, <1>5, <1>6, <1>7, <1>8, <1>9, <1>10, <1>11, <1>12, <1>13
     DEF Next, MainThread

(* The strengthening: an attempt in somebody's hands is not a later one    *)
(* than the row counts, it is the row's own if the row names its holder,   *)
(* and no two workers hold the same one.                                   *)
HandsInv ==
  \A w \in Worker : pc[w] \in Handling =>
    /\ att[w] <= attempts[job[w]]
    /\ owner[job[w]] = w => att[w] = attempts[job[w]]
    /\ \A v \in Worker \ {w} : pc[v] \in Handling /\ job[v] = job[w] => att[v] # att[w]

(* A claim takes an attempt nobody has, and nothing else takes a job.      *)
LEMMA NextHandsInv == TypeInv /\ HandsInv /\ [Next]_vars => HandsInv'
<1> SUFFICES ASSUME TypeInv, HandsInv, [Next]_vars PROVE HandsInv'
  OBVIOUS
<1> USE DEF TypeInv, TypeOK, HandsInv
<1>1. CASE KeepsHands
  <2>1. \A w \in Worker : pc[w] \in Handling => job[w] \in Job
    BY DEF HoldsJob, Holding
  <2>. QED
    BY <1>1, <2>1, ConstantsAssumption DEF KeepsHands, Holds
<1>2. ASSUME NEW u \in Worker, Takes(u) PROVE HandsInv'
  <2> SUFFICES ASSUME NEW w \in Worker, pc'[w] \in Handling
               PROVE  /\ att'[w] <= attempts'[job'[w]]
                      /\ owner'[job'[w]] = w => att'[w] = attempts'[job'[w]]
                      /\ \A v \in Worker \ {w} : pc'[v] \in Handling /\ job'[v] = job'[w] => att'[v] # att'[w]
    OBVIOUS
  <2>1. \A v \in Worker \ {u} :
          pc'[v] \in Handling => /\ pc[v] \in Handling /\ job[v] \in Job
                                 /\ att'[v] = att[v] /\ att[v] <= attempts[job[v]]
    BY <1>2 DEF Takes, HoldsJob, Holding
  <2>2. att'[u] = attempts[job[u]] + 1 /\ attempts'[job[u]] = attempts[job[u]] + 1 /\ job' = job
    BY <1>2 DEF Takes
  <2>3. \A j \in Job : attempts'[j] >= attempts[j] /\ (j # job[u] => attempts'[j] = attempts[j] /\ owner'[j] = owner[j])
    BY <1>2 DEF Takes
  <2>4. owner'[job[u]] = u
    BY <1>2 DEF Takes
  <2>5. CASE w = u
    BY <1>2, <2>1, <2>2, <2>5 DEF Takes
  <2>6. CASE w # u
    <3>1. /\ pc[w] \in Handling /\ job[w] \in Job /\ job'[w] = job[w]
          /\ att'[w] = att[w] /\ att[w] <= attempts[job[w]]
      BY <2>1, <2>2, <2>6
    <3>2. attempts[job[w]] \in Nat /\ attempts'[job[w]] \in Nat /\ att[w] \in Nat
      BY <1>2, <3>1 DEF Takes
    <3>3. att'[w] <= attempts'[job'[w]]
      BY <2>3, <3>1, <3>2
    <3>4. owner'[job'[w]] = w => att'[w] = attempts'[job'[w]]
      BY <2>3, <2>4, <2>6, <3>1
    <3>5. ASSUME NEW v \in Worker \ {w}, pc'[v] \in Handling, job'[v] = job'[w]
          PROVE  att'[v] # att'[w]
      <4>1. CASE v = u
        BY <2>2, <3>1, <3>2, <3>5, <4>1
      <4>2. CASE v # u
        BY <2>1, <2>2, <3>1, <3>5, <4>2
      <4>. QED
        BY <4>1, <4>2
    <3>. QED
      BY <3>3, <3>4, <3>5
  <2>. QED
    BY <2>5, <2>6
<1>. QED
  BY <1>1, <1>2, NextHands

(* Two workers busy with one job, the one that lost its lease and the one  *)
(* that claimed the retry, never believe they run the same attempt.        *)
THEOREM DistinctAttempts == Spec => []AttemptsAreDistinct
<1>1. Init => TypeInv /\ HandsInv
  BY InitType DEF Init, HandsInv, Handling
<1>2. TypeInv /\ HandsInv /\ [Next]_vars => (TypeInv /\ HandsInv)'
  BY NextType, NextHandsInv
<1>3. TypeInv /\ HandsInv => AttemptsAreDistinct
  BY DEF HandsInv, AttemptsAreDistinct, Current
<1>. QED
  BY <1>1, <1>2, <1>3, PTL DEF Spec

(* A worker that lost its job cannot keep a later attempt's lease alive.   *)
THEOREM OwnHeartbeats == Spec => []HeartbeatKeepsOwnAttempt
<1>1. Init => TypeInv /\ HandsInv
  BY InitType DEF Init, HandsInv, Handling
<1>2. TypeInv /\ HandsInv /\ [Next]_vars => (TypeInv /\ HandsInv)'
  BY NextType, NextHandsInv
<1>3. TypeInv /\ HandsInv => HeartbeatKeepsOwnAttempt
  BY DEF HandsInv, HeartbeatKeepsOwnAttempt, Current
<1>. QED
  BY <1>1, <1>2, <1>3, PTL DEF Spec

--------------------------------------------------------------------------------
(* Nobody is stranded before the first crash.                              *)

(* What a step owes to each row, while no process has died: a row that     *)
(* rests in failed_retryable keeps the workers that are to move it on, and *)
(* one that arrives there gets one; rows in received and validated stay in *)
(* step with their request.                                                *)
KeepsMovers(j) ==
  state'[j] = "failed_retryable" =>
    \/ \E w \in Worker : MovesOn(w, j)'
    \/ state[j] = "failed_retryable" /\ \A w \in Worker : MovesOn(w, j) => MovesOn(w, j)'
KeepsRequest(j) ==
  state'[j] \in {"received", "validated"} =>
    api'[j] = state'[j] \/ (state'[j] = state[j] /\ api'[j] = api[j])
Moving(label) == label \in {"retry", "requeue", "exhaust", "reapRequeue", "reapExhaust"}

(* As long as nobody dies, every step leaves an intermediate row with its  *)
(* mover, or takes it on.                                                  *)
LEMMA NextMovers ==
  ASSUME TypeInv, FailReadsLive, NobodyStranded, [Next]_vars, crashes' = 0, NEW j \in Job
  PROVE  KeepsMovers(j) /\ KeepsRequest(j) /\ crashes = 0
<1> USE DEF TypeInv, TypeOK, At, Goto
<1>1. ASSUME NEW w \in Worker,
             Reserve(w) \/ ReserveTimeout(w) \/ ReapSelect(w) \/ ReapEnqueue(w) \/ ReconcileRead(w)
             \/ ReconcileSelect(w) \/ Reenqueue(w) \/ ReconcileDone(w) \/ Restart(w) \/ Ack(w)
             \/ RetryEnqueue(w) \/ ExceptRead(w) \/ FirstHeartbeat(w) \/ Heartbeat(w) \/ Stop(w)
             \/ Exit(w)
      PROVE  KeepsMovers(j) /\ KeepsRequest(j) /\ crashes = 0
  <2>1. UNCHANGED <<state, api, crashes>>
    BY <1>1 DEF Reserve, ReserveTimeout, ReapSelect, ReapEnqueue, ReconcileRead, ReconcileSelect,
         Reenqueue, ReconcileDone, Restart, Ack, RetryEnqueue, ExceptRead, FirstHeartbeat, Heartbeat,
         Stop, Exit, dbVars, budgetVars
  <2>2. \A v \in Worker : (pc'[v] = pc[v] /\ job'[v] = job[v]) \/ ~Moving(pc[v])
    BY <1>1 DEF Reserve, ReserveTimeout, ReapSelect, ReapEnqueue, ReconcileRead, ReconcileSelect,
         Reenqueue, ReconcileDone, Restart, Ack, RetryEnqueue, ExceptRead, FirstHeartbeat, Heartbeat,
         Stop, Exit, Forget, workerVars, Moving
  <2>. QED
    BY <2>1, <2>2 DEF KeepsMovers, KeepsRequest, MovesOn, Moving
<1>2. ASSUME NEW w \in Worker, ReapRow(w) PROVE KeepsMovers(j) /\ KeepsRequest(j) /\ crashes = 0
  <2>1. PICK r \in rows[w] :
         /\ Transition(r.job, r.state, "failed_retryable")
         /\ IF Won(r.job, r.state)
            THEN job' = [job EXCEPT ![w] = r.job] /\ Goto(w, AfterReap(r))
            ELSE UNCHANGED <<job, pc>>
    BY <1>2 DEF ReapRow
  <2>2. r.job \in Job /\ AfterReap(r) \in {"reapRequeue", "reapExhaust"} /\ pc[w] = "reap"
    BY <1>2 DEF Row, AfterReap, ReapRow
  <2>3. UNCHANGED <<api, crashes>>
    BY <1>2 DEF ReapRow, budgetVars
  <2>4. CASE Won(r.job, r.state)
    <3>1. /\ state' = [state EXCEPT ![r.job] = "failed_retryable"]
          /\ job' = [job EXCEPT ![w] = r.job] /\ pc' = [pc EXCEPT ![w] = AfterReap(r)]
      BY <2>1, <2>4 DEF Transition
    <3>2. MovesOn(w, r.job)'
      BY <2>2, <3>1 DEF MovesOn
    <3>3. \A v \in Worker : MovesOn(v, j) => MovesOn(v, j)'
      BY <2>2, <3>1 DEF MovesOn
    <3>. QED
      BY <2>2, <2>3, <3>1, <3>2, <3>3 DEF KeepsMovers, KeepsRequest
  <2>5. CASE ~Won(r.job, r.state)
    BY <2>1, <2>3, <2>5 DEF Transition, KeepsMovers, KeepsRequest, MovesOn
  <2>. QED
    BY <2>4, <2>5
<1>3. ASSUME NEW w \in Worker, ReapRequeue(w) \/ ReapExhaust(w) \/ RetryRequeue(w) \/ RetryExhaust(w)
      PROVE  KeepsMovers(j) /\ KeepsRequest(j) /\ crashes = 0
  <2>1. PICK dst \in {"queued", "failed_terminal"} : Transition(job[w], "failed_retryable", dst)
    BY <1>3 DEF ReapRequeue, ReapExhaust, RetryRequeue, RetryExhaust
  <2>2. UNCHANGED <<api, crashes>>
    BY <1>3 DEF ReapRequeue, ReapExhaust, RetryRequeue, RetryExhaust, budgetVars
  <2>3. \A v \in Worker \ {w} : pc'[v] = pc[v] /\ job'[v] = job[v]
    BY <1>3 DEF ReapRequeue, ReapExhaust, RetryRequeue, RetryExhaust
  <2>4. j = job[w] => state'[j] # "failed_retryable"
    BY <2>1 DEF Transition, Won
  <2>5. j # job[w] => state'[j] = state[j]
    BY <2>1 DEF Transition
  <2>6. state'[j] = state[j] \/ state'[j] = "queued" \/ state'[j] = "failed_terminal"
    BY <2>1 DEF Transition
  <2>. QED
    BY <2>2, <2>3, <2>4, <2>5, <2>6 DEF KeepsMovers, KeepsRequest, MovesOn
<1>4. ASSUME NEW w \in Worker, Claim(w) PROVE KeepsMovers(j) /\ KeepsRequest(j) /\ crashes = 0
  <2>1. UNCHANGED <<api, crashes, job>> /\ \A v \in Worker : pc'[v] = pc[v] \/ pc[v] = "claim"
    BY <1>4 DEF Claim, budgetVars
  <2>2. state'[j] = state[j] \/ state'[j] \in {"parsing", "training"}
    BY <1>4 DEF Claim, First
  <2>. QED
    BY <2>1, <2>2 DEF KeepsMovers, KeepsRequest, MovesOn
<1>5. ASSUME NEW w \in Worker, Progress(w) PROVE KeepsMovers(j) /\ KeepsRequest(j) /\ crashes = 0
  <2>1. UNCHANGED <<api, crashes, job>> /\ \A v \in Worker : pc'[v] = pc[v] \/ pc[v] = "run"
    BY <1>5 DEF Progress, budgetVars
  <2>2. Stage[stage[w] + 1] \in {"normalizing", "extracting", "validating_outputs"}
    <3>1. stage[w] = 0 \/ stage[w] = 1 \/ stage[w] = 2
      BY <1>5 DEF Progress, Stage
    <3>. QED
      BY <3>1 DEF Stage
  <2>3. PICK target : target = Stage[stage[w] + 1]
    OBVIOUS
  <2>4. Transition(job[w], cur[w], target) \/ UNCHANGED state
    BY <1>5, <2>3 DEF Progress, dbVars
  <2>5. state'[j] = state[j] \/ state'[j] = target
    BY <2>4 DEF Transition
  <2>. QED
    BY <2>1, <2>2, <2>3, <2>5 DEF KeepsMovers, KeepsRequest, MovesOn
<1>6. ASSUME NEW w \in Worker, Finish(w) PROVE KeepsMovers(j) /\ KeepsRequest(j) /\ crashes = 0
  <2>1. UNCHANGED <<api, crashes, job>> /\ pc[w] = "run"
    BY <1>6 DEF Finish, budgetVars
  <2>2. PICK o \in Outcomes :
         IF o = "raise" \/ ~Legal(cur[w], o)
         THEN Goto(w, "except") /\ UNCHANGED dbVars
         ELSE /\ Transition(job[w], cur[w], o)
              /\ Goto(w, IF o = "failed_retryable" /\ Won(job[w], cur[w]) THEN "retry" ELSE "ack")
    BY <1>6 DEF Finish
  <2>3. o \notin {"received", "validated"} /\ job[w] \in Job
    BY <1>6, ConstantsAssumption DEF OutcomeSet, HoldsJob, Holding, Handling, Finish
  <2>4. \A v \in Worker : pc'[v] = pc[v] \/ pc[v] = "run"
    BY <2>1, <2>2
  <2>5. state'[j] = state[j] \/ (state'[j] = o /\ j = job[w] /\ Transition(job[w], cur[w], o)
         /\ Won(job[w], cur[w]) /\ pc' = [pc EXCEPT ![w] = IF o = "failed_retryable" THEN "retry" ELSE "ack"])
    BY <2>2, <2>3 DEF Transition, dbVars
  <2>6. CASE state'[j] = state[j]
    BY <2>1, <2>4, <2>6 DEF KeepsMovers, KeepsRequest, MovesOn
  <2>7. CASE state'[j] = o /\ j = job[w] /\ pc' = [pc EXCEPT ![w] = IF o = "failed_retryable" THEN "retry" ELSE "ack"]
    BY <2>1, <2>3, <2>7 DEF KeepsMovers, KeepsRequest, MovesOn
  <2>. QED
    BY <2>5, <2>6, <2>7
<1>7. ASSUME NEW w \in Worker, ExceptFail(w) PROVE KeepsMovers(j) /\ KeepsRequest(j) /\ crashes = 0
  <2>1. UNCHANGED <<api, crashes, job>> /\ \A v \in Worker : pc'[v] = pc[v] \/ pc[v] = "fail"
    BY <1>7 DEF ExceptFail, budgetVars
  <2>2. state'[j] = state[j] \/ state'[j] = "failed_terminal"
    BY <1>7 DEF ExceptFail, Transition
  <2>. QED
    BY <2>1, <2>2 DEF KeepsMovers, KeepsRequest, MovesOn
<1>8. ASSUME NEW k \in Job, Submit(k) PROVE KeepsMovers(j) /\ KeepsRequest(j) /\ crashes = 0
  <2>1. UNCHANGED <<pc, job, crashes>>
    BY <1>8 DEF Submit, SubmitInsert, SubmitValidate, SubmitQueue, SubmitEnqueue, workerVars, budgetVars
  <2>2. CASE SubmitInsert(k)
    BY <2>1, <2>2 DEF SubmitInsert, KeepsMovers, KeepsRequest, MovesOn
  <2>3. CASE SubmitValidate(k)
    <3>1. crashes = 0 /\ (state[k] = "validated" => api[k] = "validated")
      BY <2>1 DEF NobodyStranded
    <3>. QED
      BY <2>1, <2>3, <3>1 DEF SubmitValidate, Transition, Won, KeepsMovers, KeepsRequest, MovesOn
  <2>4. CASE SubmitQueue(k)
    <3>1. crashes = 0 /\ (state[k] = "received" => api[k] = "received")
      BY <2>1 DEF NobodyStranded
    <3>. QED
      BY <2>1, <2>4, <3>1 DEF SubmitQueue, Transition, Won, KeepsMovers, KeepsRequest, MovesOn
  <2>5. CASE SubmitEnqueue(k)
    <3>1. crashes = 0 /\ (state[k] \in {"received", "validated"} => api[k] = state[k])
      BY <2>1 DEF NobodyStranded
    <3>. QED
      BY <2>1, <2>5, <3>1 DEF SubmitEnqueue, dbVars, KeepsMovers, KeepsRequest, MovesOn
  <2>. QED
    BY <1>8, <2>2, <2>3, <2>4, <2>5 DEF Submit
<1>9. ASSUME NEW k \in Job, LeaseExpires(k) \/ LeasePaused(k) \/ Age(k)
      PROVE  KeepsMovers(j) /\ KeepsRequest(j) /\ crashes = 0
  BY <1>9 DEF LeaseExpires, LeasePaused, Age, KeepsMovers, KeepsRequest, MovesOn, workerVars, budgetVars
<1>10. ASSUME QueueLoss \/ UNCHANGED vars PROVE KeepsMovers(j) /\ KeepsRequest(j) /\ crashes = 0
  BY <1>10 DEF QueueLoss, vars, KeepsMovers, KeepsRequest, MovesOn, dbVars, workerVars, budgetVars
<1>11. ASSUME NEW k \in Job PROVE ~ApiCrash(k)
  BY DEF ApiCrash
<1>12. ASSUME NEW w \in Worker PROVE ~Crash(w)
  BY DEF Crash
<1>13. ASSUME NEW w \in Worker, RetryRead(w) PROVE KeepsMovers(j) /\ KeepsRequest(j) /\ crashes = 0
  <2>1. UNCHANGED <<state, api, job, crashes>>
    BY <1>13 DEF RetryRead, dbVars, budgetVars
  <2>2. pc' = [pc EXCEPT ![w] = AfterRetry(job[w])] /\ AfterRetry(job[w]) \in {"requeue", "exhaust"}
    BY <1>13 DEF RetryRead, AfterRetry
  <2>. QED
    BY <2>1, <2>2 DEF KeepsMovers, KeepsRequest, MovesOn
<1>. QED
  BY <1>1, <1>2, <1>3, <1>4, <1>5, <1>6, <1>7, <1>8, <1>9, <1>10, <1>11, <1>12, <1>13 DEF Next, MainThread

(* Whoever has the id of a queued job, or the queue.                       *)
Delivered(j) == InQueue(j) \/ api[j] = "queued" \/ \E w \in Worker : Delivers(w, j)
KeepsDelivery(j) ==
  losses' = 0 /\ state'[j] = "queued" =>
    Delivered(j)' \/ (losses = 0 /\ state[j] = "queued" /\ (Delivered(j) => Delivered(j)'))
Delivering(label) == label \in {"claim", "enqueue", "reapEnqueue"}

(* An id that is added to the queue is in it, with all that were there.    *)
LEMMA EnqueueAdds ==
  ASSUME TypeOK, NEW k \in Job, Enqueue(k), NEW j
  PROVE  (InQueue(j) => InQueue(j)') /\ InQueue(k)'
<1>1. queue \in Seq(Job) /\ queue' = Append(queue, k)
  BY DEF TypeOK, Enqueue
<1>2. Len(queue) \in Nat /\ DOMAIN queue = 1..Len(queue) /\ DOMAIN queue' = 1..(Len(queue) + 1)
  BY <1>1
<1>3. queue'[Len(queue) + 1] = k /\ \A i \in 1..Len(queue) : queue'[i] = queue[i]
  BY <1>1
<1>. QED
  BY <1>2, <1>3 DEF InQueue

(* An id that leaves the queue is in the hands of the worker that took it. *)
LEMMA ReserveTakes ==
  ASSUME TypeOK, NEW w \in Worker, Reserve(w), NEW j, InQueue(j)
  PROVE  InQueue(j)' \/ Delivers(w, j)'
<1>1. queue \in Seq(Job) /\ queue # <<>> /\ queue' = Tail(queue) /\ job'[w] = queue[1] /\ pc'[w] = "claim"
  BY DEF TypeOK, Reserve, Goto
<1>2. Len(queue) \in Nat /\ DOMAIN queue = 1..Len(queue) /\ DOMAIN queue' = 1..(Len(queue) - 1)
  BY <1>1
<1>3. \A i \in 1..(Len(queue) - 1) : queue'[i] = queue[i + 1]
  BY <1>1
<1>4. PICK i \in 1..Len(queue) : queue[i] = j
  BY <1>2 DEF InQueue
<1>5. CASE i = 1
  BY <1>1, <1>4, <1>5 DEF Delivers
<1>6. CASE i # 1
  <2>1. i - 1 \in 1..(Len(queue) - 1) /\ (i - 1) + 1 = i
    BY <1>2, <1>4, <1>6
  <2>. QED
    BY <1>2, <1>3, <1>4, <2>1 DEF InQueue
<1>. QED
  BY <1>5, <1>6

(* As long as nobody dies and the queue is not emptied, every step leaves  *)
(* the id of a queued job where it is, or takes it one step on.            *)
LEMMA NextDelivery ==
  ASSUME TypeInv, [Next]_vars, crashes' = 0, NEW j \in Job
  PROVE  KeepsDelivery(j)
<1> USE DEF TypeInv, TypeOK, At, Goto
<1>1. ASSUME NEW w \in Worker,
             ReserveTimeout(w) \/ ReapSelect(w) \/ ReconcileRead(w)
             \/ ReconcileSelect(w) \/ ReconcileDone(w) \/ Restart(w) \/ Ack(w)
             \/ ExceptRead(w) \/ FirstHeartbeat(w) \/ Heartbeat(w) \/ Stop(w) \/ Exit(w) \/ RetryRead(w)
      PROVE  KeepsDelivery(j)
  <2>1. UNCHANGED <<state, api, queue, losses>>
    BY <1>1 DEF ReserveTimeout, ReapSelect, ReconcileRead, ReconcileSelect, ReconcileDone, Restart, Ack,
         ExceptRead, FirstHeartbeat, Heartbeat, Stop, Exit, RetryRead, dbVars, budgetVars
  <2>2. \A v \in Worker : (pc'[v] = pc[v] /\ job'[v] = job[v]) \/ ~Delivering(pc[v])
    BY <1>1 DEF ReserveTimeout, ReapSelect, ReconcileRead, ReconcileSelect, ReconcileDone, Restart, Ack,
         ExceptRead, FirstHeartbeat, Heartbeat, Stop, Exit, RetryRead, Forget, workerVars, Delivering
  <2>. QED
    BY <2>1, <2>2 DEF KeepsDelivery, Delivered, InQueue, Delivers, Delivering
<1>2. ASSUME NEW w \in Worker, ReapRow(w) PROVE KeepsDelivery(j)
  <2>1. PICK r \in rows[w] :
         /\ Transition(r.job, r.state, "failed_retryable")
         /\ IF Won(r.job, r.state)
            THEN job' = [job EXCEPT ![w] = r.job] /\ Goto(w, AfterReap(r))
            ELSE UNCHANGED <<job, pc>>
    BY <1>2 DEF ReapRow
  <2>2. UNCHANGED <<api, queue, losses>> /\ pc[w] = "reap"
    BY <1>2 DEF ReapRow, budgetVars
  <2>3. state'[j] = state[j] \/ state'[j] = "failed_retryable"
    BY <2>1 DEF Transition
  <2>4. \A v \in Worker : (pc'[v] = pc[v] /\ job'[v] = job[v]) \/ ~Delivering(pc[v])
    BY <2>1, <2>2 DEF Delivering
  <2>. QED
    BY <2>2, <2>3, <2>4 DEF KeepsDelivery, Delivered, InQueue, Delivers, Delivering
<1>3. ASSUME NEW w \in Worker, ReapRequeue(w) \/ RetryRequeue(w) PROVE KeepsDelivery(j)
  <2>1. /\ job[w] \in Job /\ Transition(job[w], "failed_retryable", "queued")
        /\ pc[w] \in {"requeue", "reapRequeue"} /\ UNCHANGED <<api, queue, losses, job>>
        /\ pc'[w] \in {"enqueue", "reapEnqueue"} /\ \A v \in Worker \ {w} : pc'[v] = pc[v]
    BY <1>3 DEF HoldsJob, Holding, Handling, Reaping, ReapRequeue, RetryRequeue, budgetVars
  <2>2. j = job[w] => Delivered(j)'
    BY <2>1 DEF Delivered, Delivers
  <2>3. j # job[w] => state'[j] = state[j]
    BY <2>1 DEF Transition
  <2>4. Delivered(j) => Delivered(j)'
    BY <2>1 DEF Delivered, Delivers, InQueue
  <2>. QED
    BY <2>1, <2>2, <2>3, <2>4 DEF KeepsDelivery
<1>4. ASSUME NEW w \in Worker, Claim(w) PROVE KeepsDelivery(j)
  <2>1. UNCHANGED <<api, queue, losses, job>> /\ pc[w] = "claim" /\ job[w] \in Job
    BY <1>4 DEF Claim, budgetVars, HoldsJob, Holding
  <2>2. CASE Claimable(job[w])
    <3>1. state' = [state EXCEPT ![job[w]] = First(job[w])] /\ \A v \in Worker \ {w} : pc'[v] = pc[v]
      BY <1>4, <2>2 DEF Claim
    <3>2. First(job[w]) # "queued"
      BY DEF First
    <3>. QED
      BY <2>1, <3>1, <3>2 DEF KeepsDelivery, Delivered, InQueue, Delivers
  <2>3. CASE ~Claimable(job[w])
    <3>1. UNCHANGED state /\ state[job[w]] # "queued" /\ \A v \in Worker \ {w} : pc'[v] = pc[v]
      BY <1>4, <2>3 DEF Claim, Claimable
    <3>. QED
      BY <2>1, <3>1 DEF KeepsDelivery, Delivered, InQueue, Delivers
  <2>. QED
    BY <2>2, <2>3
<1>5. ASSUME NEW w \in Worker, Reserve(w) PROVE KeepsDelivery(j)
  <2>1. UNCHANGED <<state, api, losses>> /\ pc[w] \in {"loop", "reserve"}
        /\ \A v \in Worker \ {w} : pc'[v] = pc[v] /\ job'[v] = job[v]
    BY <1>5 DEF Reserve, dbVars, budgetVars
  <2>2. InQueue(j) => Delivered(j)'
    BY <1>5, ReserveTakes DEF Delivered
  <2>. QED
    BY <2>1, <2>2 DEF KeepsDelivery, Delivered, Delivers
<1>6. ASSUME NEW w \in Worker, ReapEnqueue(w) \/ RetryEnqueue(w) PROVE KeepsDelivery(j)
  <2>1. job[w] \in Job /\ Enqueue(job[w]) /\ UNCHANGED <<state, api, losses>>
        /\ \A v \in Worker \ {w} : pc'[v] = pc[v] /\ job'[v] = job[v]
    BY <1>6 DEF ReapEnqueue, RetryEnqueue, HoldsJob, Holding, Handling, Reaping, dbVars, budgetVars
  <2>2. (InQueue(j) => InQueue(j)') /\ (j = job[w] => InQueue(j)')
    BY <2>1, EnqueueAdds
  <2>. QED
    BY <2>1, <2>2 DEF KeepsDelivery, Delivered, Delivers
<1>7. ASSUME NEW w \in Worker, Reenqueue(w) PROVE KeepsDelivery(j)
  <2>1. PICK k \in ids[w] : Enqueue(k)
    BY <1>7 DEF Reenqueue
  <2>2. k \in Job /\ UNCHANGED <<state, api, losses, pc, job>>
    BY <1>7 DEF Reenqueue, dbVars, budgetVars
  <2>3. InQueue(j) => InQueue(j)'
    BY <2>1, <2>2, EnqueueAdds
  <2>. QED
    BY <2>2, <2>3 DEF KeepsDelivery, Delivered, Delivers
<1>8. ASSUME NEW w \in Worker, Progress(w) \/ Finish(w) PROVE KeepsDelivery(j)
  <2>1. UNCHANGED <<api, queue, losses, job>> /\ \A v \in Worker : pc'[v] = pc[v] \/ pc[v] = "run"
    BY <1>8 DEF Progress, Finish, budgetVars
  <2>2. \A n \in 0..2 : Stage[n + 1] # "queued"
    BY DEF Stage
  <2>3. CASE Progress(w)
    <3>1. stage[w] \in 0..2
      BY <2>3 DEF Progress, Stage
    <3>2. Transition(job[w], cur[w], Stage[stage[w] + 1]) \/ UNCHANGED state
      BY <2>3 DEF Progress, dbVars
    <3>3. state'[j] = state[j] \/ state'[j] # "queued"
      BY <2>2, <3>1, <3>2 DEF Transition
    <3>. QED
      BY <2>1, <3>3 DEF KeepsDelivery, Delivered, Delivers, InQueue
  <2>4. CASE Finish(w)
    <3>1. PICK o \in Outcomes : Transition(job[w], cur[w], o) \/ UNCHANGED state
      BY <2>4 DEF Finish, dbVars
    <3>2. o # "queued"
      BY ConstantsAssumption DEF OutcomeSet
    <3>3. state'[j] = state[j] \/ state'[j] # "queued"
      BY <3>1, <3>2 DEF Transition
    <3>. QED
      BY <2>1, <3>3 DEF KeepsDelivery, Delivered, Delivers, InQueue
  <2>. QED
    BY <1>8, <2>3, <2>4
<1>9. ASSUME NEW w \in Worker, ReapExhaust(w) \/ RetryExhaust(w) \/ ExceptFail(w) PROVE KeepsDelivery(j)
  <2>1. /\ UNCHANGED <<api, queue, losses>>
        /\ \A v \in Worker : (pc'[v] = pc[v] /\ job'[v] = job[v]) \/ ~Delivering(pc[v])
    BY <1>9 DEF ReapExhaust, RetryExhaust, ExceptFail, budgetVars, Delivering
  <2>2. state'[j] = state[j] \/ state'[j] = "failed_terminal"
    BY <1>9 DEF ReapExhaust, RetryExhaust, ExceptFail, Transition
  <2>. QED
    BY <2>1, <2>2 DEF KeepsDelivery, Delivered, Delivers, Delivering, InQueue
<1>10. ASSUME NEW k \in Job, Submit(k) PROVE KeepsDelivery(j)
  <2>1. UNCHANGED <<pc, job, losses>>
    BY <1>10 DEF Submit, SubmitInsert, SubmitValidate, SubmitQueue, SubmitEnqueue, workerVars, budgetVars
  <2>2. CASE SubmitInsert(k) \/ SubmitValidate(k)
    <3>1. UNCHANGED queue /\ \A i \in Job : api[i] = "queued" => api'[i] = "queued"
      BY <2>2 DEF SubmitInsert, SubmitValidate
    <3>2. state'[j] = state[j] \/ state'[j] # "queued"
      BY <2>2 DEF SubmitInsert, SubmitValidate, Transition
    <3>. QED
      BY <2>1, <3>1, <3>2 DEF KeepsDelivery, Delivered, Delivers, InQueue
  <2>3. CASE SubmitQueue(k)
    <3>1. UNCHANGED queue /\ api' = [api EXCEPT ![k] = "queued"] /\ (j # k => state'[j] = state[j])
      BY <2>3 DEF SubmitQueue, Transition
    <3>. QED
      BY <2>1, <3>1 DEF KeepsDelivery, Delivered, Delivers, InQueue
  <2>4. CASE SubmitEnqueue(k)
    <3>1. Enqueue(k) /\ UNCHANGED state /\ api' = [api EXCEPT ![k] = "done"]
      BY <2>4 DEF SubmitEnqueue, dbVars
    <3>2. (InQueue(j) => InQueue(j)') /\ (j = k => InQueue(j)')
      BY <3>1, EnqueueAdds
    <3>. QED
      BY <2>1, <3>1, <3>2 DEF KeepsDelivery, Delivered, Delivers
  <2>. QED
    BY <1>10, <2>2, <2>3, <2>4 DEF Submit
<1>11. ASSUME NEW k \in Job, LeaseExpires(k) \/ LeasePaused(k) \/ Age(k) PROVE KeepsDelivery(j)
  BY <1>11 DEF LeaseExpires, LeasePaused, Age, KeepsDelivery, Delivered, Delivers, InQueue, workerVars, budgetVars
<1>12. CASE QueueLoss
  <2>1. losses' # 0
    BY <1>12 DEF QueueLoss
  <2>. QED
    BY <2>1 DEF KeepsDelivery
<1>13. CASE UNCHANGED vars
  BY <1>13 DEF vars, dbVars, workerVars, budgetVars, KeepsDelivery, Delivered, Delivers, InQueue
<1>14. ASSUME NEW k \in Job PROVE ~ApiCrash(k)
  BY DEF ApiCrash
<1>15. ASSUME NEW w \in Worker PROVE ~Crash(w)
  BY DEF Crash
<1>. QED
  BY <1>1, <1>2, <1>3, <1>4, <1>5, <1>6, <1>7, <1>8, <1>9, <1>10, <1>11, <1>12, <1>13, <1>14, <1>15 DEF Next, MainThread

(* While no process has died between two transactions, every row that is in*)
(* an intermediate state has an actor that is about to move it on, and     *)
(* until the queue is emptied the id of every queued job is in the queue or*)
(* in the hands of somebody who delivers or claims it.                     *)
THEOREM NoneStranded == Spec => []NobodyStranded
<1>1. Init => NobodyStranded
  BY DEF Init, NobodyStranded
<1>2. RowInv /\ NobodyStranded /\ [Next]_vars => NobodyStranded'
  <2> SUFFICES ASSUME RowInv, NobodyStranded, [Next]_vars, crashes' = 0, NEW j \in Job
               PROVE  /\ state'[j] = "failed_retryable" => \E w \in Worker : MovesOn(w, j)'
                      /\ state'[j] \in {"received", "validated"} => api'[j] = state'[j]
                      /\ losses' = 0 /\ state'[j] = "queued" => Delivered(j)'
    BY DEF NobodyStranded, MovesOn, Delivered, Delivers, InQueue
  <2>1. KeepsMovers(j) /\ KeepsRequest(j) /\ crashes = 0
    BY NextMovers DEF RowInv
  <2>2. KeepsDelivery(j)
    BY NextDelivery DEF RowInv
  <2>3. /\ state[j] = "failed_retryable" => \E w \in Worker : MovesOn(w, j)
        /\ state[j] \in {"received", "validated"} => api[j] = state[j]
        /\ losses = 0 /\ state[j] = "queued" => Delivered(j)
    BY <2>1 DEF NobodyStranded, Delivered
  <2>. QED
    BY <2>1, <2>2, <2>3 DEF KeepsMovers, KeepsRequest, KeepsDelivery
<1>. QED
  BY <1>1, <1>2, RowInvariant, PTL DEF Spec

--------------------------------------------------------------------------------
(* Attempts beyond max_attempts, with any number of workers.               *)

(* The bounds are numbers, and at least one attempt is allowed.            *)
LEMMA MaxType == \A j \in Job : MaxAttemptsOf(j) \in Nat /\ 1 <= MaxAttemptsOf(j)
BY ConstantsAssumption DEF MaxAttemptsOf

(* A compare-and-set, row by row.                                          *)
LEMMA TransitionRow ==
  ASSUME TypeOK, NEW j \in Job, NEW src, NEW dst, Transition(j, src, dst)
  PROVE  /\ UNCHANGED <<attempts, owner, lease>>
         /\ \A k \in Job : state'[k] = IF k = j /\ state[j] = src THEN dst ELSE state[k]
BY DEF Transition, Won, TypeOK

(* A row that was never queued has not been tried.                         *)
FreshIsUntried == \A j \in Job : state[j] \in {"absent", "received", "validated"} => attempts[j] = 0

(* Every kind of row step keeps it.                                        *)
LEMMA NextFresh == ASSUME RowInv, FreshIsUntried, [Next]_vars PROVE FreshIsUntried'
<1> USE DEF RowInv, TypeInv, TypeOK, FreshIsUntried
<1>1. RowStep
  BY NextRowStep
<1>2. ASSUME NEW k \in Job, SubmitInsert(k) PROVE FreshIsUntried'
  BY <1>2 DEF SubmitInsert, Unsubmitted
<1>3. ASSUME NEW k \in Job, ClaimsRow(k) PROVE FreshIsUntried'
  BY <1>3 DEF ClaimsRow, First
<1>4. ASSUME NEW k \in Job, NEW src \in JobState, NEW dst \in JobState, MovesRow(k, src, dst)
      PROVE  FreshIsUntried'
  <2>1. UNCHANGED attempts /\ \A j \in Job : state'[j] = IF j = k /\ state[k] = src THEN dst ELSE state[j]
    BY <1>4, TransitionRow DEF MovesRow
  <2>2. dst \in {"absent", "received", "validated"} => src = "received"
    BY <1>4 DEF MovesRow, TRANSITIONS, Fail, JobState
  <2>. QED
    BY <2>1, <2>2
<1>. QED
  BY <1>1, <1>2, <1>3, <1>4 DEF RowStep

(* A worker bids for an attempt of a job when it has decided to queue it   *)
(* once more, or has selected it with attempts that would let it decide so.*)
Requeueing == {"requeue", "reapRequeue"}
Bids(w, j) ==
  \/ pc[w] \in Requeueing /\ job[w] = j
  \/ \E r \in rows[w] : r.job = j /\ r.attempts < MaxAttemptsOf(j)
Bidders(j) == { w \in Worker : Bids(w, j) }
Queued(j) == IF state[j] = "queued" THEN 1 ELSE 0

(* What a worker has selected belongs to its round of reaping, and the row *)
(* it has in hands is no longer among what is left of it.                  *)
SelectsOnce(w) ==
  /\ rows[w] # {} => pc[w] \in {"reap"} \cup Reaping
  /\ pc[w] \in Reaping => \A r \in rows[w] : r.job # job[w]
  /\ \A r, s \in rows[w] : r.job = s.job => r = s

(* An attempt beyond the last one was paid for with a bid: the attempts    *)
(* spent, the one a claim may spend now, and the bids that are left.       *)
PaidFor(j) ==
  attempts[j] >= MaxAttemptsOf(j) =>
    attempts[j] + Queued(j) + Cardinality(Bidders(j)) < MaxAttemptsOf(j) + Cardinality(Worker)

OverrunInv ==
  RowInv /\ FreshIsUntried /\ (\A w \in Worker : SelectsOnce(w)) /\ (\A j \in Job : PaidFor(j))

(* Every step keeps a worker's selection in its round of reaping.          *)
LEMMA NextSelects ==
  ASSUME TypeInv, [Next]_vars, NEW u \in Worker, SelectsOnce(u)
  PROVE  SelectsOnce(u)'
<1> USE DEF TypeInv, TypeOK, SelectsOnce, At, Goto, Reaping
<1>1. ASSUME pc'[u] = pc[u], job'[u] = job[u], rows'[u] = rows[u] PROVE SelectsOnce(u)'
  BY <1>1
<1>2. ASSUME NEW w \in Worker,
             \/ Reserve(w) \/ ReserveTimeout(w) \/ ReconcileRead(w) \/ ReconcileSelect(w)
             \/ Reenqueue(w) \/ ReconcileDone(w) \/ RetryRead(w) \/ RetryEnqueue(w) \/ ExceptRead(w) \/ Ack(w)
             \/ Restart(w) \/ RetryRequeue(w) \/ RetryExhaust(w) \/ ExceptFail(w) \/ FirstHeartbeat(w)
      PROVE  SelectsOnce(u)'
  <2>1. UNCHANGED rows /\ \A v \in Worker \ {w} : pc'[v] = pc[v] /\ job'[v] = job[v]
    BY <1>2 DEF Reserve, ReserveTimeout, ReconcileRead, ReconcileSelect, Reenqueue, ReconcileDone, RetryRead,
         RetryEnqueue, ExceptRead, Ack, Restart, RetryRequeue, RetryExhaust, ExceptFail, FirstHeartbeat
  <2>2. (pc[w] = "reap" => rows[w] = {}) /\ pc[w] \notin Reaping
    BY <1>2 DEF Reserve, ReserveTimeout, ReconcileRead, ReconcileSelect, Reenqueue, ReconcileDone, RetryRead,
         RetryEnqueue, ExceptRead, Ack, Restart, RetryRequeue, RetryExhaust, ExceptFail, FirstHeartbeat
  <2>3. CASE u # w
    BY <1>1, <2>1, <2>3
  <2>4. CASE u = w
    BY <2>1, <2>2, <2>4
  <2>. QED
    BY <2>3, <2>4
<1>3. ASSUME NEW w \in Worker, Claim(w) \/ Progress(w) \/ Finish(w) PROVE SelectsOnce(u)'
  <2>1. UNCHANGED <<rows, job>> /\ (\A v \in Worker \ {w} : pc'[v] = pc[v]) /\ pc[w] \in {"claim", "run"}
    BY <1>3 DEF Claim, Progress, Finish
  <2>. QED
    BY <1>1, <2>1
<1>4. ASSUME NEW w \in Worker, ReapSelect(w) PROVE SelectsOnce(u)'
  BY <1>4 DEF ReapSelect
<1>5. ASSUME NEW w \in Worker, ReapRow(w) PROVE SelectsOnce(u)'
  <2>1. PICK r \in rows[w] :
         /\ rows' = [rows EXCEPT ![w] = @ \ {r}]
         /\ IF Won(r.job, r.state)
            THEN job' = [job EXCEPT ![w] = r.job] /\ pc' = [pc EXCEPT ![w] = AfterReap(r)]
            ELSE UNCHANGED <<job, pc>>
    BY <1>5 DEF ReapRow
  <2>2. pc[w] = "reap" /\ AfterReap(r) \in Reaping
    BY <1>5 DEF ReapRow, AfterReap
  <2>3. CASE u # w
    BY <1>1, <2>1, <2>3
  <2>4. CASE u = w
    BY <2>1, <2>2, <2>4
  <2>. QED
    BY <2>3, <2>4
<1>6. ASSUME NEW w \in Worker, ReapRequeue(w) \/ ReapEnqueue(w) \/ ReapExhaust(w) PROVE SelectsOnce(u)'
  BY <1>6 DEF ReapRequeue, ReapEnqueue, ReapExhaust
<1>7. ASSUME NEW w \in Worker, Exit(w) \/ Crash(w) PROVE SelectsOnce(u)'
  BY <1>7 DEF Exit, Crash, Forget
<1>8. ASSUME UNCHANGED <<pc, job, rows>> PROVE SelectsOnce(u)'
  BY <1>1, <1>8
<1>9. ASSUME NEW w \in Worker, Stop(w) \/ Heartbeat(w) PROVE SelectsOnce(u)'
  BY <1>8, <1>9 DEF Stop, Heartbeat, workerVars
<1>10. ASSUME NEW j \in Job, Submit(j) \/ ApiCrash(j) \/ LeaseExpires(j) \/ LeasePaused(j) \/ Age(j)
       PROVE  SelectsOnce(u)'
  BY <1>8, <1>10 DEF Submit, SubmitInsert, SubmitValidate, SubmitQueue, SubmitEnqueue, ApiCrash,
       LeaseExpires, LeasePaused, Age, workerVars
<1>11. CASE QueueLoss \/ UNCHANGED vars
  BY <1>8, <1>11 DEF QueueLoss, vars, workerVars
<1>. QED
  BY <1>2, <1>3, <1>4, <1>5, <1>6, <1>7, <1>9, <1>10, <1>11 DEF Next, MainThread

(* What a step may do to the bids for a job: nobody bids anew unless an    *)
(* attempt is left; a claim is made by one who does not bid; and who queues*)
(* the job once more gives up the bid.                                     *)
NobodyBids(j) == \A w \in Worker : Bids(w, j)' => Bids(w, j)
StaysSo(j) == attempts'[j] = attempts[j] /\ (state'[j] = "queued" => state[j] = "queued") /\ NobodyBids(j)
MayBeTried(j) == attempts'[j] = attempts[j] /\ attempts[j] < MaxAttemptsOf(j)
SpendsOne(w, j) ==
  /\ state[j] = "queued" /\ state'[j] # "queued"
  /\ attempts'[j] = attempts[j] + 1
  /\ NobodyBids(j) /\ ~Bids(w, j)
GivesUp(w, j) == attempts'[j] = attempts[j] /\ NobodyBids(j) /\ Bids(w, j) /\ ~Bids(w, j)' /\ state[j] # "queued"
BidStep(j) == StaysSo(j) \/ MayBeTried(j) \/ \E w \in Worker : SpendsOne(w, j) \/ GivesUp(w, j)

(* A worker that selects nothing new and decides nothing new does not bid. *)
LEMMA NoNewBid ==
  ASSUME NEW w, NEW j, rows'[w] \subseteq rows[w],
         pc'[w] \in Requeueing => pc'[w] = pc[w] /\ job'[w] = job[w], Bids(w, j)'
  PROVE  Bids(w, j)
BY DEF Bids

(* Every step is one of these for the bids of each job.                    *)
LEMMA NextBids ==
  ASSUME RowInv, FreshIsUntried, \A w \in Worker : SelectsOnce(w), [Next]_vars, NEW j \in Job
  PROVE  BidStep(j)
<1> USE DEF RowInv, TypeInv, TypeOK, At, Goto
<1> DEFINE Silent(w) == /\ rows'[w] \subseteq rows[w]
                        /\ pc'[w] \in Requeueing => pc'[w] = pc[w] /\ job'[w] = job[w]
<1>1. ASSUME \A w \in Worker : Silent(w) PROVE NobodyBids(j)
  BY <1>1, NoNewBid DEF NobodyBids
<1>2. ASSUME \A w \in Worker : Silent(w), UNCHANGED <<state, attempts>> PROVE BidStep(j)
  BY <1>1, <1>2 DEF BidStep, StaysSo
<1> HIDE DEF Silent
<1>3. ASSUME NEW w \in Worker,
             \/ Reserve(w) \/ ReserveTimeout(w) \/ ReapEnqueue(w)
             \/ ReconcileRead(w) \/ ReconcileSelect(w) \/ Reenqueue(w) \/ ReconcileDone(w)
             \/ FirstHeartbeat(w) \/ RetryEnqueue(w) \/ ExceptRead(w) \/ Ack(w)
             \/ Exit(w) \/ Stop(w) \/ Crash(w) \/ Restart(w) \/ Heartbeat(w)
      PROVE  BidStep(j)
  <2>1. UNCHANGED <<state, attempts>>
    BY <1>3 DEF Reserve, ReserveTimeout, ReapEnqueue, ReconcileRead, ReconcileSelect,
         Reenqueue, ReconcileDone, FirstHeartbeat, RetryEnqueue, ExceptRead, Ack,
         Exit, Stop, Crash, Restart, Heartbeat, dbVars
  <2>2. ASSUME NEW v \in Worker PROVE Silent(v)
    BY <1>3 DEF Silent, Requeueing, Reserve, ReserveTimeout, ReapEnqueue, ReconcileRead, ReconcileSelect,
         Reenqueue, ReconcileDone, FirstHeartbeat, RetryEnqueue, ExceptRead, Ack,
         Exit, Stop, Crash, Restart, Heartbeat, Forget, workerVars
  <2>. QED
    BY <1>2, <2>1, <2>2
<1>4. ASSUME NEW w \in Worker, ReapSelect(w) PROVE BidStep(j)
  <2>1. UNCHANGED <<state, attempts, job>> /\ \A v \in Worker \ {w} : pc'[v] = pc[v] /\ rows'[v] = rows[v]
    BY <1>4 DEF ReapSelect, dbVars
  <2>2. CASE attempts[j] < MaxAttemptsOf(j)
    BY <2>1, <2>2 DEF BidStep, MayBeTried
  <2>3. CASE ~(attempts[j] < MaxAttemptsOf(j))
    <3>1. pc'[w] = "reap"
      BY <1>4 DEF ReapSelect
    <3>2. \A r \in rows'[w] : r.attempts = attempts[r.job]
      BY <1>4 DEF ReapSelect
    <3>3. ~Bids(w, j)'
      BY <2>3, <3>1, <3>2 DEF Bids, Requeueing, MaxAttemptsOf
    <3>4. \A v \in Worker \ {w} : Bids(v, j)' => Bids(v, j)
      BY <2>1, NoNewBid
    <3>. QED
      BY <2>1, <3>3, <3>4 DEF BidStep, StaysSo, NobodyBids
  <2>. QED
    BY <2>2, <2>3
<1>5. ASSUME NEW w \in Worker, ReapRow(w) PROVE BidStep(j)
  <2>1. PICK r \in rows[w] :
         /\ Transition(r.job, r.state, "failed_retryable")
         /\ rows' = [rows EXCEPT ![w] = @ \ {r}]
         /\ IF Won(r.job, r.state)
            THEN job' = [job EXCEPT ![w] = r.job] /\ pc' = [pc EXCEPT ![w] = AfterReap(r)]
            ELSE UNCHANGED <<job, pc>>
    BY <1>5 DEF ReapRow
  <2>2. UNCHANGED attempts /\ (state'[j] = "queued" => state[j] = "queued") /\ pc[w] = "reap"
    BY <1>5, <2>1 DEF Transition, ReapRow
  <2>3. \A v \in Worker \ {w} : Bids(v, j)' => Bids(v, j)
    BY <2>1, NoNewBid
  <2>4. Bids(w, j)' => Bids(w, j)
    <3>1. CASE Won(r.job, r.state) /\ AfterReap(r) = "reapRequeue" /\ r.job = j
      <4>1. r.attempts < MaxAttemptsOf(j)
        BY <3>1 DEF AfterReap
      <4>. QED
        BY <3>1, <4>1 DEF Bids
    <3>2. CASE Won(r.job, r.state) /\ AfterReap(r) = "reapRequeue" /\ r.job # j
      BY <2>1, <3>2 DEF Bids
    <3>3. CASE Won(r.job, r.state) /\ AfterReap(r) # "reapRequeue"
      BY <2>1, <3>3 DEF Bids, AfterReap, Requeueing
    <3>4. CASE ~Won(r.job, r.state)
      BY <2>1, <3>4 DEF Bids
    <3>. QED
      BY <3>1, <3>2, <3>3, <3>4
  <2>. QED
    BY <2>2, <2>3, <2>4 DEF BidStep, StaysSo, NobodyBids
<1>6. ASSUME NEW w \in Worker, RetryRead(w) PROVE BidStep(j)
  <2>1. /\ UNCHANGED <<state, attempts, job, rows>> /\ job[w] \in Job
        /\ pc' = [pc EXCEPT ![w] = AfterRetry(job[w])]
    BY <1>6 DEF RetryRead, dbVars, HoldsJob, Holding, Handling
  <2>2. CASE attempts[j] < MaxAttemptsOf(j)
    BY <2>1, <2>2 DEF BidStep, MayBeTried
  <2>3. CASE ~(attempts[j] < MaxAttemptsOf(j))
    <3>1. ASSUME NEW v \in Worker, Bids(v, j)' PROVE Bids(v, j)
      BY <2>1, <2>3, <3>1 DEF Bids, AfterRetry, Requeueing
    <3>. QED
      BY <2>1, <3>1 DEF BidStep, StaysSo, NobodyBids
  <2>. QED
    BY <2>2, <2>3
<1>7. ASSUME NEW w \in Worker, ReapRequeue(w) \/ RetryRequeue(w) PROVE BidStep(j)
  <2>1. /\ job[w] \in Job /\ pc[w] \in Requeueing /\ UNCHANGED <<job, rows>>
        /\ pc'[w] \in {"enqueue", "reapEnqueue"} /\ \A v \in Worker \ {w} : pc'[v] = pc[v]
    BY <1>7 DEF HoldsJob, Holding, Handling, Reaping, ReapRequeue, RetryRequeue, Requeueing
  <2>2. Transition(job[w], "failed_retryable", "queued")
    BY <1>7 DEF ReapRequeue, RetryRequeue
  <2>3. UNCHANGED attempts /\ \A k \in Job : state'[k] = IF k = job[w] /\ state[k] = "failed_retryable" THEN "queued" ELSE state[k]
    BY <2>1, <2>2, TransitionRow
  <2>4. NobodyBids(j)
    BY <1>1, <2>1 DEF Silent, Requeueing
  <2>5. CASE j = job[w] /\ state[j] = "failed_retryable"
    <3>1. Bids(w, j)
      BY <2>1, <2>5 DEF Bids
    <3>2. \A r \in rows[w] : r.job # job[w]
      BY <1>7, <2>1 DEF SelectsOnce, ReapRequeue, RetryRequeue, Reaping
    <3>3. ~Bids(w, j)'
      BY <2>1, <2>5, <3>2 DEF Bids, Requeueing
    <3>. QED
      BY <2>3, <2>4, <2>5, <3>1, <3>3 DEF BidStep, GivesUp
  <2>6. CASE ~(j = job[w] /\ state[j] = "failed_retryable")
    BY <2>3, <2>4, <2>6 DEF BidStep, StaysSo
  <2>. QED
    BY <2>5, <2>6
<1>8. ASSUME NEW w \in Worker, Claim(w) PROVE BidStep(j)
  <2>1. job[w] \in Job /\ pc[w] = "claim" /\ UNCHANGED <<job, rows>>
    BY <1>8 DEF Claim, HoldsJob, Holding
  <2>2. \A v \in Worker : Silent(v)
    BY <1>8 DEF Claim, Silent, Requeueing
  <2>3. CASE Claimable(job[w]) /\ job[w] = j
    <3>1. state[j] = "queued" /\ state'[j] # "queued" /\ attempts'[j] = attempts[j] + 1
      BY <1>8, <2>1, <2>3 DEF Claim, Claimable, First, SpentAttempt
    <3>2. ~Bids(w, j)
      BY <2>1 DEF SelectsOnce, Reaping, Bids, Requeueing
    <3>. QED
      BY <1>1, <2>2, <3>1, <3>2 DEF BidStep, SpendsOne
  <2>4. CASE ~(Claimable(job[w]) /\ job[w] = j)
    <3>1. state'[j] = state[j] /\ attempts'[j] = attempts[j]
      BY <1>8, <2>4 DEF Claim
    <3>. QED
      BY <1>1, <2>2, <3>1 DEF BidStep, StaysSo
  <2>. QED
    BY <2>3, <2>4
<1>9. ASSUME NEW w \in Worker, Progress(w) \/ Finish(w) \/ ReapExhaust(w) \/ RetryExhaust(w) \/ ExceptFail(w)
      PROVE  BidStep(j)
  <2>1. \A v \in Worker : Silent(v)
    BY <1>9 DEF Progress, Finish, ReapExhaust, RetryExhaust, ExceptFail, Silent, Requeueing
  <2>2. UNCHANGED attempts
    BY <1>9 DEF Progress, Finish, ReapExhaust, RetryExhaust, ExceptFail, Transition, dbVars
  <2>3. \A n \in 0..2 : Stage[n + 1] # "queued"
    BY DEF Stage
  <2>4. Progress(w) => stage[w] \in 0..2
    BY DEF Progress, Stage
  <2>5. PICK dst : dst # "queued" /\ (UNCHANGED state \/ \E k, src : Transition(k, src, dst))
    <3>1. CASE Progress(w)
      BY <2>3, <2>4, <3>1 DEF Progress, dbVars
    <3>2. CASE Finish(w)
      BY <3>2, ConstantsAssumption DEF Finish, OutcomeSet, dbVars
    <3>3. CASE ReapExhaust(w) \/ RetryExhaust(w) \/ ExceptFail(w)
      BY <3>3 DEF ReapExhaust, RetryExhaust, ExceptFail
    <3>. QED
      BY <1>9, <3>1, <3>2, <3>3
  <2>6. state'[j] = "queued" => state[j] = "queued"
    BY <2>5 DEF Transition
  <2>. QED
    BY <1>1, <2>1, <2>2, <2>6 DEF BidStep, StaysSo
<1>10. ASSUME NEW k \in Job, Submit(k) PROVE BidStep(j)
  <2>1. UNCHANGED <<pc, job, rows, attempts>>
    BY <1>10 DEF Submit, SubmitInsert, SubmitValidate, SubmitQueue, SubmitEnqueue, Transition, workerVars, dbVars
  <2>2. NobodyBids(j)
    BY <1>1, <2>1 DEF Silent
  <2>3. CASE SubmitQueue(k) /\ j = k /\ state[k] = "validated"
    <3>1. attempts[j] = 0
      BY <2>3 DEF FreshIsUntried
    <3>. QED
      BY <2>1, <3>1, MaxType DEF BidStep, MayBeTried
  <2>4. CASE ~(SubmitQueue(k) /\ j = k /\ state[k] = "validated")
    <3>1. state'[j] = "queued" => state[j] = "queued"
      BY <1>10, <2>4 DEF Submit, SubmitInsert, SubmitValidate, SubmitQueue, SubmitEnqueue, Transition, Won, dbVars
    <3>. QED
      BY <2>1, <2>2, <3>1 DEF BidStep, StaysSo
  <2>. QED
    BY <2>3, <2>4
<1>11. ASSUME NEW k \in Job, ApiCrash(k) \/ LeaseExpires(k) \/ LeasePaused(k) \/ Age(k) PROVE BidStep(j)
  BY <1>2, <1>11 DEF Silent, ApiCrash, LeaseExpires, LeasePaused, Age, workerVars, dbVars
<1>12. CASE QueueLoss \/ UNCHANGED vars
  BY <1>2, <1>12 DEF Silent, QueueLoss, vars, workerVars, dbVars
<1>. QED
  BY <1>3, <1>4, <1>5, <1>6, <1>7, <1>8, <1>9, <1>10, <1>11, <1>12 DEF Next, MainThread

(* Fewer bidders count for less, and one fewer for one less.               *)
LEMMA BidderCounts ==
  ASSUME IsFiniteSet(Worker), NEW j
  PROVE  /\ Cardinality(Bidders(j)) \in Nat /\ Cardinality(Bidders(j)') \in Nat /\ Cardinality(Worker) \in Nat
         /\ NobodyBids(j) => Cardinality(Bidders(j)') <= Cardinality(Bidders(j))
         /\ \A w \in Worker : ~Bids(w, j) => Cardinality(Bidders(j)) < Cardinality(Worker)
         /\ \A w \in Worker : NobodyBids(j) /\ Bids(w, j) /\ ~Bids(w, j)' =>
              Cardinality(Bidders(j)') < Cardinality(Bidders(j))
<1>1. Bidders(j) \in SUBSET Worker /\ Bidders(j)' \in SUBSET Worker
  BY DEF Bidders
<1>2. IsFiniteSet(Bidders(j)) /\ IsFiniteSet(Bidders(j)')
  BY <1>1, FS_Subset
<1>3. Cardinality(Bidders(j)) \in Nat /\ Cardinality(Bidders(j)') \in Nat /\ Cardinality(Worker) \in Nat
  BY <1>2, FS_CardinalityType
<1>4. ASSUME NobodyBids(j) PROVE Bidders(j)' \in SUBSET Bidders(j)
  BY <1>4 DEF NobodyBids, Bidders
<1>5. ASSUME NEW w \in Worker, ~Bids(w, j) PROVE Cardinality(Bidders(j)) < Cardinality(Worker)
  <2>1. Bidders(j) # Worker
    BY <1>5 DEF Bidders
  <2>2. Cardinality(Bidders(j)) <= Cardinality(Worker) /\ Cardinality(Bidders(j)) # Cardinality(Worker)
    BY <1>1, <2>1, FS_Subset
  <2>. QED
    BY <1>3, <2>2
<1>6. ASSUME NEW w \in Worker, NobodyBids(j), Bids(w, j), ~Bids(w, j)'
      PROVE  Cardinality(Bidders(j)') < Cardinality(Bidders(j))
  <2>1. Bidders(j)' # Bidders(j)
    BY <1>6 DEF Bidders
  <2>2. Cardinality(Bidders(j)') <= Cardinality(Bidders(j)) /\ Cardinality(Bidders(j)') # Cardinality(Bidders(j))
    BY <1>2, <1>4, <1>6, <2>1, FS_Subset
  <2>. QED
    BY <1>3, <2>2
<1>7. NobodyBids(j) => Cardinality(Bidders(j)') <= Cardinality(Bidders(j))
  BY <1>2, <1>4, FS_Subset
<1>. QED
  BY <1>3, <1>5, <1>6, <1>7

(* So no attempt beyond the last is spent that nobody bid for.             *)
LEMMA NextPaidFor ==
  ASSUME IsFiniteSet(Worker), OverrunInv, [Next]_vars, NEW j \in Job
  PROVE  PaidFor(j)'
<1>1. BidStep(j)
  BY NextBids DEF OverrunInv
<1>2. PICK a \in Nat, m \in Nat : a = attempts[j] /\ m = MaxAttemptsOf(j)
  BY MaxType DEF OverrunInv, RowInv, TypeInv, TypeOK
<1>3. PICK n \in Nat : n = Cardinality(Worker)
  BY BidderCounts
<1>4. PICK b \in Nat, c \in Nat : b = Cardinality(Bidders(j)) /\ c = Cardinality(Bidders(j)')
  BY BidderCounts
<1>5. a >= m => a + Queued(j) + b < m + n
  BY <1>2, <1>3, <1>4 DEF OverrunInv, PaidFor
<1>6. Queued(j) \in {0, 1} /\ Queued(j)' \in {0, 1}
  BY DEF Queued
<1>7. SUFFICES attempts'[j] >= m => attempts'[j] + Queued(j)' + c < m + n
  BY <1>2, <1>3, <1>4 DEF PaidFor, MaxAttemptsOf
<1>8. CASE StaysSo(j)
  <2>1. c <= b /\ attempts'[j] = a /\ Queued(j)' <= Queued(j)
    BY <1>2, <1>4, <1>8, BidderCounts DEF StaysSo, Queued
  <2>. QED
    BY <1>5, <1>6, <2>1
<1>9. CASE MayBeTried(j)
  BY <1>2, <1>9 DEF MayBeTried
<1>10. ASSUME NEW w \in Worker, SpendsOne(w, j) PROVE attempts'[j] >= m => attempts'[j] + Queued(j)' + c < m + n
  <2>1. c <= b /\ b < n
    BY <1>3, <1>4, <1>10, BidderCounts DEF SpendsOne
  <2>2. attempts'[j] = a + 1 /\ Queued(j) = 1 /\ Queued(j)' = 0
    BY <1>2, <1>10 DEF SpendsOne, Queued
  <2>. QED
    BY <1>5, <2>1, <2>2
<1>11. ASSUME NEW w \in Worker, GivesUp(w, j) PROVE attempts'[j] >= m => attempts'[j] + Queued(j)' + c < m + n
  <2>1. c < b
    BY <1>4, <1>11, BidderCounts DEF GivesUp
  <2>2. attempts'[j] = a /\ Queued(j) = 0
    BY <1>2, <1>11 DEF GivesUp, Queued
  <2>. QED
    BY <1>5, <1>6, <2>1, <2>2
<1>. QED
  BY <1>1, <1>8, <1>9, <1>10, <1>11 DEF BidStep

(* The decision to try a job once more rests on attempts that another      *)
(* worker may have overtaken, but each worker can overlook one such attempt*)
(* and no more: with n workers a job is tried at most n - 1 times more     *)
(* often than max_attempts allows.                                         *)
THEOREM OverrunsAreFew == ASSUME IsFiniteSet(Worker) PROVE Spec => []OverrunBounded
<1>1. Init => OverrunInv
  <2>1. ASSUME Init, NEW j \in Job PROVE PaidFor(j)
    BY <2>1, MaxType DEF Init, PaidFor
  <2>2. Init => FreshIsUntried /\ \A w \in Worker : SelectsOnce(w)
    BY DEF Init, FreshIsUntried, SelectsOnce, Reaping
  <2>. QED
    BY <2>1, <2>2, InitRowInv DEF OverrunInv
<1>2. OverrunInv /\ [Next]_vars => OverrunInv'
  <2> SUFFICES ASSUME OverrunInv, [Next]_vars PROVE OverrunInv'
    OBVIOUS
  <2>1. RowInv' /\ FreshIsUntried'
    BY NextRowInv, NextFresh DEF OverrunInv
  <2>2. ASSUME NEW w \in Worker PROVE SelectsOnce(w)'
    BY NextSelects DEF OverrunInv, RowInv
  <2>3. ASSUME NEW j \in Job PROVE PaidFor(j)'
    BY NextPaidFor
  <2>. QED
    BY <2>1, <2>2, <2>3 DEF OverrunInv
<1>3. OverrunInv => OverrunBounded
  <2> SUFFICES ASSUME OverrunInv, NEW j \in Job PROVE attempts[j] < MaxAttemptsOf(j) + Cardinality(Worker)
    BY DEF OverrunBounded
  <2>1. attempts[j] \in Nat /\ MaxAttemptsOf(j) \in Nat /\ Queued(j) \in {0, 1}
    BY MaxType DEF OverrunInv, RowInv, TypeInv, TypeOK, Queued
  <2>2. Cardinality(Worker) \in Nat /\ Cardinality(Bidders(j)) \in Nat
    BY BidderCounts
  <2>3. attempts[j] >= MaxAttemptsOf(j) =>
          attempts[j] + Queued(j) + Cardinality(Bidders(j)) < MaxAttemptsOf(j) + Cardinality(Worker)
    BY DEF OverrunInv, PaidFor
  <2>4. PICK a \in Nat, m \in Nat, q \in {0, 1}, n \in Nat, b \in Nat :
          /\ a = attempts[j] /\ m = MaxAttemptsOf(j) /\ q = Queued(j)
          /\ n = Cardinality(Worker) /\ b = Cardinality(Bidders(j))
    BY <2>1, <2>2
  <2>5. a >= m => a + q + b < m + n
    BY <2>3, <2>4
  <2>6. a < m + n
    BY <2>5
  <2>. QED
    BY <2>4, <2>6
<1>. QED
  BY <1>1, <1>2, <1>3, PTL DEF Spec

--------------------------------------------------------------------------------
(* What may be tried once is tried once, by any number of workers.         *)

(* A job that may be tried once, such as every training job, is not tried  *)
(* again.                                                                  *)
OnceIsOnce == \A j \in Job : MaxAttemptsOf(j) = 1 => attempts[j] <= 1

(* Whoever handles or reaps a job does so after a claim, and knows of it:  *)
(* no decision to try once more is ever taken with no attempt spent.       *)
Begun(w) ==
  /\ pc[w] \in Handling \cup Reaping => attempts[job[w]] >= 1
  /\ pc[w] \in Requeueing => MaxAttemptsOf(job[w]) # 1
  /\ \A r \in rows[w] : 1 <= r.attempts /\ r.attempts <= attempts[r.job]
BegunRow(j) ==
  /\ state[j] \in IN_FLIGHT => attempts[j] >= 1
  /\ MaxAttemptsOf(j) = 1 => attempts[j] = 0 \/ (attempts[j] = 1 /\ state[j] # "queued")
OnceInv ==
  RowInv /\ FreshIsUntried /\ (\A w \in Worker : Begun(w)) /\ (\A j \in Job : BegunRow(j))

(* Attempts are never given back.                                          *)
LEMMA AttemptsGrow ==
  ASSUME RowInv, [Next]_vars, NEW j \in Job
  PROVE  attempts'[j] >= attempts[j]
<1>1. RowStep /\ attempts \in [Job -> Nat]
  BY NextRowStep DEF RowInv, TypeInv, TypeOK
<1>2. UNCHANGED attempts \/ \E k \in Job : attempts' = [attempts EXCEPT ![k] = @ + 1]
  BY <1>1 DEF RowStep, SubmitInsert, ClaimsRow, MovesRow, Transition
<1>. QED
  BY <1>1, <1>2

(* What a worker has read of a job it has read after a claim.              *)
LEMMA NextBegun ==
  ASSUME OnceInv, [Next]_vars, NEW u \in Worker
  PROVE  Begun(u)'
<1> USE DEF OnceInv, RowInv, TypeInv, TypeOK, At, Goto
<1> DEFINE Same(w) == /\ pc'[w] \in Handling \cup Reaping => pc[w] \in Handling \cup Reaping /\ job'[w] = job[w]
                      /\ pc'[w] \in Requeueing => pc[w] \in Requeueing /\ job'[w] = job[w]
                      /\ rows'[w] \subseteq rows[w]
<1>1. \A j \in Job : attempts'[j] >= attempts[j] /\ attempts[j] \in Nat /\ attempts'[j] \in Nat /\ MaxAttemptsOf(j) \in Nat
  BY AttemptsGrow, NextRowInv, MaxType
<1>2. pc[u] \in Handling \cup Reaping => job[u] \in Job
  BY DEF HoldsJob, Holding
<1>3. \A r \in rows[u] : r.job \in Job /\ r.attempts \in Nat
  BY DEF Row
<1>4. Begun(u)
  OBVIOUS
<1>5. Requeueing \subseteq Handling \cup Reaping
  BY DEF Requeueing, Handling, Reaping
<1>6. \A j \in Job : attempts[j] >= 1 => attempts'[j] >= 1
  BY <1>1
<1>7. \A r \in rows[u] : 1 <= r.attempts /\ r.attempts <= attempts'[r.job]
  BY <1>1, <1>3, <1>4 DEF Begun
<1>8. ASSUME Same(u) PROVE Begun(u)'
  <2>1. pc'[u] \in Handling \cup Reaping => attempts'[job'[u]] >= 1
    BY <1>2, <1>4, <1>6, <1>8 DEF Begun
  <2>2. pc'[u] \in Requeueing => MaxAttemptsOf(job'[u]) # 1
    BY <1>4, <1>8 DEF Begun
  <2>3. \A r \in rows'[u] : 1 <= r.attempts /\ r.attempts <= attempts'[r.job]
    BY <1>7, <1>8
  <2>. QED
    BY <2>1, <2>2, <2>3 DEF Begun, MaxAttemptsOf
<1> HIDE DEF Same
<1>9. ASSUME NEW w \in Worker,
             \/ Reserve(w) \/ ReserveTimeout(w) \/ ReapEnqueue(w)
             \/ ReconcileRead(w) \/ ReconcileSelect(w) \/ Reenqueue(w) \/ ReconcileDone(w)
             \/ FirstHeartbeat(w) \/ RetryEnqueue(w) \/ ExceptRead(w) \/ Ack(w)
             \/ Exit(w) \/ Stop(w) \/ Crash(w) \/ Restart(w) \/ Heartbeat(w)
      PROVE  Begun(u)'
  <2>1. Same(u)
    BY <1>9 DEF Same, Requeueing, Handling, Reaping, Reserve, ReserveTimeout, ReapEnqueue, ReconcileRead,
         ReconcileSelect, Reenqueue, ReconcileDone, FirstHeartbeat, RetryEnqueue, ExceptRead, Ack,
         Exit, Stop, Crash, Restart, Heartbeat, Forget, workerVars
  <2>. QED
    BY <1>8, <2>1
<1>10. ASSUME NEW w \in Worker,
              \/ Progress(w) \/ Finish(w) \/ ReapExhaust(w) \/ RetryExhaust(w) \/ ExceptFail(w)
              \/ ReapRequeue(w) \/ RetryRequeue(w)
       PROVE  Begun(u)'
  <2>1. Same(u)
    BY <1>10 DEF Same, Requeueing, Handling, Reaping, Progress, Finish, ReapExhaust, RetryExhaust, ExceptFail,
         ReapRequeue, RetryRequeue
  <2>. QED
    BY <1>8, <2>1
<1>11. ASSUME NEW w \in Worker, ReapSelect(w) PROVE Begun(u)'
  <2>1. CASE u # w
    BY <1>8, <1>11, <2>1 DEF ReapSelect, Same
  <2>2. CASE u = w
    <3>1. pc'[u] = "reap" /\ UNCHANGED attempts
      BY <1>11, <2>2 DEF ReapSelect, dbVars
    <3>2. \A r \in rows'[u] : r.job \in Job /\ r.attempts = attempts[r.job] /\ state[r.job] \in IN_FLIGHT
      BY <1>11, <2>2 DEF ReapSelect, Reapable
    <3>3. \A r \in rows'[u] : 1 <= r.attempts /\ r.attempts <= attempts'[r.job]
      BY <1>1, <3>1, <3>2 DEF BegunRow
    <3>. QED
      BY <3>1, <3>3 DEF Begun, Requeueing, Handling, Reaping
  <2>. QED
    BY <2>1, <2>2
<1>12. ASSUME NEW w \in Worker, ReapRow(w) PROVE Begun(u)'
  <2>1. PICK r \in rows[w] :
         /\ rows' = [rows EXCEPT ![w] = @ \ {r}]
         /\ IF Won(r.job, r.state)
            THEN job' = [job EXCEPT ![w] = r.job] /\ pc' = [pc EXCEPT ![w] = AfterReap(r)]
            ELSE UNCHANGED <<job, pc>>
    BY <1>12 DEF ReapRow
  <2>2. CASE u # w \/ ~Won(r.job, r.state)
    BY <1>8, <2>1, <2>2 DEF Same
  <2>3. CASE u = w /\ Won(r.job, r.state)
    <3>1. pc'[u] = AfterReap(r) /\ job'[u] = r.job /\ rows'[u] \subseteq rows[u]
      BY <2>1, <2>3
    <3>2. r.job \in Job /\ r.attempts \in Nat /\ 1 <= r.attempts /\ r.attempts <= attempts'[r.job]
      BY <1>3, <1>7, <2>3
    <3>3. attempts'[r.job] >= 1
      BY <1>1, <3>2
    <3>4. AfterReap(r) = "reapRequeue" => MaxAttemptsOf(r.job) # 1
      BY <1>1, <3>2 DEF AfterReap
    <3>5. AfterReap(r) \in {"reapRequeue", "reapExhaust"}
      BY DEF AfterReap
    <3>6. pc'[u] \in Requeueing => MaxAttemptsOf(job'[u]) # 1
      BY <3>1, <3>4, <3>5 DEF Requeueing
    <3>. QED
      BY <1>7, <3>1, <3>3, <3>6 DEF Begun, MaxAttemptsOf
  <2>. QED
    BY <2>2, <2>3
<1>13. ASSUME NEW w \in Worker, Claim(w) PROVE Begun(u)'
  <2>1. job[w] \in Job /\ pc[w] = "claim" /\ UNCHANGED <<job, rows>>
    BY <1>13 DEF Claim, HoldsJob, Holding
  <2>2. CASE u # w \/ ~Claimable(job[w])
    BY <1>8, <1>13, <2>1, <2>2 DEF Claim, Same, Handling, Reaping, Requeueing
  <2>3. CASE u = w /\ Claimable(job[w])
    <3>1. pc'[u] = "beat" /\ attempts'[job[u]] = attempts[job[u]] + 1
      BY <1>13, <2>1, <2>3 DEF Claim, SpentAttempt
    <3>2. attempts'[job'[u]] >= 1
      BY <1>1, <2>1, <2>3, <3>1
    <3>. QED
      BY <1>7, <2>1, <3>1, <3>2 DEF Begun, Requeueing
  <2>. QED
    BY <2>2, <2>3
<1>14. ASSUME NEW w \in Worker, RetryRead(w) PROVE Begun(u)'
  <2>1. /\ pc[w] \in Handling /\ pc[w] = "retry" /\ job[w] \in Job
        /\ pc' = [pc EXCEPT ![w] = AfterRetry(job[w])] /\ UNCHANGED <<job, rows>>
    BY <1>14 DEF RetryRead, HoldsJob, Holding, Handling
  <2>2. CASE u # w
    BY <1>8, <2>1, <2>2 DEF Same
  <2>3. CASE u = w
    <3>1. attempts[job[u]] >= 1 /\ attempts'[job'[u]] >= 1
      BY <1>4, <1>6, <2>1, <2>3 DEF Begun
    <3>2. AfterRetry(job[u]) = "requeue" => MaxAttemptsOf(job[u]) # 1
      BY <1>1, <2>1, <2>3, <3>1 DEF AfterRetry
    <3>3. pc'[u] \in Requeueing => MaxAttemptsOf(job'[u]) # 1
      BY <2>1, <2>3, <3>2 DEF AfterRetry, Requeueing
    <3>. QED
      BY <1>7, <2>1, <3>1, <3>3 DEF Begun, MaxAttemptsOf
  <2>. QED
    BY <2>2, <2>3
<1>15. ASSUME NEW k \in Job, Submit(k) \/ ApiCrash(k) \/ LeaseExpires(k) \/ LeasePaused(k) \/ Age(k) PROVE Begun(u)'
  <2>1. Same(u)
    BY <1>15 DEF Same, Submit, SubmitInsert, SubmitValidate, SubmitQueue, SubmitEnqueue, ApiCrash, LeaseExpires,
         LeasePaused, Age, workerVars
  <2>. QED
    BY <1>8, <2>1
<1>16. CASE QueueLoss \/ UNCHANGED vars
  BY <1>8, <1>16 DEF Same, QueueLoss, vars, workerVars
<1>. QED
  BY <1>9, <1>10, <1>11, <1>12, <1>13, <1>14, <1>15, <1>16 DEF Next, MainThread

(* A row is in flight after a claim, and one that may be tried once is not *)
(* queued after it.                                                        *)
LEMMA NextBegunRow ==
  ASSUME OnceInv, [Next]_vars, NEW j \in Job
  PROVE  BegunRow(j)'
<1> USE DEF OnceInv, RowInv, TypeInv, TypeOK, At, Goto
<1>1. BegunRow(j) /\ attempts[j] \in Nat
  OBVIOUS
<1>2. ASSUME attempts'[j] = attempts[j],
             state'[j] \in IN_FLIGHT => state[j] \in IN_FLIGHT \/ attempts[j] >= 1,
             state'[j] = "queued" => state[j] = "queued" \/ attempts[j] = 0 \/ MaxAttemptsOf(j) # 1
      PROVE  BegunRow(j)'
  BY <1>1, <1>2 DEF BegunRow, MaxAttemptsOf
<1>3. ASSUME NEW w \in Worker, Progress(w) PROVE BegunRow(j)'
  <2>1. job[w] \in Job /\ attempts[job[w]] >= 1
    BY <1>3 DEF HoldsJob, Holding, Handling, Progress, Begun
  <2>2. \A n \in 0..2 : Stage[n + 1] # "queued"
    BY DEF Stage
  <2>3. stage[w] \in 0..2
    BY <1>3 DEF Progress, Stage
  <2>4. PICK dst : dst # "queued" /\ (UNCHANGED <<state, attempts>> \/ Transition(job[w], cur[w], dst))
    BY <1>3, <2>2, <2>3 DEF Progress, dbVars
  <2>5. attempts'[j] = attempts[j] /\ (j # job[w] => state'[j] = state[j]) /\ (state'[j] = state[j] \/ state'[j] = dst)
    BY <2>1, <2>4 DEF Transition
  <2>. QED
    BY <1>2, <2>1, <2>4, <2>5
<1>4. ASSUME NEW w \in Worker, Claim(w) PROVE BegunRow(j)'
  <2>1. job[w] \in Job
    BY <1>4 DEF Claim, HoldsJob, Holding
  <2>2. CASE Claimable(job[w]) /\ j = job[w]
    <3>1. attempts'[j] = attempts[j] + 1 /\ state[j] = "queued" /\ state'[j] # "queued"
      BY <1>4, <2>1, <2>2 DEF Claim, Claimable, SpentAttempt, First
    <3>. QED
      BY <1>1, <3>1 DEF BegunRow, MaxAttemptsOf
  <2>3. CASE ~(Claimable(job[w]) /\ j = job[w])
    BY <1>2, <1>4, <2>3 DEF Claim
  <2>. QED
    BY <2>2, <2>3
<1>5. ASSUME NEW w \in Worker, Finish(w) \/ ReapExhaust(w) \/ RetryExhaust(w) \/ ExceptFail(w) \/ ReapRow(w)
      PROVE  BegunRow(j)'
  <2>1. PICK dst : /\ dst \notin IN_FLIGHT \cup {"queued"}
                   /\ UNCHANGED <<state, attempts>> \/ \E k, src : Transition(k, src, dst)
    <3>1. OutcomeSet \cap (IN_FLIGHT \cup {"queued"}) = {}
      BY DEF OutcomeSet, IN_FLIGHT
    <3>2. CASE Finish(w)
      BY <3>1, <3>2, ConstantsAssumption DEF Finish, dbVars
    <3>3. CASE ReapExhaust(w) \/ RetryExhaust(w) \/ ExceptFail(w)
      BY <3>3 DEF ReapExhaust, RetryExhaust, ExceptFail, IN_FLIGHT
    <3>4. CASE ReapRow(w)
      BY <3>4 DEF ReapRow, IN_FLIGHT
    <3>. QED
      BY <1>5, <3>2, <3>3, <3>4
  <2>2. attempts'[j] = attempts[j] /\ (state'[j] = state[j] \/ state'[j] = dst)
    BY <2>1 DEF Transition
  <2>. QED
    BY <1>2, <2>1, <2>2
<1>6. ASSUME NEW w \in Worker, ReapRequeue(w) \/ RetryRequeue(w) PROVE BegunRow(j)'
  <2>1. job[w] \in Job /\ Transition(job[w], "failed_retryable", "queued") /\ MaxAttemptsOf(job[w]) # 1
    BY <1>6 DEF HoldsJob, Holding, Handling, Reaping, ReapRequeue, RetryRequeue, Begun, Requeueing
  <2>2. attempts'[j] = attempts[j] /\ (j # job[w] => state'[j] = state[j]) /\ (state'[j] = state[j] \/ state'[j] = "queued")
    BY <2>1 DEF Transition
  <2>. QED
    BY <1>2, <2>1, <2>2 DEF IN_FLIGHT
<1>7. ASSUME NEW w \in Worker,
             \/ Reserve(w) \/ ReserveTimeout(w) \/ ReapSelect(w) \/ ReapEnqueue(w)
             \/ ReconcileRead(w) \/ ReconcileSelect(w) \/ Reenqueue(w) \/ ReconcileDone(w)
             \/ FirstHeartbeat(w) \/ RetryRead(w) \/ RetryEnqueue(w) \/ ExceptRead(w) \/ Ack(w)
             \/ Exit(w) \/ Stop(w) \/ Crash(w) \/ Restart(w) \/ Heartbeat(w)
      PROVE  BegunRow(j)'
  <2>1. UNCHANGED <<state, attempts>>
    BY <1>7 DEF Reserve, ReserveTimeout, ReapSelect, ReapEnqueue, ReconcileRead, ReconcileSelect,
         Reenqueue, ReconcileDone, FirstHeartbeat, RetryRead, RetryEnqueue, ExceptRead, Ack,
         Exit, Stop, Crash, Restart, Heartbeat, dbVars
  <2>. QED
    BY <1>2, <2>1
<1>8. ASSUME NEW k \in Job, Submit(k) PROVE BegunRow(j)'
  <2>1. UNCHANGED attempts /\ (j # k => state'[j] = state[j])
    BY <1>8 DEF Submit, SubmitInsert, SubmitValidate, SubmitQueue, SubmitEnqueue, Transition, dbVars
  <2>2. state'[j] \notin IN_FLIGHT \/ state'[j] = state[j]
    BY <1>8 DEF Submit, SubmitInsert, SubmitValidate, SubmitQueue, SubmitEnqueue, Transition, dbVars, IN_FLIGHT
  <2>3. state'[j] = "queued" => state[j] = "queued" \/ attempts[j] = 0
    BY <1>8, <2>1 DEF Submit, SubmitInsert, SubmitValidate, SubmitQueue, SubmitEnqueue, Transition, Won, dbVars,
         FreshIsUntried
  <2>. QED
    BY <1>2, <2>1, <2>2, <2>3
<1>9. ASSUME NEW k \in Job, ApiCrash(k) \/ LeaseExpires(k) \/ LeasePaused(k) \/ Age(k) PROVE BegunRow(j)'
  BY <1>2, <1>9 DEF ApiCrash, LeaseExpires, LeasePaused, Age, dbVars
<1>10. CASE QueueLoss \/ UNCHANGED vars
  BY <1>2, <1>10 DEF QueueLoss, vars, dbVars
<1>. QED
  BY <1>3, <1>4, <1>5, <1>6, <1>7, <1>8, <1>9, <1>10 DEF Next, MainThread

(* However many workers reap and retry at the same time, a training job,   *)
(* whose max_attempts is 1, is never run twice: every read on which a retry*)
(* is decided comes after the claim that spent the only attempt.           *)
THEOREM TriedOnce == Spec => []OnceIsOnce
<1>1. Init => OnceInv
  <2>1. Init => FreshIsUntried /\ (\A w \in Worker : Begun(w)) /\ (\A j \in Job : BegunRow(j))
    BY DEF Init, FreshIsUntried, Begun, BegunRow, Requeueing, Handling, Reaping, IN_FLIGHT
  <2>. QED
    BY <2>1, InitRowInv DEF OnceInv
<1>2. OnceInv /\ [Next]_vars => OnceInv'
  <2> SUFFICES ASSUME OnceInv, [Next]_vars PROVE OnceInv'
    OBVIOUS
  <2>1. RowInv' /\ FreshIsUntried'
    BY NextRowInv, NextFresh DEF OnceInv
  <2>2. ASSUME NEW w \in Worker PROVE Begun(w)'
    BY NextBegun
  <2>3. ASSUME NEW j \in Job PROVE BegunRow(j)'
    BY NextBegunRow
  <2>. QED
    BY <2>1, <2>2, <2>3 DEF OnceInv
<1>3. OnceInv => OnceIsOnce
  BY DEF OnceInv, OnceIsOnce, BegunRow
<1>. QED
  BY <1>1, <1>2, <1>3, PTL DEF Spec

--------------------------------------------------------------------------------
(***************************************************************************)
(* One worker process at a time.  What the documentation says of attempts  *)
(* and leases (AttemptsBounded, OnlyExpiredLeasesAreReaped,                *)
(* OnlyExhaustedJobsFail) is false of two workers that reap and handle at  *)
(* the same time, and true of one: what it has read of a row is still so   *)
(* when it acts on it.                                                     *)
(***************************************************************************)

(* There are not two workers.                                              *)
Alone == \A v, w \in Worker : v = w

(* A row is only queued when it may be tried once more.                    *)
QueuedMayBeTried == \A j \in Job : state[j] = "queued" => attempts[j] < MaxAttemptsOf(j)

(* A decision on a retry is still the right one when it is carried out.    *)
DecidedAsItIs ==
  \A w \in Worker :
    /\ pc[w] \in {"requeue", "reapRequeue"} => attempts[job[w]] < MaxAttemptsOf(job[w])
    /\ pc[w] \in {"exhaust", "reapExhaust"} => attempts[job[w]] >= MaxAttemptsOf(job[w])

(* What the reaper has selected is still so when it comes to the row.      *)
SelectedAsItIs ==
  \A w \in Worker :
    /\ rows[w] # {} => pc[w] \in {"reap"} \cup Reaping
    /\ \A r \in rows[w] : r.attempts = attempts[r.job] /\ lease[r.job] = "expired"

(* The invariant of a lone worker.                                         *)
SoleInv == RowInv /\ FreshIsUntried /\ QueuedMayBeTried /\ DecidedAsItIs /\ SelectedAsItIs /\ AttemptsBounded

(* It holds of the empty table.                                            *)
LEMMA InitSole == Init => SoleInv
<1>1. \A j \in Job : 0 <= MaxAttemptsOf(j)
  BY ConstantsAssumption DEF MaxAttemptsOf
<1>. QED
  BY <1>1, InitRowInv DEF Init, SoleInv, FreshIsUntried, QueuedMayBeTried, DecidedAsItIs, SelectedAsItIs, AttemptsBounded

(* What the reaper keeps of the select: no step but its own changes the    *)
(* attempts or the lease of a row that has been selected.                  *)
LEMMA NextSelected ==
  ASSUME Alone, SoleInv, [Next]_vars
  PROVE  SelectedAsItIs'
<1> USE DEF SoleInv, RowInv, TypeInv, TypeOK, SelectedAsItIs, At, Goto, Reaping, Handling
<1>1. ASSUME NEW w \in Worker,
             \/ Reserve(w) \/ ReserveTimeout(w) \/ ReapEnqueue(w) \/ ReconcileRead(w) \/ ReconcileSelect(w)
             \/ Reenqueue(w) \/ ReconcileDone(w) \/ RetryRead(w) \/ RetryEnqueue(w) \/ ExceptRead(w) \/ Ack(w)
             \/ Stop(w) \/ Restart(w)
      PROVE  SelectedAsItIs'
  <2>1. UNCHANGED <<attempts, lease, rows>>
    BY <1>1 DEF Reserve, ReserveTimeout, ReapEnqueue, ReconcileRead, ReconcileSelect,
         Reenqueue, ReconcileDone, RetryRead, RetryEnqueue, ExceptRead, Ack, Stop, Restart, dbVars
  <2>2. rows[w] # {} => pc'[w] \in {"reap"} \cup Reaping
    BY <1>1 DEF Reserve, ReserveTimeout, ReapEnqueue, ReconcileRead, ReconcileSelect,
         Reenqueue, ReconcileDone, RetryRead, RetryEnqueue, ExceptRead, Ack, Stop, Restart
  <2>3. \A v \in Worker : v = w
    BY DEF Alone
  <2>. QED
    BY <2>1, <2>2, <2>3
<1>8. ASSUME NEW w \in Worker, Exit(w) \/ Crash(w) PROVE SelectedAsItIs'
  <2>1. rows'[w] = {}
    BY <1>8 DEF Exit, Crash, Forget
  <2>. QED
    BY <2>1 DEF Alone
<1>2. ASSUME NEW w \in Worker, ReapSelect(w) PROVE SelectedAsItIs'
  BY <1>2 DEF ReapSelect, Reapable, dbVars
<1>3. ASSUME NEW w \in Worker, ReapRow(w) PROVE SelectedAsItIs'
  <2>1. PICK r \in rows[w] :
         /\ Transition(r.job, r.state, "failed_retryable")
         /\ rows' = [rows EXCEPT ![w] = @ \ {r}]
         /\ IF Won(r.job, r.state)
            THEN job' = [job EXCEPT ![w] = r.job] /\ Goto(w, AfterReap(r))
            ELSE UNCHANGED <<job, pc>>
    BY <1>3 DEF ReapRow
  <2>2. UNCHANGED <<attempts, lease>>
    BY <2>1 DEF Transition
  <2>3. AfterReap(r) \in Reaping
    BY DEF AfterReap
  <2>. QED
    BY <1>3, <2>1, <2>2, <2>3 DEF ReapRow
<1>4. ASSUME NEW w \in Worker,
             \/ ReapRequeue(w) \/ ReapExhaust(w) \/ RetryRequeue(w) \/ RetryExhaust(w) \/ ExceptFail(w)
             \/ Progress(w) \/ Finish(w)
      PROVE  SelectedAsItIs'
  <2>1. UNCHANGED <<attempts, lease, rows>>
    BY <1>4 DEF ReapRequeue, ReapExhaust, RetryRequeue, RetryExhaust, ExceptFail, Progress, Finish, Transition, dbVars
  <2>2. rows[w] # {} => pc'[w] \in {"reap"} \cup Reaping
    BY <1>4 DEF ReapRequeue, ReapExhaust, RetryRequeue, RetryExhaust, ExceptFail, Progress, Finish
  <2>3. \A v \in Worker : v = w
    BY DEF Alone
  <2>. QED
    BY <2>1, <2>2, <2>3
<1>5. ASSUME NEW w \in Worker, Claim(w) \/ FirstHeartbeat(w) \/ Heartbeat(w) PROVE SelectedAsItIs'
  <2>1. rows[w] = {}
    BY <1>5 DEF Claim, FirstHeartbeat, Heartbeat, Beating, Current
  <2>2. UNCHANGED rows
    BY <1>5 DEF Claim, FirstHeartbeat, Heartbeat, workerVars
  <2>3. \A v \in Worker : rows'[v] = {}
    BY <2>1, <2>2 DEF Alone
  <2>. QED
    BY <2>3
<1>6. ASSUME NEW j \in Job, Submit(j) \/ ApiCrash(j) \/ LeaseExpires(j) \/ LeasePaused(j) \/ Age(j)
      PROVE  SelectedAsItIs'
  <2>1. UNCHANGED <<attempts, rows, pc>>
    BY <1>6 DEF Submit, SubmitInsert, SubmitValidate, SubmitQueue, SubmitEnqueue, ApiCrash,
       LeaseExpires, LeasePaused, Age, Transition, dbVars, workerVars
  <2>2. \A k \in Job : lease[k] = "expired" => lease'[k] = "expired"
    BY <1>6 DEF Submit, SubmitInsert, SubmitValidate, SubmitQueue, SubmitEnqueue, ApiCrash,
       LeaseExpires, LeasePaused, Age, Transition, dbVars, workerVars
  <2>3. \A w \in Worker : \A r \in rows[w] : r.job \in Job
    BY DEF Row
  <2>. QED
    BY <2>1, <2>2, <2>3
<1>7. CASE QueueLoss \/ UNCHANGED vars
  BY <1>7 DEF QueueLoss, vars, dbVars, workerVars
<1>. QED
  BY <1>1, <1>2, <1>3, <1>4, <1>5, <1>6, <1>7, <1>8 DEF Next, MainThread

(* What a step does to the states and attempts of the rows, when one       *)
(* worker is alone: a row is queued for the first time untried, and again  *)
(* by the worker that has seen that it may be tried again.                 *)
LEMMA NextTried ==
  ASSUME Alone, SoleInv, [Next]_vars
  PROVE  FreshIsUntried' /\ QueuedMayBeTried' /\ AttemptsBounded'
<1> DEFINE Goal == FreshIsUntried' /\ QueuedMayBeTried' /\ AttemptsBounded'
<1> USE DEF SoleInv, RowInv, TypeInv, TypeOK, FreshIsUntried, QueuedMayBeTried, AttemptsBounded
<1>1. ASSUME UNCHANGED <<state, attempts>> PROVE Goal
  BY <1>1
<1>2. ASSUME NEW j \in Job, NEW src, NEW dst, Transition(j, src, dst),
             dst \in {"received", "validated"} => src \in {"received", "validated"},
             dst # "absent",
             dst = "queued" => \/ src = "validated"
                               \/ src = "failed_retryable" /\ attempts[j] < MaxAttemptsOf(j)
      PROVE  Goal
  <2>1. UNCHANGED attempts /\ \A k \in Job : state'[k] = IF k = j /\ state[j] = src THEN dst ELSE state[k]
    BY <1>2, TransitionRow
  <2>2. FreshIsUntried'
    BY <1>2, <2>1
  <2>3. QueuedMayBeTried'
    BY <1>2, <2>1, MaxType
  <2>. QED
    BY <2>1, <2>2, <2>3
<1>3. ASSUME NEW w \in Worker, ReapRow(w) PROVE Goal
  <2>1. PICK r \in rows[w] : Transition(r.job, r.state, "failed_retryable")
    BY <1>3 DEF ReapRow
  <2>2. r.job \in Job
    BY DEF Row
  <2>. QED
    BY <1>2, <2>1, <2>2
<1>4. ASSUME NEW w \in Worker, ReapRequeue(w) \/ RetryRequeue(w) PROVE Goal
  <2>1. job[w] \in Job /\ Transition(job[w], "failed_retryable", "queued")
    BY <1>4 DEF HoldsJob, Holding, Handling, Reaping, At, ReapRequeue, RetryRequeue
  <2>2. attempts[job[w]] < MaxAttemptsOf(job[w])
    BY <1>4 DEF DecidedAsItIs, ReapRequeue, RetryRequeue, At
  <2>. QED
    BY <1>2, <2>1, <2>2
<1>5. ASSUME NEW w \in Worker, ReapExhaust(w) \/ RetryExhaust(w) PROVE Goal
  <2>1. job[w] \in Job /\ Transition(job[w], "failed_retryable", "failed_terminal")
    BY <1>5 DEF HoldsJob, Holding, Handling, Reaping, At, ReapExhaust, RetryExhaust
  <2>. QED
    BY <1>2, <2>1
<1>6. ASSUME NEW w \in Worker, Claim(w) PROVE Goal
  <2>1. job[w] \in Job
    BY <1>6 DEF HoldsJob, Holding, At, Claim
  <2>2. CASE Claimable(job[w])
    <3>1. /\ state' = [state EXCEPT ![job[w]] = First(job[w])]
          /\ attempts' = [attempts EXCEPT ![job[w]] = attempts[job[w]] + 1]
      BY <1>6, <2>2 DEF Claim, SpentAttempt
    <3>2. state[job[w]] = "queued" /\ First(job[w]) \in {"training", "parsing"}
      BY <2>2 DEF Claimable, First
    <3>3. FreshIsUntried' /\ QueuedMayBeTried'
      BY <2>1, <3>1, <3>2
    <3>4. \A j \in Job : attempts'[j] <= MaxAttemptsOf(j)
      BY <2>1, <3>1, <3>2, MaxType
    <3>. QED
      BY <3>3, <3>4
  <2>3. CASE ~Claimable(job[w])
    BY <1>6, <1>1, <2>3 DEF Claim
  <2>. QED
    BY <2>2, <2>3
<1>7. ASSUME NEW w \in Worker, Progress(w) PROVE Goal
  <2>1. job[w] \in Job
    BY <1>7 DEF HoldsJob, Holding, Handling, At, Progress
  <2>2. PICK target : target = Stage[stage[w] + 1]
    OBVIOUS
  <2>3. target \in {"normalizing", "extracting", "validating_outputs"}
    <3>1. stage[w] = 0 \/ stage[w] = 1 \/ stage[w] = 2
      BY <1>7 DEF Progress, Stage
    <3>. QED
      BY <2>2, <3>1 DEF Stage
  <2>4. CASE Legal(cur[w], target)
    <3>1. Transition(job[w], cur[w], target)
      BY <1>7, <2>2, <2>4 DEF Progress
    <3>. QED
      BY <1>2, <2>1, <2>3, <3>1
  <2>5. CASE ~Legal(cur[w], target)
    BY <1>7, <1>1, <2>2, <2>5 DEF Progress, dbVars
  <2>. QED
    BY <2>4, <2>5
<1>8. ASSUME NEW w \in Worker, Finish(w) PROVE Goal
  <2>1. job[w] \in Job
    BY <1>8 DEF HoldsJob, Holding, Handling, At, Finish
  <2>2. PICK o \in Outcomes :
         IF o = "raise" \/ ~Legal(cur[w], o) THEN UNCHANGED dbVars ELSE Transition(job[w], cur[w], o)
    BY <1>8 DEF Finish
  <2>3. o \in OutcomeSet
    BY ConstantsAssumption
  <2>4. CASE o = "raise" \/ ~Legal(cur[w], o)
    BY <1>1, <2>2, <2>4 DEF dbVars
  <2>5. CASE ~(o = "raise" \/ ~Legal(cur[w], o))
    <3>1. o \notin {"received", "validated", "absent", "queued"}
      BY <2>3 DEF OutcomeSet
    <3>2. Transition(job[w], cur[w], o)
      BY <2>2, <2>5
    <3>. QED
      BY <1>2, <2>1, <3>1, <3>2
  <2>. QED
    BY <2>4, <2>5
<1>9. ASSUME NEW w \in Worker, ExceptFail(w) PROVE Goal
  <2>1. job[w] \in Job /\ Transition(job[w], cur[w], "failed_terminal")
    BY <1>9 DEF HoldsJob, Holding, Handling, At, ExceptFail
  <2>. QED
    BY <1>2, <2>1
<1>10. ASSUME NEW j \in Job, Submit(j) PROVE Goal
  <2>1. CASE SubmitInsert(j)
    BY <2>1 DEF SubmitInsert, Unsubmitted
  <2>2. CASE SubmitValidate(j)
    BY <1>2, <2>2 DEF SubmitValidate
  <2>3. CASE SubmitQueue(j)
    BY <1>2, <2>3 DEF SubmitQueue
  <2>4. CASE SubmitEnqueue(j)
    BY <1>1, <2>4 DEF SubmitEnqueue, dbVars
  <2>. QED
    BY <1>10, <2>1, <2>2, <2>3, <2>4 DEF Submit
<1>11. ASSUME NEW j \in Job, ApiCrash(j) \/ LeaseExpires(j) \/ LeasePaused(j) \/ Age(j) PROVE Goal
  BY <1>1, <1>11 DEF ApiCrash, LeaseExpires, LeasePaused, Age, dbVars
<1>12. ASSUME NEW w \in Worker,
              \/ Reserve(w) \/ ReserveTimeout(w) \/ ReapSelect(w) \/ ReapEnqueue(w)
              \/ ReconcileRead(w) \/ ReconcileSelect(w) \/ Reenqueue(w) \/ ReconcileDone(w)
              \/ FirstHeartbeat(w) \/ RetryRead(w) \/ RetryEnqueue(w) \/ ExceptRead(w) \/ Ack(w)
              \/ Exit(w) \/ Stop(w) \/ Crash(w) \/ Restart(w) \/ Heartbeat(w)
       PROVE  Goal
  BY <1>1, <1>12 DEF Reserve, ReserveTimeout, ReapSelect, ReapEnqueue, ReconcileRead, ReconcileSelect,
       Reenqueue, ReconcileDone, FirstHeartbeat, RetryRead, RetryEnqueue, ExceptRead, Ack,
       Exit, Stop, Crash, Restart, Heartbeat, dbVars
<1>13. CASE QueueLoss \/ UNCHANGED vars
  BY <1>1, <1>13 DEF QueueLoss, vars, dbVars
<1>. QED
  BY <1>3, <1>4, <1>5, <1>6, <1>7, <1>8, <1>9, <1>10, <1>11, <1>12, <1>13 DEF Next, MainThread

(* A retry that has been decided on is not overtaken: with one worker, no  *)
(* attempt is spent between the decision and the write.                    *)
LEMMA NextDecided ==
  ASSUME Alone, SoleInv, [Next]_vars
  PROVE  DecidedAsItIs'
<1> USE DEF SoleInv, RowInv, TypeInv, TypeOK, DecidedAsItIs, At, Goto
<1> DEFINE Deciding == {"requeue", "reapRequeue", "exhaust", "reapExhaust"}
<1>1. ASSUME NEW w \in Worker, pc'[w] \notin Deciding PROVE DecidedAsItIs'
  BY <1>1 DEF Alone
<1>2. ASSUME UNCHANGED <<attempts, pc, job>> PROVE DecidedAsItIs'
  BY <1>2
<1>3. ASSUME NEW w \in Worker, ReapRow(w) PROVE DecidedAsItIs'
  <2>1. PICK r \in rows[w] :
         /\ Transition(r.job, r.state, "failed_retryable")
         /\ IF Won(r.job, r.state)
            THEN job' = [job EXCEPT ![w] = r.job] /\ Goto(w, AfterReap(r))
            ELSE UNCHANGED <<job, pc>>
    BY <1>3 DEF ReapRow
  <2>2. UNCHANGED attempts /\ r.job \in Job /\ r.attempts = attempts[r.job]
    BY <2>1 DEF Transition, Row, SelectedAsItIs
  <2>3. CASE Won(r.job, r.state)
    <3>1. job'[w] = r.job /\ pc'[w] = AfterReap(r)
      BY <2>1, <2>3
    <3>2. /\ pc'[w] \in {"requeue", "reapRequeue"} => attempts[r.job] < MaxAttemptsOf(r.job)
          /\ pc'[w] \in {"exhaust", "reapExhaust"} => attempts[r.job] >= MaxAttemptsOf(r.job)
      BY <2>2, <3>1, MaxType DEF AfterReap
    <3>. QED
      BY <2>2, <3>1, <3>2 DEF Alone
  <2>4. CASE ~Won(r.job, r.state)
    BY <1>2, <2>1, <2>2, <2>4
  <2>. QED
    BY <2>3, <2>4
<1>4. ASSUME NEW w \in Worker, RetryRead(w) PROVE DecidedAsItIs'
  <2>1. job[w] \in Job
    BY <1>4 DEF HoldsJob, Holding, Handling, RetryRead
  <2>2. UNCHANGED <<attempts, job>> /\ pc'[w] = AfterRetry(job[w])
    BY <1>4 DEF RetryRead, dbVars
  <2>3. /\ pc'[w] \in {"requeue", "reapRequeue"} => attempts[job[w]] < MaxAttemptsOf(job[w])
        /\ pc'[w] \in {"exhaust", "reapExhaust"} => attempts[job[w]] >= MaxAttemptsOf(job[w])
    BY <2>1, <2>2, MaxType DEF AfterRetry
  <2>. QED
    BY <2>2, <2>3 DEF Alone
<1>5. ASSUME NEW w \in Worker, MainThread(w), ~ReapRow(w), ~RetryRead(w), ~Reenqueue(w), ~Progress(w), ~Finish(w), ~Claim(w), ~ExceptRead(w)
      PROVE  DecidedAsItIs'
  <2>1. pc'[w] \notin Deciding
    BY <1>5 DEF MainThread, Reserve, ReserveTimeout, ReapSelect, ReapRequeue, ReapEnqueue, ReapExhaust,
       ReconcileRead, ReconcileSelect, ReconcileDone, FirstHeartbeat, RetryRequeue, RetryEnqueue,
       RetryExhaust, ExceptFail, Ack, Exit
  <2>. QED
    BY <1>1, <2>1
<1>6. ASSUME NEW w \in Worker, Reenqueue(w) \/ Progress(w) \/ Finish(w) \/ Claim(w) \/ ExceptRead(w)
      PROVE  DecidedAsItIs'
  <2>1. pc'[w] \notin Deciding
    BY <1>6 DEF Reenqueue, Progress, Finish, Claim, ExceptRead
  <2>. QED
    BY <1>1, <2>1
<1>7. ASSUME NEW w \in Worker, Crash(w) \/ Restart(w) PROVE DecidedAsItIs'
  BY <1>1, <1>7 DEF Crash, Restart
<1>8. ASSUME NEW w \in Worker, Stop(w) \/ Heartbeat(w) PROVE DecidedAsItIs'
  BY <1>2, <1>8 DEF Stop, Heartbeat, dbVars, workerVars
<1>9. ASSUME NEW j \in Job, Submit(j) \/ ApiCrash(j) \/ LeaseExpires(j) \/ LeasePaused(j) \/ Age(j)
      PROVE  DecidedAsItIs'
  BY <1>2, <1>9 DEF Submit, SubmitInsert, SubmitValidate, SubmitQueue, SubmitEnqueue, ApiCrash,
       LeaseExpires, LeasePaused, Age, Transition, dbVars, workerVars
<1>10. CASE QueueLoss \/ UNCHANGED vars
  BY <1>2, <1>10 DEF QueueLoss, vars, dbVars, workerVars
<1>. QED
  BY <1>3, <1>4, <1>5, <1>6, <1>7, <1>8, <1>9, <1>10 DEF Next

(* The invariant of a lone worker is inductive.                            *)
LEMMA NextSole == ASSUME Alone PROVE SoleInv /\ [Next]_vars => SoleInv'
<1> SUFFICES ASSUME SoleInv, [Next]_vars PROVE SoleInv'
  OBVIOUS
<1>1. RowInv'
  BY NextRowInv DEF SoleInv
<1>2. FreshIsUntried' /\ QueuedMayBeTried' /\ AttemptsBounded'
  BY NextTried
<1>3. DecidedAsItIs'
  BY NextDecided
<1>4. SelectedAsItIs'
  BY NextSelected
<1>. QED
  BY <1>1, <1>2, <1>3, <1>4 DEF SoleInv

(* "failed_retryable -> queued (attempts < max)" (docs/architecture.md):   *)
(* a worker process that is alone never tries a job more often than        *)
(* max_attempts, whatever crashes, SIGTERMs, stalls and losses happen.     *)
THEOREM SoleAttempts == ASSUME Alone PROVE Spec => []AttemptsBounded
<1>1. Spec => []SoleInv
  BY InitSole, NextSole, PTL DEF Spec
<1>2. SoleInv => AttemptsBounded
  BY DEF SoleInv
<1>. QED
  BY <1>1, <1>2, PTL

(* "lease expired: worker is presumed dead" (reap_expired_leases): the only*)
(* reaper there is takes no job away whose lease is alive.                 *)
THEOREM SoleLeases == ASSUME Alone PROVE Spec => OnlyExpiredLeasesAreReaped
<1> DEFINE Expired ==
      \A j \in Job, w \in Worker :
        pc'[w] \in Reaping /\ job'[w] = j /\ state[j] \in IN_FLIGHT
          /\ state'[j] = "failed_retryable" => lease[j] = "expired"
<1>1. SoleInv /\ [Next]_vars => [Expired]_vars
  <2> SUFFICES ASSUME SoleInv, Next, NEW j \in Job, NEW w \in Worker,
                      pc'[w] \in Reaping, job'[w] = j, state[j] \in IN_FLIGHT,
                      state'[j] = "failed_retryable"
               PROVE  lease[j] = "expired"
    OBVIOUS
  <2> USE DEF SoleInv, RowInv, TypeInv, TypeOK, At, Goto
  <2>1. state'[j] # state[j]
    BY DEF IN_FLIGHT
  <2>2. ASSUME NEW v \in Worker, ReapRow(v) PROVE lease[j] = "expired"
    <3>1. v = w
      BY DEF Alone
    <3>2. PICK r \in rows[w] : Transition(r.job, r.state, "failed_retryable")
      BY <2>2, <3>1 DEF ReapRow
    <3>3. r.job \in Job /\ lease[r.job] = "expired"
      BY DEF SelectedAsItIs, Row
    <3>4. PICK k, src : k = r.job /\ src = r.state
      OBVIOUS
    <3>5. state'[j] = IF j = k /\ state[k] = src THEN "failed_retryable" ELSE state[j]
      BY <3>2, <3>3, <3>4, TransitionRow
    <3>. QED
      BY <2>1, <3>3, <3>4, <3>5
  <2>3. ASSUME NEW v \in Worker, ReapRequeue(v) \/ RetryRequeue(v) PROVE FALSE
    <3>1. job[v] \in Job /\ Transition(job[v], "failed_retryable", "queued")
      BY <2>3 DEF HoldsJob, Holding, Handling, Reaping, ReapRequeue, RetryRequeue
    <3>. QED
      BY <2>1, <3>1, TransitionRow
  <2>4. ASSUME NEW v \in Worker, ReapExhaust(v) \/ RetryExhaust(v) PROVE FALSE
    <3>1. job[v] \in Job /\ Transition(job[v], "failed_retryable", "failed_terminal")
      BY <2>4 DEF HoldsJob, Holding, Handling, Reaping, ReapExhaust, RetryExhaust
    <3>. QED
      BY <2>1, <3>1, TransitionRow
  <2>5. ASSUME NEW v \in Worker, Progress(v) \/ Finish(v) \/ Claim(v) \/ ExceptFail(v) PROVE FALSE
    <3>1. v = w
      BY DEF Alone
    <3>. QED
      BY <2>5, <3>1 DEF Progress, Finish, Claim, ExceptFail, Reaping
  <2>6. ASSUME NEW v \in Worker,
              \/ Reserve(v) \/ ReserveTimeout(v) \/ ReapSelect(v) \/ ReapEnqueue(v)
              \/ ReconcileRead(v) \/ ReconcileSelect(v) \/ Reenqueue(v) \/ ReconcileDone(v)
              \/ FirstHeartbeat(v) \/ RetryRead(v) \/ RetryEnqueue(v) \/ ExceptRead(v) \/ Ack(v)
              \/ Exit(v) \/ Stop(v) \/ Crash(v) \/ Restart(v) \/ Heartbeat(v)
       PROVE  FALSE
    BY <2>1, <2>6 DEF Reserve, ReserveTimeout, ReapSelect, ReapEnqueue, ReconcileRead, ReconcileSelect,
         Reenqueue, ReconcileDone, FirstHeartbeat, RetryRead, RetryEnqueue, ExceptRead, Ack,
         Exit, Stop, Crash, Restart, Heartbeat, dbVars
  <2>7. ASSUME NEW k \in Job, Submit(k) \/ ApiCrash(k) \/ LeaseExpires(k) \/ LeasePaused(k) \/ Age(k)
        PROVE  FALSE
    <3>1. UNCHANGED state \/ \E dst \in {"received", "validated", "queued"} : state' = [state EXCEPT ![k] = dst]
      BY <2>7 DEF Submit, SubmitInsert, SubmitValidate, SubmitQueue, SubmitEnqueue, ApiCrash,
           LeaseExpires, LeasePaused, Age, Transition, dbVars
    <3>. QED
      BY <2>1, <3>1
  <2>8. CASE QueueLoss
    BY <2>1, <2>8 DEF QueueLoss, dbVars
  <2>. QED
    BY <2>2, <2>3, <2>4, <2>5, <2>6, <2>7, <2>8 DEF Next, MainThread
<1>2. Spec => []SoleInv
  BY InitSole, NextSole, PTL DEF Spec
<1>. QED
  BY <1>1, <1>2, PTL DEF Spec, OnlyExpiredLeasesAreReaped

(* The worker's own idea of the state of its job, while it runs it.        *)
InStep ==
  \A w \in Worker :
    /\ pc[w] \notin {"except", "fail"}
    /\ pc[w] \notin Handling \cup {"ack"} => stage[w] = 0
    /\ pc[w] \in {"beat", "run"} =>
         /\ cur[w] = state[job[w]]
         /\ cur[w] = IF stage[w] = 0 THEN First(job[w]) ELSE Stage[stage[w]]
         /\ job[w] \in TrainJobs \/ pc[w] = "beat" => stage[w] = 0

(* A pipeline that neither raises nor gives a job up for good.             *)
NothingRaised == Outcomes \cap {"raise", "failed_terminal"} = {}

(* Nothing but the worker that runs a job moves the row of that job on.    *)
LEMMA RunningRow ==
  ASSUME Alone, SoleInv, [Next]_vars, NEW w \in Worker, pc[w] \in {"beat", "run"},
         ~Progress(w), ~Finish(w), ~Claim(w)
  PROVE  state'[job[w]] = state[job[w]] \/ state[job[w]] \notin IN_FLIGHT
<1> USE DEF SoleInv, RowInv, TypeInv, TypeOK, At, Goto
<1>1. job[w] \in Job
  BY DEF HoldsJob, Holding, Handling
<1>2. ASSUME NEW v \in Worker,
             \/ Reserve(v) \/ ReserveTimeout(v) \/ ReapSelect(v) \/ ReapEnqueue(v)
             \/ ReconcileRead(v) \/ ReconcileSelect(v) \/ Reenqueue(v) \/ ReconcileDone(v)
             \/ FirstHeartbeat(v) \/ RetryRead(v) \/ RetryEnqueue(v) \/ ExceptRead(v) \/ Ack(v)
             \/ Exit(v) \/ Stop(v) \/ Crash(v) \/ Restart(v) \/ Heartbeat(v)
      PROVE  UNCHANGED state
  BY <1>2 DEF Reserve, ReserveTimeout, ReapSelect, ReapEnqueue, ReconcileRead, ReconcileSelect,
       Reenqueue, ReconcileDone, FirstHeartbeat, RetryRead, RetryEnqueue, ExceptRead, Ack,
       Exit, Stop, Crash, Restart, Heartbeat, dbVars
<1>3. ASSUME NEW v \in Worker,
             ReapRow(v) \/ ReapRequeue(v) \/ RetryRequeue(v) \/ ReapExhaust(v) \/ RetryExhaust(v) \/ ExceptFail(v)
      PROVE  FALSE
  <2>1. v = w
    BY DEF Alone
  <2>. QED
    BY <1>3, <2>1 DEF ReapRow, ReapRequeue, RetryRequeue, ReapExhaust, RetryExhaust, ExceptFail
<1>4. ASSUME NEW v \in Worker, Progress(v) \/ Finish(v) \/ Claim(v) PROVE FALSE
  BY <1>4 DEF Alone
<1>5. ASSUME NEW k \in Job, Submit(k) \/ ApiCrash(k) \/ LeaseExpires(k) \/ LeasePaused(k) \/ Age(k)
      PROVE  state'[job[w]] = state[job[w]] \/ state[job[w]] \notin IN_FLIGHT
  <2>1. CASE UNCHANGED state
    BY <2>1
  <2>2. CASE SubmitInsert(k)
    <3>1. state[k] = "absent" /\ state' = [state EXCEPT ![k] = "received"]
      BY <2>2 DEF SubmitInsert, Unsubmitted
    <3>. QED
      BY <1>1, <3>1 DEF IN_FLIGHT
  <2>3. CASE SubmitValidate(k) \/ SubmitQueue(k)
    <3>1. PICK src \in {"received", "validated"}, dst \in {"validated", "queued"} : Transition(k, src, dst)
      BY <2>3 DEF SubmitValidate, SubmitQueue
    <3>2. state'[job[w]] = IF job[w] = k /\ state[k] = src THEN dst ELSE state[job[w]]
      BY <1>1, <3>1, TransitionRow
    <3>. QED
      BY <3>2 DEF IN_FLIGHT
  <2>. QED
    BY <1>5, <2>1, <2>2, <2>3 DEF Submit, SubmitEnqueue, ApiCrash, LeaseExpires, LeasePaused, Age, dbVars
<1>6. CASE QueueLoss \/ UNCHANGED vars
  BY <1>6 DEF QueueLoss, vars, dbVars
<1>. QED
  BY <1>2, <1>3, <1>4, <1>5, <1>6 DEF Next, MainThread

(* A worker that runs a job moves it along legal pairs only, so that the   *)
(* handler of exceptions is never entered.                                 *)
LEMMA NextInStep ==
  ASSUME Alone, NothingRaised, SoleInv, InStep, [Next]_vars
  PROVE  InStep'
<1> USE DEF SoleInv, RowInv, TypeInv, TypeOK, At, Goto
<1>0. ASSUME NEW w \in Worker, pc[w] \in {"beat", "run"} PROVE state[job[w]] \in IN_FLIGHT
  <2>1. stage[w] = 0 \/ stage[w] = 1 \/ stage[w] = 2 \/ stage[w] = 3
    BY DEF Stage
  <2>2. state[job[w]] \in {"training", "parsing", Stage[1], Stage[2], Stage[3]}
    BY <1>0, <2>1 DEF InStep, First
  <2>. QED
    BY <2>2 DEF Stage, IN_FLIGHT
<1>1. ASSUME NEW w \in Worker, UNCHANGED <<pc, job, cur, stage>>,
             pc[w] \in {"beat", "run"} => state'[job[w]] = state[job[w]]
      PROVE  InStep'
  BY <1>1 DEF InStep, Alone
<1>2. ASSUME NEW w \in Worker, pc'[w] \notin {"except", "fail", "beat", "run"},
             pc'[w] \in Handling \cup {"ack"} \/ stage'[w] = 0
      PROVE  InStep'
  BY <1>2 DEF InStep, Alone
<1>3. ASSUME NEW w \in Worker, Progress(w) PROVE InStep'
  <2>1. job[w] \in Job /\ job[w] \notin TrainJobs /\ stage[w] < 3 /\ pc[w] = "run" /\ Len(Stage) = 3
    BY <1>3 DEF HoldsJob, Holding, Handling, Progress, Stage
  <2>2. PICK target : target = Stage[stage[w] + 1]
    OBVIOUS
  <2>3. cur[w] = state[job[w]] /\ cur[w] = IF stage[w] = 0 THEN "parsing" ELSE Stage[stage[w]]
    BY <2>1 DEF InStep, First
  <2>4. Legal(cur[w], target)
    <3>1. stage[w] = 0 \/ stage[w] = 1 \/ stage[w] = 2
      BY <2>1
    <3>2. CASE stage[w] = 0
      BY <2>2, <2>3, <3>2 DEF Stage, Legal, TRANSITIONS
    <3>3. CASE stage[w] = 1
      BY <2>2, <2>3, <3>3 DEF Stage, Legal, TRANSITIONS
    <3>4. CASE stage[w] = 2
      BY <2>2, <2>3, <3>4 DEF Stage, Legal, TRANSITIONS
    <3>. QED
      BY <3>1, <3>2, <3>3, <3>4
  <2>5. /\ Transition(job[w], cur[w], target)
        /\ cur' = [cur EXCEPT ![w] = IF Won(job[w], @) THEN target ELSE @]
        /\ UNCHANGED <<pc, job>>
        /\ stage' = [stage EXCEPT ![w] = @ + 1]
    BY <1>3, <2>2, <2>4 DEF Progress
  <2>6. state'[job[w]] = target
    <3>1. PICK j \in Job, src \in {cur[w]} : j = job[w] /\ src = cur[w]
      BY <2>1
    <3>2. state'[j] = IF j = j /\ state[j] = src THEN target ELSE state[j]
      BY <2>5, <3>1, TransitionRow
    <3>. QED
      BY <2>3, <3>1, <3>2
  <2>7. cur'[w] = target
    BY <2>3, <2>5 DEF Won
  <2>8. stage'[w] = stage[w] + 1 /\ stage'[w] # 0
    <3>1. stage'[w] = stage[w] + 1
      BY <2>5
    <3>2. stage[w] \in 0..3
      BY <2>1
    <3>. QED
      BY <3>1, <3>2
  <2>. QED
    BY <2>1, <2>2, <2>5, <2>6, <2>7, <2>8 DEF InStep, Alone, Handling
<1>4. ASSUME NEW w \in Worker, Finish(w) PROVE InStep'
  <2>1. job[w] \in Job /\ pc[w] = "run"
    BY <1>4 DEF HoldsJob, Holding, Handling, Finish
  <2>2. PICK o \in Outcomes :
         /\ MayEnd(w, o)
         /\ IF o = "raise" \/ ~Legal(cur[w], o)
            THEN /\ Goto(w, "except")
                 /\ UNCHANGED dbVars
            ELSE /\ Transition(job[w], cur[w], o)
                 /\ Goto(w, IF o = "failed_retryable" /\ Won(job[w], cur[w]) THEN "retry" ELSE "ack")
    BY <1>4 DEF Finish
  <2>3. o \in {"completed", "rejected", "quarantined", "timed_out", "failed_retryable"}
    BY ConstantsAssumption DEF NothingRaised, OutcomeSet
  <2>4. Legal(cur[w], o)
    <3>1. CASE o = "completed"
      <4>1. stage[w] = 0 \/ stage[w] = 3
        BY <2>1, <2>2, <3>1 DEF MayEnd, InStep, Stage
      <4>2. cur[w] = IF stage[w] = 0 THEN First(job[w]) ELSE Stage[stage[w]]
        BY <2>1 DEF InStep
      <4>3. First(job[w]) \in {"training", "parsing"} /\ Stage[3] = "validating_outputs"
        BY DEF First, Stage
      <4>4. cur[w] \in {"training", "parsing", "validating_outputs"}
        BY <4>1, <4>2, <4>3
      <4>. QED
        BY <3>1, <4>4 DEF Legal, TRANSITIONS
    <3>2. CASE o # "completed"
      <4>1. o \in Fail
        BY <2>3, <3>2 DEF Fail
      <4>2. cur[w] \in IN_FLIGHT
        BY <1>0, <2>1 DEF InStep
      <4>. QED
        BY <4>1, <4>2 DEF Legal, TRANSITIONS, IN_FLIGHT
    <3>. QED
      BY <3>1, <3>2
  <2>5. pc'[w] \in {"retry", "ack"}
    BY <2>2, <2>3, <2>4
  <2>. QED
    BY <1>2, <2>5 DEF Handling
<1>5. ASSUME NEW w \in Worker, Claim(w) PROVE InStep'
  <2>1. job[w] \in Job /\ pc[w] = "claim" /\ stage[w] = 0
    BY <1>5 DEF HoldsJob, Holding, Handling, Claim, InStep
  <2>2. CASE Claimable(job[w])
    <3>1. /\ state' = [state EXCEPT ![job[w]] = First(job[w])]
          /\ cur' = [cur EXCEPT ![w] = First(job[w])]
          /\ pc' = [pc EXCEPT ![w] = "beat"]
          /\ UNCHANGED <<job, stage>>
      BY <1>5, <2>2 DEF Claim
    <3>. QED
      BY <2>1, <3>1 DEF InStep, Alone, Handling
  <2>3. CASE ~Claimable(job[w])
    BY <1>2, <1>5, <2>3 DEF Claim
  <2>. QED
    BY <2>2, <2>3
<1>6. ASSUME NEW w \in Worker, FirstHeartbeat(w) PROVE InStep'
  BY <1>6 DEF FirstHeartbeat, InStep, Alone, Handling
<1>7. ASSUME NEW w \in Worker, MainThread(w), ~Progress(w), ~Finish(w), ~Claim(w), ~FirstHeartbeat(w), ~Reenqueue(w), ~ReapRow(w)
      PROVE  InStep'
  <2>1. pc[w] \notin {"except", "fail", "beat", "run"}
    <3>1. pc[w] \notin {"beat", "run"}
      BY <1>7 DEF MainThread, Reserve, ReserveTimeout, ReapSelect, ReapRequeue, ReapEnqueue, ReapExhaust,
       ReconcileRead, ReconcileSelect, ReconcileDone, RetryRead, RetryRequeue, RetryEnqueue,
       RetryExhaust, ExceptRead, ExceptFail, Ack, Exit
    <3>. QED
      BY <3>1 DEF InStep
  <2>2. ASSUME Reserve(w) \/ ReserveTimeout(w) \/ ReapSelect(w) \/ ReapRequeue(w) \/ ReapEnqueue(w) \/ ReapExhaust(w)
          \/ ReconcileRead(w) \/ ReconcileSelect(w) \/ ReconcileDone(w)
        PROVE  InStep'
    <3>1. pc[w] \notin Handling \cup {"ack"} /\ UNCHANGED stage /\ pc'[w] \notin {"except", "fail", "beat", "run"}
      BY <2>2 DEF Reserve, ReserveTimeout, ReapSelect, ReapRequeue, ReapEnqueue, ReapExhaust,
         ReconcileRead, ReconcileSelect, ReconcileDone, Handling
    <3>2. stage'[w] = 0
      BY <3>1 DEF InStep
    <3>. QED
      BY <1>2, <3>1, <3>2
  <2>3. ASSUME RetryRead(w) \/ RetryRequeue(w) \/ RetryEnqueue(w) \/ RetryExhaust(w) PROVE InStep'
    <3>1. pc'[w] \in {"requeue", "exhaust", "enqueue", "ack"}
      BY <2>3 DEF RetryRead, AfterRetry, RetryRequeue, RetryEnqueue, RetryExhaust
    <3>. QED
      BY <1>2, <3>1 DEF Handling
  <2>4. ASSUME Ack(w) \/ Exit(w) PROVE InStep'
    <3>1. stage'[w] = 0 /\ pc'[w] \in {"loop", "down"}
      BY <2>4 DEF Ack, Exit, Forget
    <3>. QED
      BY <1>2, <3>1
  <2>5. ~ExceptRead(w) /\ ~ExceptFail(w)
    BY <2>1 DEF ExceptRead, ExceptFail
  <2>. QED
    BY <1>7, <2>2, <2>3, <2>4, <2>5 DEF MainThread
<1>8. ASSUME NEW w \in Worker, Reenqueue(w) \/ ReapRow(w) PROVE InStep'
  <2>1. pc[w] \notin Handling \cup {"ack"} /\ UNCHANGED stage /\ pc'[w] \notin {"except", "fail", "beat", "run"}
    BY <1>8 DEF Reenqueue, ReapRow, AfterReap, Handling
  <2>2. stage'[w] = 0
    BY <2>1 DEF InStep
  <2>. QED
    BY <1>2, <2>1, <2>2
<1>9. ASSUME NEW w \in Worker, Crash(w) PROVE InStep'
  <2>1. stage'[w] = 0 /\ pc'[w] = "down"
    BY <1>9 DEF Crash, Forget
  <2>. QED
    BY <1>2, <2>1
<1>10. ASSUME NEW w \in Worker, Restart(w) PROVE InStep'
  <2>1. stage[w] = 0 /\ UNCHANGED stage /\ pc'[w] = "loop"
    BY <1>10 DEF Restart, InStep, Handling
  <2>. QED
    BY <1>2, <2>1
<1>11. ASSUME NEW w \in Worker, Stop(w) \/ Heartbeat(w) PROVE InStep'
  <2>1. UNCHANGED <<state, pc, job, cur, stage>>
    BY <1>11 DEF Stop, Heartbeat, dbVars, workerVars
  <2>. QED
    BY <1>1, <2>1
<1>12. ASSUME NEW j \in Job, Submit(j) \/ ApiCrash(j) \/ LeaseExpires(j) \/ LeasePaused(j) \/ Age(j)
       PROVE  InStep'
  <2>1. UNCHANGED <<pc, job, cur, stage>>
    BY <1>12 DEF Submit, SubmitInsert, SubmitValidate, SubmitQueue, SubmitEnqueue, ApiCrash,
         LeaseExpires, LeasePaused, Age, workerVars
  <2>2. ASSUME NEW w \in Worker, pc[w] \in {"beat", "run"} PROVE state'[job[w]] = state[job[w]]
    <3>1. ~Progress(w) /\ ~Finish(w)
      <4>1. ASSUME Progress(w) PROVE FALSE
        <5>1. stage'[w] = stage[w] + 1
          BY <4>1 DEF Progress
        <5>. QED
          BY <2>1, <5>1
      <4>2. ASSUME Finish(w) PROVE FALSE
        BY <2>1, <4>2 DEF Finish
      <4>. QED
        BY <4>1, <4>2
    <3>2. ~Claim(w)
      BY <2>2 DEF Claim
    <3>. QED
      BY <1>0, <2>2, <3>1, <3>2, RunningRow
  <2>3. CASE Worker = {}
    BY <2>3 DEF InStep
  <2>4. CASE Worker # {}
    BY <1>1, <2>1, <2>2, <2>4
  <2>. QED
    BY <2>3, <2>4
<1>13. CASE QueueLoss \/ UNCHANGED vars
  <2>1. UNCHANGED <<state, pc, job, cur, stage>>
    BY <1>13 DEF QueueLoss, vars, dbVars, workerVars
  <2>. QED
    BY <2>1 DEF InStep
<1>. QED
  BY <1>3, <1>4, <1>5, <1>6, <1>7, <1>8, <1>9, <1>10, <1>11, <1>12, <1>13 DEF Next, MainThread

(* "retries exhausted or internal error" (states.py, of failed_terminal):  *)
(* with a lone worker and a pipeline that raises nothing, a job fails for  *)
(* good only when its attempts are spent; a crash, a stall or an emptied   *)
(* queue costs an attempt, never the job.                                  *)
THEOREM SoleExhaustion ==
  ASSUME Alone, NothingRaised
  PROVE  Spec => OnlyExhaustedJobsFail
<1> DEFINE Exhausted ==
      \A j \in Job :
        state[j] # "failed_terminal" /\ state'[j] = "failed_terminal"
          => attempts[j] >= MaxAttemptsOf(j)
<1>1. SoleInv /\ InStep /\ [Next]_vars => [Exhausted]_vars
  <2> SUFFICES ASSUME SoleInv, InStep, Next, NEW j \in Job,
                      state[j] # "failed_terminal", state'[j] = "failed_terminal"
               PROVE  attempts[j] >= MaxAttemptsOf(j)
    OBVIOUS
  <2> USE DEF SoleInv, RowInv, TypeInv, TypeOK, At, Goto
  <2>0. ASSUME NEW k \in Job, NEW src, NEW dst, Transition(k, src, dst)
        PROVE  dst = "failed_terminal" /\ k = j
    BY <2>0, TransitionRow
  <2>1. ASSUME NEW v \in Worker, ReapExhaust(v) \/ RetryExhaust(v)
        PROVE  attempts[j] >= MaxAttemptsOf(j)
    <3>1. job[v] \in Job /\ Transition(job[v], "failed_retryable", "failed_terminal")
      BY <2>1 DEF HoldsJob, Holding, Handling, Reaping, ReapExhaust, RetryExhaust
    <3>2. job[v] = j
      BY <2>0, <3>1
    <3>. QED
      BY <2>1, <3>2 DEF DecidedAsItIs, ReapExhaust, RetryExhaust
  <2>2. ASSUME NEW v \in Worker, ReapRow(v) PROVE FALSE
    <3>1. PICK r \in rows[v] : Transition(r.job, r.state, "failed_retryable")
      BY <2>2 DEF ReapRow
    <3>2. r.job \in Job
      BY DEF Row
    <3>. QED
      BY <2>0, <3>1, <3>2
  <2>3. ASSUME NEW v \in Worker, ReapRequeue(v) \/ RetryRequeue(v) PROVE FALSE
    <3>1. job[v] \in Job /\ Transition(job[v], "failed_retryable", "queued")
      BY <2>3 DEF HoldsJob, Holding, Handling, Reaping, ReapRequeue, RetryRequeue
    <3>. QED
      BY <2>0, <3>1
  <2>4. ASSUME NEW v \in Worker, Progress(v) PROVE FALSE
    <3>1. job[v] \in Job
      BY <2>4 DEF HoldsJob, Holding, Handling, Progress
    <3>2. PICK target : target = Stage[stage[v] + 1]
      OBVIOUS
    <3>3. target # "failed_terminal"
      <4>1. stage[v] = 0 \/ stage[v] = 1 \/ stage[v] = 2
        BY <2>4 DEF Progress, Stage
      <4>. QED
        BY <3>2, <4>1 DEF Stage
    <3>4. Transition(job[v], cur[v], target) \/ UNCHANGED state
      BY <2>4, <3>2 DEF Progress, dbVars
    <3>. QED
      BY <2>0, <3>1, <3>3, <3>4
  <2>5. ASSUME NEW v \in Worker, Finish(v) PROVE FALSE
    <3>1. job[v] \in Job
      BY <2>5 DEF HoldsJob, Holding, Handling, Finish
    <3>2. PICK o \in Outcomes : Transition(job[v], cur[v], o) \/ UNCHANGED state
      BY <2>5 DEF Finish, dbVars
    <3>3. o # "failed_terminal"
      BY DEF NothingRaised
    <3>. QED
      BY <2>0, <3>1, <3>2, <3>3
  <2>6. ASSUME NEW v \in Worker, Claim(v) PROVE FALSE
    <3>1. UNCHANGED state \/ state' = [state EXCEPT ![job[v]] = First(job[v])]
      BY <2>6 DEF Claim
    <3>2. First(job[v]) # "failed_terminal"
      BY DEF First
    <3>. QED
      BY <3>1, <3>2
  <2>7. ASSUME NEW v \in Worker, ExceptFail(v) PROVE FALSE
    BY <2>7 DEF ExceptFail, InStep
  <2>8. ASSUME NEW v \in Worker,
              \/ Reserve(v) \/ ReserveTimeout(v) \/ ReapSelect(v) \/ ReapEnqueue(v)
              \/ ReconcileRead(v) \/ ReconcileSelect(v) \/ Reenqueue(v) \/ ReconcileDone(v)
              \/ FirstHeartbeat(v) \/ RetryRead(v) \/ RetryEnqueue(v) \/ ExceptRead(v) \/ Ack(v)
              \/ Exit(v) \/ Stop(v) \/ Crash(v) \/ Restart(v) \/ Heartbeat(v)
       PROVE  FALSE
    BY <2>8 DEF Reserve, ReserveTimeout, ReapSelect, ReapEnqueue, ReconcileRead, ReconcileSelect,
         Reenqueue, ReconcileDone, FirstHeartbeat, RetryRead, RetryEnqueue, ExceptRead, Ack,
         Exit, Stop, Crash, Restart, Heartbeat, dbVars
  <2>9. ASSUME NEW k \in Job, Submit(k) \/ ApiCrash(k) \/ LeaseExpires(k) \/ LeasePaused(k) \/ Age(k)
        PROVE  FALSE
    <3>1. UNCHANGED state \/ \E dst \in {"received", "validated", "queued"} : state' = [state EXCEPT ![k] = dst]
      BY <2>9 DEF Submit, SubmitInsert, SubmitValidate, SubmitQueue, SubmitEnqueue, ApiCrash,
           LeaseExpires, LeasePaused, Age, Transition, dbVars
    <3>. QED
      BY <3>1
  <2>10. CASE QueueLoss
    BY <2>10 DEF QueueLoss, dbVars
  <2>. QED
    BY <2>1, <2>2, <2>3, <2>4, <2>5, <2>6, <2>7, <2>8, <2>9, <2>10 DEF Next, MainThread
<1>2. Init => SoleInv /\ InStep
  BY InitSole DEF Init, InStep, Handling
<1>3. SoleInv /\ InStep /\ [Next]_vars => (SoleInv /\ InStep)'
  BY NextSole, NextInStep
<1>4. Spec => [](SoleInv /\ InStep)
  BY <1>2, <1>3, PTL DEF Spec
<1>. QED
  BY <1>1, <1>4, PTL DEF Spec, OnlyExhaustedJobsFail
================================================================================
