------------------------------ MODULE JobLifecycle -----------------------------
(***************************************************************************)
(* What the job system promises to a reader of one row of the jobs table   *)
(* (GET /v1/jobs/{id}), whatever workers, reapers, crashes and lost queues *)
(* do meanwhile: the row is created once, every later change follows the   *)
(* state machine of cad2ml/jobs/states.py, an attempt is spent by a claim  *)
(* and by nothing else, and only a queued job is claimed.                  *)
(***************************************************************************)
EXTENDS Naturals, JobStates

CONSTANTS Job, TrainJobs

VARIABLES state, attempts

lifecycleVars == <<state, attempts>>

\* The states a claim leads to; a job enters them in no other way.
Claimed == { "parsing", "training" }
FirstState(j) == IF j \in TrainJobs THEN "training" ELSE "parsing"

LifecycleInit ==
  /\ state = [j \in Job |-> "absent"]
  /\ attempts = [j \in Job |-> 0]

Create(j) ==
  /\ state[j] = "absent"
  /\ state' = [state EXCEPT ![j] = "received"]
  /\ UNCHANGED attempts

SpendAttempt(j) ==
  /\ state[j] = "queued"
  /\ state' = [state EXCEPT ![j] = FirstState(j)]
  /\ attempts' = [attempts EXCEPT ![j] = @ + 1]

Move(j, dst) ==
  /\ state[j] # "absent"
  /\ dst \in TRANSITIONS(state[j]) \ Claimed
  /\ state' = [state EXCEPT ![j] = dst]
  /\ UNCHANGED attempts

LifecycleNext ==
  \E j \in Job : Create(j) \/ SpendAttempt(j) \/ \E dst \in JobState : Move(j, dst)

LifecycleSpec == LifecycleInit /\ [][LifecycleNext]_lifecycleVars
================================================================================
