------------------------------- MODULE JobStates -------------------------------
(***************************************************************************)
(* The job state machine of cad2ml/jobs/states.py: the states of a row of  *)
(* the jobs table and the moves the code allows between them.              *)
(***************************************************************************)

JobState == { "received", "validated", "queued", "parsing", "normalizing",
              "extracting", "validating_outputs", "training", "completed",
              "rejected", "failed_retryable", "failed_terminal", "timed_out",
              "quarantined" }

IN_FLIGHT == { "parsing", "normalizing", "extracting", "validating_outputs",
               "training" }

TERMINAL == { "completed", "rejected", "failed_terminal", "timed_out",
              "quarantined" }

Fail == { "rejected", "failed_retryable", "failed_terminal", "timed_out",
          "quarantined" }

\* A state with no entry of its own here is terminal: nothing may follow it.
TRANSITIONS(s) ==
  CASE s = "received"           -> { "validated", "rejected", "failed_terminal" }
    [] s = "validated"          -> { "queued", "failed_terminal" }
    [] s = "queued"             -> { "parsing", "training", "completed" } \cup Fail
    [] s = "training"           -> { "completed" } \cup Fail
    [] s = "parsing"            -> { "normalizing", "completed" } \cup Fail
    [] s = "normalizing"        -> { "extracting" } \cup Fail
    [] s = "extracting"         -> { "validating_outputs" } \cup Fail
    [] s = "validating_outputs" -> { "completed" } \cup Fail
    [] s = "failed_retryable"   -> { "queued", "failed_terminal" }
    [] OTHER                    -> {}

(* check_transition raises IllegalTransition exactly when this is false.   *)
Legal(src, dst) == dst \in TRANSITIONS(src)
================================================================================
