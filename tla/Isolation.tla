-------------------------------- MODULE Isolation ------------------------------
(***************************************************************************)
(* run_isolated (cad2ml/parsers/isolation.py): the parent starts a child   *)
(* process for the geometry kernel and reads progress messages and one     *)
(* result from a pipe until the result, the end of the pipe or a deadline. *)
(* The child may hang, be killed by a signal, or end in any of the ways    *)
(* _child distinguishes.  The deadline may pass at any time.               *)
(* The pipe is first in, first out, so that it holds the messages from     *)
(* heard + 1 to said, then the result.                                     *)
(* An operator named Bug... is a wrong form of the operator after it.      *)
(***************************************************************************)
EXTENDS Naturals

VARIABLES
  task,        \* what the child is to do
  child,       \* see ChildState
  said,        \* the number of progress messages the child has written
  word,        \* the kind of the result it has begun to write
  partial,     \* the result is not written to its end
  writeEnd,    \* the child holds the write end
  late,        \* the deadline has passed
  parent,      \* the parent's next step
  heard,       \* the number of progress messages the parent has read
  got,         \* why the loop ended
  answer       \* what run_isolated returns or raises

childVars == <<task, child, said, word, partial, writeEnd>>
isolationVars == <<childVars, late, parent, heard, got, answer>>

\* The two children of process_source; only the second one reports progress:
\* normalizing, extracting, validating_outputs.
Task == { "parse", "extract" }
StagesOf(t) == IF t = "parse" THEN 0 ELSE 3

ChildState == { "running", "hung", "sending", "closing", "exited", "signalled", "killed" }
Alive == child \in {"running", "hung", "sending", "closing"}

\* The last message of a child: "ok", "pipeline_error" (also for MemoryError),
\* or "exception" for everything else.
Result == { "ok", "pipeline_error", "exception" }

\* run_isolated gives back the payload; raises PipelineError with the child's
\* code or one of its own; or lets an exception through that is none: the one
\* of the callback, or OSError.
Answer == { "ok", "pipeline_error", "INTERNAL_ERROR", "CHILD_CRASHED", "TIMEOUT", "callback", "os_error" }

IsolationTypeOK ==
  /\ task \in Task /\ child \in ChildState
  /\ said \in 0 .. StagesOf(task) /\ heard \in 0 .. said
  /\ word \in Result \cup {"none"}
  /\ partial \in BOOLEAN /\ writeEnd \in BOOLEAN /\ late \in BOOLEAN
  /\ parent \in {"poll", "recv", "progress", "cleanup", "join", "returned"}
  /\ got \in Result \cup {"pending", "eof", "os_error", "timeout", "callback"}
  /\ answer \in Answer \cup {"pending"}

StartedWith(t) ==
  /\ task = t /\ child = "running" /\ said = 0 /\ word = "none"
  /\ partial = FALSE /\ writeEnd = TRUE /\ late = FALSE
  /\ parent = "poll" /\ heard = 0 /\ got = "pending" /\ answer = "pending"
--------------------------------------------------------------------------------
(* The child                                                               *)

Report ==
  /\ child = "running" /\ said < StagesOf(task)
  /\ said' = said + 1
  /\ UNCHANGED <<task, child, word, partial, writeEnd, late, parent, heard, got, answer>>

\* A result may be longer than the pipe's buffer: it is written in pieces.
Send(m) ==
  /\ child = "running"
  /\ word' = m /\ partial' = TRUE /\ child' = "sending"
  /\ UNCHANGED <<task, said, writeEnd, late, parent, heard, got, answer>>

FinishSend ==
  /\ child = "sending"
  /\ partial' = FALSE /\ child' = "closing"
  /\ UNCHANGED <<task, said, word, writeEnd, late, parent, heard, got, answer>>

Close ==
  /\ child = "closing"
  /\ child' = "exited" /\ writeEnd' = FALSE
  /\ UNCHANGED <<task, said, word, partial, late, parent, heard, got, answer>>

\* A native crash, RLIMIT_CPU or the kernel's out-of-memory killer.
Die ==
  /\ Alive
  /\ child' = "signalled" /\ writeEnd' = FALSE
  /\ UNCHANGED <<task, said, word, partial, late, parent, heard, got, answer>>

\* The kernel loops; sending is not its code.
Hang ==
  /\ child = "running"
  /\ child' = "hung"
  /\ UNCHANGED <<task, said, word, partial, writeEnd, late, parent, heard, got, answer>>

--------------------------------------------------------------------------------
(* The parent                                                              *)

Deadline ==
  /\ ~late /\ parent # "returned"
  /\ late' = TRUE
  /\ UNCHANGED <<childVars, parent, heard, got, answer>>

\* The deadline is looked at first: an answer that is there already is too late.
BugTimedOut == late /\ ~writeEnd
TimedOut == late
PollTimeout ==
  /\ parent = "poll" /\ TimedOut
  /\ got' = "timeout" /\ parent' = "cleanup"
  /\ UNCHANGED <<childVars, late, heard, answer>>

InPipe == heard < said \/ word # "none"
PollReady ==
  /\ parent = "poll" /\ ~late
  /\ InPipe \/ ~writeEnd
  /\ parent' = "recv"
  /\ UNCHANGED <<childVars, late, heard, got, answer>>

\* recv returns a whole message, whatever has become of its sender.
ReceiveProgress ==
  /\ parent = "recv" /\ heard < said
  /\ heard' = heard + 1 /\ parent' = "progress"
  /\ UNCHANGED <<childVars, late, got, answer>>

ReceiveResult ==
  /\ parent = "recv" /\ heard = said /\ word # "none" /\ ~partial
  /\ got' = word /\ parent' = "cleanup"
  /\ UNCHANGED <<childVars, late, heard, answer>>

\* The end of the pipe is EOFError.  In the middle of a message it is OSError,
\* which nothing translates, unless it is just between the length of a long
\* message and its text.
EndOf == IF partial THEN {"eof", "os_error"} ELSE {"eof"}
ReceiveEnd ==
  /\ parent = "recv" /\ ~writeEnd /\ heard = said /\ (word = "none" \/ partial)
  /\ got' \in EndOf /\ parent' = "cleanup"
  /\ UNCHANGED <<childVars, late, heard, answer>>

\* on_progress is the worker's progress(), which writes to the database.
CallbackReturns ==
  /\ parent = "progress"
  /\ parent' = "poll"
  /\ UNCHANGED <<childVars, late, heard, got, answer>>

CallbackRaises ==
  /\ parent = "progress"
  /\ got' = "callback" /\ parent' = "cleanup"
  /\ UNCHANGED <<childVars, late, heard, answer>>

\* finally: a child that is still alive is killed, then joined.
BugMustKill == Alive /\ got = "timeout"
MustKill == Alive
Cleanup ==
  /\ parent = "cleanup"
  /\ IF MustKill THEN child' = "killed" /\ writeEnd' = FALSE ELSE UNCHANGED <<child, writeEnd>>
  /\ parent' = "join"
  /\ UNCHANGED <<task, said, word, partial, late, heard, got, answer>>

BugAnswerAsSent(g) == g
AnswerOf(g) ==
  CASE g = "eof"       -> "CHILD_CRASHED"
    [] g = "timeout"   -> "TIMEOUT"
    [] g = "exception" -> "INTERNAL_ERROR"
    [] OTHER           -> g

Join ==
  /\ parent = "join"
  /\ answer' = AnswerOf(got)
  /\ parent' = "returned"
  /\ UNCHANGED <<childVars, late, heard, got>>

Parent == \/ PollTimeout \/ PollReady \/ ReceiveProgress \/ ReceiveResult \/ ReceiveEnd
          \/ CallbackReturns \/ CallbackRaises \/ Cleanup \/ Join
--------------------------------------------------------------------------------
(* What it implements                                                      *)

Call == INSTANCE IsolatedCall WITH
  child   <- IF Alive THEN "running" ELSE IF child = "signalled" THEN "crashed" ELSE "ended",
  word    <- IF partial THEN "begun" ELSE word,
  said    <- said,
  heard   <- heard,
  late    <- late,
  upset   <- got = "callback",
  answer  <- answer

\* The next call, of the same or another child.
Again(t) ==
  /\ parent = "returned"
  /\ task' = t /\ child' = "running" /\ said' = 0 /\ word' = "none"
  /\ partial' = FALSE /\ writeEnd' = TRUE /\ late' = FALSE
  /\ parent' = "poll" /\ heard' = 0 /\ got' = "pending" /\ answer' = "pending"
================================================================================
