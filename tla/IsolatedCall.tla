------------------------------ MODULE IsolatedCall ----------------------------
(***************************************************************************)
(* What a caller of run_isolated (cad2ml/parsers/isolation.py) may rely    *)
(* on.  A child works, reports progress and ends with at most one word.    *)
(* The caller hears the progress and gets exactly one answer, never before *)
(* the child is gone, and each kind of answer has its one cause.           *)
(***************************************************************************)
EXTENDS Naturals

VARIABLES
  child,       \* "running", "ended", or "crashed" if it died of itself
  word,        \* its last word: "none", "begun", or a member of Result
  said, heard, \* how many progress messages were sent, and heard by the caller
  late,        \* the deadline has passed
  upset,       \* the caller's own callback has raised
  answer       \* what the caller gets

vars == <<child, word, said, heard, late, upset, answer>>

\* "pipeline_error" stands for a PipelineError of the child with its own code,
\* "callback" for the exception of the callback.  "os_error" is the one answer
\* that the docstring does not promise.
Result == { "ok", "pipeline_error", "exception" }
Answer == { "ok", "pipeline_error", "INTERNAL_ERROR", "CHILD_CRASHED", "TIMEOUT", "callback", "os_error" }

Init ==
  /\ child = "running" /\ word = "none" /\ said = 0 /\ heard = 0
  /\ late = FALSE /\ upset = FALSE /\ answer = "pending"

Report ==
  /\ child = "running" /\ word = "none"
  /\ said' = said + 1
  /\ UNCHANGED <<child, word, heard, late, upset, answer>>

Hear ==
  /\ heard < said /\ answer = "pending" /\ ~upset
  /\ heard' = heard + 1
  /\ UNCHANGED <<child, word, said, late, upset, answer>>

Speak ==
  /\ child = "running"
  /\ \/ word = "none" /\ word' = "begun"
     \/ word = "begun" /\ word' \in Result
  /\ UNCHANGED <<child, said, heard, late, upset, answer>>

End ==
  /\ child = "running"
  /\ child' \in {"ended", "crashed"}
  /\ UNCHANGED <<word, said, heard, late, upset, answer>>

Deadline ==
  /\ answer = "pending" /\ ~late
  /\ late' = TRUE
  /\ UNCHANGED <<child, word, said, heard, upset, answer>>

\* Only a message that was heard can upset the callback.
Upset ==
  /\ answer = "pending" /\ heard > 0 /\ ~upset
  /\ upset' = TRUE
  /\ UNCHANGED <<child, word, said, heard, late, answer>>

\* The child's word is passed on when everything before it has been heard; a
\* crash is that of a child which has not spoken to the end.  Nothing is blamed
\* on the clock, the callback or the pipe that they have not done.
Deserved(a) ==
  \/ a \in {"ok", "pipeline_error"} /\ word = a /\ heard = said /\ ~upset
  \/ a = "INTERNAL_ERROR" /\ word = "exception" /\ heard = said /\ ~upset
  \/ a = "CHILD_CRASHED" /\ child = "crashed" /\ word \in {"none", "begun"} /\ heard = said
  \/ a = "os_error" /\ child = "crashed" /\ word = "begun" /\ heard = said
  \/ a = "TIMEOUT" /\ late
  \/ a = "callback" /\ upset

Return ==
  /\ answer = "pending" /\ child # "running"
  /\ answer' \in { a \in Answer : Deserved(a) }
  /\ UNCHANGED <<child, word, said, heard, late, upset>>

Again ==
  /\ answer # "pending"
  /\ child' = "running" /\ word' = "none" /\ said' = 0 /\ heard' = 0
  /\ late' = FALSE /\ upset' = FALSE /\ answer' = "pending"

Next == Report \/ Hear \/ Speak \/ End \/ Deadline \/ Upset \/ Return \/ Again
Spec == Init /\ [][Next]_vars
================================================================================
