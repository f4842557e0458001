-------------------------------- MODULE Admission ------------------------------
(***************************************************************************)
(* How one file is admitted: process_source (cad2ml/pipeline.py) inspects  *)
(* the upload, has one isolated child parse it and another one normalise   *)
(* and extract it, and turns what comes back into the outcome of the       *)
(* sample.  The protocol with the children is that of module Isolation;    *)
(* here the children decide something.  The geometry kernel's findings     *)
(* about the file are attributes of the file; what its repair tools make   *)
(* of a shape may be anything.                                             *)
(* An operator named Bug... is a wrong form of the operator after it.      *)
(***************************************************************************)
EXTENDS Isolation, Integers, SequencesExt

CONSTANTS
  File,          \* the files that may be uploaded, see FileType
  RepairModes    \* the values of RepairConfig.enabled

VARIABLES
  file,          \* the upload
  repairs,       \* RepairConfig.enabled
  pc,            \* where process_source is
  normal,        \* where validate_and_repair is, in the second child
  shape,         \* the diagnosis of the shape it works on
  notes,         \* what it has recorded of its changes
  exact,         \* the changes are within the tolerances
  code,          \* the code of the child's PipelineError
  outcome,       \* the code of the manifest, or "COMPLETED"
  pinned         \* the manifest is stored: resubmissions will get it

normalVars == <<normal, shape, notes, exact>>
outcomeVars == <<outcome, pinned>>
vars == <<isolationVars, file, repairs, pc, normalVars, code, outcomeVars>>

\* The specs of the error codes.
Rejected == { "EMPTY_FILE", "FILE_TOO_LARGE", "UNSUPPORTED_EXTENSION", "NOT_STEP_CONTENT",
              "STEP_PARSE_FAILED", "STEP_NO_SHAPES", "UNSUPPORTED_ASSEMBLY",
              "UNSUPPORTED_TESSELLATED", "MULTI_BODY" }
Quarantined == { "NO_SOLID", "INVALID_GEOMETRY", "REPAIR_DEVIATION_EXCEEDED",
                 "TESSELLATION_FAILED", "CHILD_CRASHED" }
TimedOutCodes == { "PARSER_TIMEOUT", "PROCESSING_TIMEOUT" }
Failed == { "OUTPUT_INVARIANT_VIOLATION", "INTERNAL_ERROR" }
ErrorCode == Rejected \cup Quarantined \cup TimedOutCodes \cup Failed

ENVIRONMENT_SENSITIVE_CODES == { "PARSER_TIMEOUT", "PROCESSING_TIMEOUT", "CHILD_CRASHED" }

\* What diagnose() tells of a shape; volume is its sign.
Diagnosis ==
  { d \in [valid : BOOLEAN, solids : 0 .. 2, closed : BOOLEAN, outward : BOOLEAN, volume : -1 .. 1] :
      /\ d.solids = 0 => d.volume = 0
      /\ d.solids # 1 => ~d.outward }

\* The bytes (none, some, too_many), the name and the first line; what the
\* reader of the kernel finds in it; what diagnose() says of the shape, whether its
\* faces can be sewn to one closed shell, and how far extraction gets with it.
\* expected holds the codes that the author of the file expects.
FileType ==
  [bytes : {"none", "some", "too_many"}, extension : BOOLEAN, magic : BOOLEAN,
   readable : BOOLEAN, roots : BOOLEAN, assembly : BOOLEAN, shapes : BOOLEAN, solids : 0 .. 2,
   faces : BOOLEAN, surfaces : BOOLEAN, sleeps : BOOLEAN,
   auxiliary : BOOLEAN, diagnosis : Diagnosis, closes : BOOLEAN,
   extracts : {"OK", "TESSELLATION_FAILED", "OUTPUT_INVARIANT_VIOLATION"},
   expected : SUBSET (ErrorCode \cup {"COMPLETED"})]

\* One solid in the shape is one solid for diagnose().
ASSUME FileAssumption ==
  /\ File \subseteq FileType
  /\ \A f \in File : f.solids < 2 => f.diagnosis.solids = f.solids
ASSUME RepairModesAssumption == RepairModes \subseteq BOOLEAN

NormalState == { "loaded", "sew", "fix", "reverse", "judge", "accepted", "refused" }

TypeOK ==
  /\ IsolationTypeOK
  /\ file \in File /\ repairs \in RepairModes
  /\ pc \in {"intake", "parsing", "extracting", "done", "raised"}
  /\ normal \in NormalState /\ shape \in Diagnosis /\ exact \in BOOLEAN
  /\ notes \in SUBSET {"auxiliary_ignored", "sewing", "make_solid", "shape_fix", "reversed"}
  /\ code \in ErrorCode \cup {"none"}
  /\ outcome \in ErrorCode \cup {"none", "COMPLETED"} /\ pinned \in BOOLEAN

Init ==
  /\ file \in File /\ repairs \in RepairModes
  /\ pc = "intake" /\ StartedWith("parse")
  /\ normal = "loaded" /\ shape = file.diagnosis /\ notes = {} /\ exact = TRUE
  /\ code = "none" /\ outcome = "none" /\ pinned = FALSE

\* The checks of a function in their order: the first that fails decides.
FirstFailing(checks) ==
  LET i == SelectInSeq(checks, LAMBDA check : check.fails)
  IN IF i = 0 THEN "OK" ELSE checks[i].code
--------------------------------------------------------------------------------
(* The end of process_source                                               *)

Complete ==
  /\ pc' = "done" /\ outcome' = "COMPLETED" /\ pinned' = TRUE

\* _finalize_failure.  No code that gets here is retryable.
Pins(c) == c \notin ENVIRONMENT_SENSITIVE_CODES
Fail(c) ==
  /\ pc' = "done" /\ outcome' = c /\ pinned' = Pins(c)

IntakeCode(f) == FirstFailing(<<
  [fails |-> f.bytes = "none",     code |-> "EMPTY_FILE"],
  [fails |-> f.bytes = "too_many", code |-> "FILE_TOO_LARGE"],
  [fails |-> ~f.extension,         code |-> "UNSUPPORTED_EXTENSION"],
  [fails |-> ~f.magic,             code |-> "NOT_STEP_CONTENT"] >>)

Intake ==
  /\ pc = "intake"
  /\ IF IntakeCode(file) = "OK"
     THEN pc' = "parsing" /\ UNCHANGED outcomeVars
     ELSE Fail(IntakeCode(file))
  /\ UNCHANGED <<isolationVars, file, repairs, normalVars, code>>
--------------------------------------------------------------------------------
(* The first child: parse_step_child                                       *)

Calling == pc \in {"parsing", "extracting"}
Working(t) == Calling /\ task = t /\ child = "running"

\* The child ends with a result of this kind, and with this code if it is one.
Ends(kind, c) ==
  /\ Send(kind) /\ code' = c
  /\ UNCHANGED <<file, repairs, pc, normalVars, outcomeVars>>

BugParseCode(f) == FirstFailing(<<
  [fails |-> ~f.readable,  code |-> "STEP_PARSE_FAILED"],
  [fails |-> ~f.roots,     code |-> "STEP_NO_SHAPES"],
  [fails |-> ~f.shapes,    code |-> "STEP_NO_SHAPES"],
  [fails |-> f.solids > 1, code |-> "MULTI_BODY"],
  [fails |-> f.assembly,   code |-> "UNSUPPORTED_ASSEMBLY"],
  [fails |-> ~f.faces,     code |-> "STEP_NO_SHAPES"],
  [fails |-> ~f.surfaces,  code |-> "UNSUPPORTED_TESSELLATED"] >>)
ParseCode(f) == FirstFailing(<<
  [fails |-> ~f.readable,  code |-> "STEP_PARSE_FAILED"],
  [fails |-> ~f.roots,     code |-> "STEP_NO_SHAPES"],
  [fails |-> f.assembly,   code |-> "UNSUPPORTED_ASSEMBLY"],
  [fails |-> ~f.shapes,    code |-> "STEP_NO_SHAPES"],
  [fails |-> f.solids > 1, code |-> "MULTI_BODY"],
  [fails |-> ~f.faces,     code |-> "STEP_NO_SHAPES"],
  [fails |-> ~f.surfaces,  code |-> "UNSUPPORTED_TESSELLATED"] >>)

Parse ==
  /\ Working("parse") /\ ~file.sleeps
  /\ IF ParseCode(file) = "OK" THEN Ends("ok", "none") ELSE Ends("pipeline_error", ParseCode(file))

\* MemoryError becomes CHILD_CRASHED, any other exception INTERNAL_ERROR.
Mishap ==
  /\ Calling
  /\ \/ Ends("pipeline_error", "CHILD_CRASHED")
     \/ Ends("exception", "none")
--------------------------------------------------------------------------------
(* The second child: validate_and_repair, then extraction                  *)

OrientationOk(d) == d.solids = 1 /\ d.outward /\ d.volume > 0
Sound(d) == d.valid /\ d.solids = 1 /\ d.closed /\ OrientationOk(d)

\* One step of validate_and_repair; it runs after the first progress message.
Normalizing(from) == Working("extract") /\ said = 1 /\ normal = from
Accept == normal' = "accepted" /\ UNCHANGED <<shape, code>>
Goto(to) == normal' = to /\ UNCHANGED <<shape, code>>
\* An exception: the shape is gone.
Refuse(c) == normal' = "refused" /\ shape' = file.diagnosis /\ code' = c
Untouched == UNCHANGED <<isolationVars, file, repairs, pc, outcomeVars>>

\* isolate_single_solid, diagnose, and what to do about it.
Diagnose ==
  /\ Normalizing("loaded")
  /\ notes' = IF file.auxiliary /\ shape.solids = 1 THEN {"auxiliary_ignored"} ELSE {}
  /\ \/ Sound(shape) /\ Accept
     \/ ~Sound(shape) /\ ~repairs /\ Refuse(IF shape.solids = 0 THEN "NO_SOLID" ELSE "INVALID_GEOMETRY")
     \/ ~Sound(shape) /\ repairs /\ Goto(IF shape.solids = 0 THEN "sew" ELSE "fix")
  /\ UNCHANGED exact /\ Untouched

\* A solid is made only of one shell that is closed after sewing.
Sew ==
  /\ Normalizing("sew")
  /\ IF file.closes
     THEN Goto("fix") /\ notes' = notes \cup {"sewing", "make_solid"}
     ELSE Refuse("NO_SOLID") /\ notes' = {}
  /\ UNCHANGED exact /\ Untouched

\* ShapeFix_Shape may do anything.
Fix ==
  /\ Normalizing("fix")
  /\ shape' \in Diagnosis
  /\ notes' = notes \cup {"shape_fix"}
  /\ normal' = IF shape'.solids = 1 /\ ~OrientationOk(shape') /\ shape'.volume < 0
               THEN "reverse" ELSE "judge"
  /\ UNCHANGED <<exact, code>> /\ Untouched

ReverseSolid ==
  /\ Normalizing("reverse")
  /\ \E outward \in BOOLEAN :
       shape' = [shape EXCEPT !.volume = -@, !.outward = outward]
  /\ notes' = notes \cup {"reversed"}
  /\ normal' = "judge"
  /\ UNCHANGED <<exact, code>> /\ Untouched

\* far: a point has moved too far.  grown: the volume has changed too much, if
\* it can be compared.
Compared == file.diagnosis.volume # 0 /\ shape.volume # 0
BugRepairCode(far, grown) == FirstFailing(<<
  [fails |-> ~Sound(shape), code |-> "INVALID_GEOMETRY"],
  [fails |-> far,           code |-> "REPAIR_DEVIATION_EXCEEDED"] >>)
RepairCode(far, grown) == FirstFailing(<<
  [fails |-> ~Sound(shape),             code |-> "INVALID_GEOMETRY"],
  [fails |-> far \/ (Compared /\ grown), code |-> "REPAIR_DEVIATION_EXCEEDED"] >>)

Judge ==
  /\ Normalizing("judge")
  /\ \E far, grown \in BOOLEAN :
       IF RepairCode(far, grown) = "OK"
       THEN Accept /\ exact' = ~(far \/ (Compared /\ grown)) /\ UNCHANGED notes
       ELSE Refuse(RepairCode(far, grown)) /\ exact' = TRUE /\ notes' = {}
  /\ Untouched

\* The second message is sent when the shape is accepted, the third one when
\* the representations are there.
Progress ==
  /\ Working("extract")
  /\ said = 1 => normal = "accepted"
  /\ said = 2 => file.extracts # "TESSELLATION_FAILED"
  /\ Report
  /\ UNCHANGED <<file, repairs, pc, normalVars, code, outcomeVars>>

Extract ==
  /\ Working("extract")
  /\ \/ said = 1 /\ normal = "refused" /\ Ends("pipeline_error", code)
     \/ said = 2 /\ file.extracts = "TESSELLATION_FAILED" /\ Ends("pipeline_error", "TESSELLATION_FAILED")
     \/ said = 3 /\ file.extracts = "OUTPUT_INVARIANT_VIOLATION"
          /\ Ends("pipeline_error", "OUTPUT_INVARIANT_VIOLATION")
     \/ said = 3 /\ file.extracts = "OK" /\ Ends("ok", "none")
--------------------------------------------------------------------------------
(* Between the children                                                    *)

ChildGoesOn ==
  /\ Calling
  /\ FinishSend \/ Close \/ Die \/ Hang
  /\ UNCHANGED <<file, repairs, pc, normalVars, code, outcomeVars>>

ParentGoesOn ==
  /\ Calling
  /\ Parent
  /\ UNCHANGED <<file, repairs, pc, normalVars, code, outcomeVars>>

DeadlinePasses ==
  /\ Calling
  /\ Deadline
  /\ UNCHANGED <<file, repairs, pc, normalVars, code, outcomeVars>>

TimeoutCode == IF task = "parse" THEN "PARSER_TIMEOUT" ELSE "PROCESSING_TIMEOUT"
CodeOf(a) ==
  CASE a = "TIMEOUT"        -> TimeoutCode
    [] a = "pipeline_error" -> code
    [] OTHER                -> a

\* run_isolated has come back.
Parsed ==
  /\ pc = "parsing" /\ answer = "ok"
  /\ pc' = "extracting"
  /\ Again("extract")
  /\ UNCHANGED <<file, repairs, normalVars, code, outcomeVars>>

Extracted ==
  /\ pc = "extracting" /\ answer = "ok"
  /\ Complete
  /\ UNCHANGED <<isolationVars, file, repairs, normalVars, code>>

CallFails ==
  /\ Calling /\ answer \notin {"pending", "ok", "callback", "os_error"}
  /\ Fail(CodeOf(answer))
  /\ UNCHANGED <<isolationVars, file, repairs, normalVars, code>>

CallRaises ==
  /\ Calling /\ answer \in {"callback", "os_error"}
  /\ pc' = "raised"
  /\ UNCHANGED <<isolationVars, file, repairs, normalVars, code, outcomeVars>>

Child == \/ Parse \/ Mishap \/ Diagnose \/ Sew \/ Fix \/ ReverseSolid \/ Judge
         \/ Progress \/ Extract \/ ChildGoesOn
Caller == Intake \/ ParentGoesOn \/ Parsed \/ Extracted \/ CallFails \/ CallRaises

Next == Child \/ Caller \/ DeadlinePasses

Spec == Init /\ [][Next]_vars

\* The worker's thread runs and its clock goes on.  Of a child it is assumed
\* only that it does not stop in the middle of a message.
FairSpec ==
  /\ Spec
  /\ WF_vars(Caller) /\ WF_vars(DeadlinePasses)
  /\ WF_vars(Calling /\ FinishSend /\ ChildGoesOn)
--------------------------------------------------------------------------------
(* Correctness                                                             *)

(* What both callers may rely on: run_isolated answers once, after the     *)
(* child is gone.  It succeeds only with a result that the child wrote to  *)
(* its end, after all of its progress; it blames the clock only when the   *)
(* deadline has passed, and the child only when it died of itself before   *)
(* its last word was complete.  "The parent only receives JSON-serialisable*)
(* results, progress messages, or a structured error" (isolation.py:4-6)   *)
(* is kept but in one case, which IsolatedCall names: the child dies in    *)
(* the middle of its last word, and the caller gets OSError.               *)
ImplementsCall == Call!Spec

(* "A hard timeout" (isolation.py): whatever the children do, the caller   *)
(* comes back.                                                             *)
Returns == <>(pc \in {"done", "raised"})

(* What is stored for a file for good is what its author expects of it     *)
(* (the fixtures of corpus.py and their table), whatever becomes of the    *)
(* children; the host is blamed only in answers that are not stored.  The  *)
(* exception is INTERNAL_ERROR, which a full disk gets as well.            *)
FixturesAreJudged ==
  pc = "done" => IF pinned THEN outcome \in file.expected \cup {"INTERNAL_ERROR"}
                           ELSE outcome \in ENVIRONMENT_SENSITIVE_CODES

(* "Nothing is changed silently ... quarantined instead of forced through" *)
(* (validation.py): what is completed is one closed solid, the very one of *)
(* the file or a recorded repair of it within the tolerances.              *)
NothingFabricated ==
  outcome = "COMPLETED" =>
    /\ Sound(shape) /\ exact
    /\ file.auxiliary /\ file.solids = 1 => "auxiliary_ignored" \in notes
    /\ shape # file.diagnosis => "shape_fix" \in notes /\ repairs
    /\ file.solids = 0 => "make_solid" \in notes

================================================================================
