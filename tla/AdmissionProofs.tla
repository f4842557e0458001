----------------------------- MODULE AdmissionProofs --------------------------
(***************************************************************************)
(* Theorems about Admission, for any set of files and either use of        *)
(* repair.                                                                 *)
(***************************************************************************)
EXTENDS Admission, WellFoundedInduction, TLAPS

--------------------------------------------------------------------------------
(* A list of checks answers "OK" only if none of them fails.               *)
LEMMA MinIsLeast ==
  ASSUME NEW S \in SUBSET Nat, S # {}
  PROVE  Min(S) \in S
<1> DEFINE R == { e \in Nat \X Nat : e[1] < e[2] }
<1>1. IsWellFoundedOn(R, Nat)
  BY NatLessThanWellFounded DEF OpToRel
<1>2. PICK x \in S : \A y \in S : <<y, x>> \notin R
  <2> HIDE DEF R
  <2> QED BY <1>1, WFMin
<1>3. \A m, n \in Nat : <<m, n>> \in R <=> m < n
  OBVIOUS
<1> HIDE DEF R
<1>4. ASSUME NEW y \in S PROVE x <= y
  <2>1. x \in Nat /\ y \in Nat
    OBVIOUS
  <2>2. ~ (y < x)
    BY <1>2, <1>3, <2>1
  <2> QED
    BY <2>1, <2>2
<1> QED
  BY <1>4 DEF Min

LEMMA FirstFails ==
  ASSUME NEW C, "OK" \notin C, NEW checks, Len(checks) \in Nat, \A i \in 1 .. Len(checks) : checks[i].code \in C
  PROVE  /\ FirstFailing(checks) \in C \cup {"OK"}
         /\ FirstFailing(checks) = "OK" => \A i \in 1 .. Len(checks) : ~ checks[i].fails
<1> DEFINE failing == { i \in 1 .. Len(checks) : checks[i].fails }
<1>1. CASE failing = {}
  BY <1>1 DEF FirstFailing, SelectInSeq
<1>2. CASE failing # {}
  <2>1. Min(failing) \in failing
    <3>1. failing \in SUBSET Nat
      OBVIOUS
    <3> HIDE DEF failing
    <3> QED BY <1>2, <3>1, MinIsLeast
  <2>2. FirstFailing(checks) = checks[Min(failing)].code
    <3>1. SelectInSeq(checks, LAMBDA check : check.fails) = Min(failing)
      BY <1>2 DEF SelectInSeq
    <3> QED
      BY <2>1, <3>1 DEF FirstFailing
  <2> HIDE DEF failing
  <2>3. Min(failing) \in 1 .. Len(checks)
    BY <2>1 DEF failing
  <2> QED
    BY <2>2, <2>3
<1> QED
  BY <1>1, <1>2

LEMMA NotOk == "OK" \notin ErrorCode
BY DEF ErrorCode, Rejected, Quarantined, TimedOutCodes, Failed

LEMMA Codes ==
  /\ \A f \in File : IntakeCode(f) \in ErrorCode \cup {"OK"} /\ ParseCode(f) \in ErrorCode \cup {"OK"}
  /\ \A far, grown \in BOOLEAN :
       /\ RepairCode(far, grown) \in ErrorCode \cup {"OK"}
       /\ RepairCode(far, grown) = "OK" => Sound(shape) /\ ~ (far \/ (Compared /\ grown))
<1>1. ASSUME NEW f \in File PROVE IntakeCode(f) \in ErrorCode \cup {"OK"}
  <2> DEFINE checks == <<
        [fails |-> f.bytes = "none",     code |-> "EMPTY_FILE"],
        [fails |-> f.bytes = "too_many", code |-> "FILE_TOO_LARGE"],
        [fails |-> ~f.extension,         code |-> "UNSUPPORTED_EXTENSION"],
        [fails |-> ~f.magic,             code |-> "NOT_STEP_CONTENT"] >>
  <2>1. Len(checks) = 4 /\ Len(checks) \in Nat
    OBVIOUS
  <2>2. /\ checks[1].code \in Rejected /\ checks[2].code \in Rejected
        /\ checks[3].code \in Rejected /\ checks[4].code \in Rejected
    BY DEF Rejected
  <2>3. IntakeCode(f) = FirstFailing(checks)
    BY DEF IntakeCode
  <2> HIDE DEF checks
  <2>4. \A i \in 1 .. Len(checks) : checks[i].code \in ErrorCode
    BY <2>1, <2>2 DEF ErrorCode
  <2>5. FirstFailing(checks) \in ErrorCode \cup {"OK"}
    BY <2>1, <2>4, FirstFails, NotOk
  <2> QED
    BY <2>3, <2>5
<1>2. ASSUME NEW f \in File PROVE ParseCode(f) \in ErrorCode \cup {"OK"}
  <2> DEFINE checks == <<
        [fails |-> ~f.readable,  code |-> "STEP_PARSE_FAILED"],
        [fails |-> ~f.roots,     code |-> "STEP_NO_SHAPES"],
        [fails |-> f.assembly,   code |-> "UNSUPPORTED_ASSEMBLY"],
        [fails |-> ~f.shapes,    code |-> "STEP_NO_SHAPES"],
        [fails |-> f.solids > 1, code |-> "MULTI_BODY"],
        [fails |-> ~f.faces,     code |-> "STEP_NO_SHAPES"],
        [fails |-> ~f.surfaces,  code |-> "UNSUPPORTED_TESSELLATED"] >>
  <2>1. Len(checks) = 7 /\ Len(checks) \in Nat
    OBVIOUS
  <2>2. /\ checks[1].code \in Rejected /\ checks[2].code \in Rejected /\ checks[3].code \in Rejected
        /\ checks[4].code \in Rejected /\ checks[5].code \in Rejected /\ checks[6].code \in Rejected
        /\ checks[7].code \in Rejected
    BY DEF Rejected
  <2>3. ParseCode(f) = FirstFailing(checks)
    BY DEF ParseCode
  <2> HIDE DEF checks
  <2>4. \A i \in 1 .. Len(checks) : checks[i].code \in ErrorCode
    BY <2>1, <2>2 DEF ErrorCode
  <2>5. FirstFailing(checks) \in ErrorCode \cup {"OK"}
    BY <2>1, <2>4, FirstFails, NotOk
  <2> QED
    BY <2>3, <2>5
<1>3. ASSUME NEW far \in BOOLEAN, NEW grown \in BOOLEAN
      PROVE  /\ RepairCode(far, grown) \in ErrorCode \cup {"OK"}
             /\ RepairCode(far, grown) = "OK" => Sound(shape) /\ ~ (far \/ (Compared /\ grown))
  <2> DEFINE checks == << [fails |-> ~Sound(shape),             code |-> "INVALID_GEOMETRY"],
                          [fails |-> far \/ (Compared /\ grown), code |-> "REPAIR_DEVIATION_EXCEEDED"] >>
  <2>1. Len(checks) = 2 /\ \A i \in 1 .. Len(checks) : checks[i].code \in ErrorCode
    BY DEF ErrorCode, Quarantined
  <2>2. /\ FirstFailing(checks) \in ErrorCode \cup {"OK"}
        /\ FirstFailing(checks) = "OK" => \A i \in 1 .. Len(checks) : ~ checks[i].fails
    <3> HIDE DEF checks
    <3> QED BY <2>1, FirstFails, NotOk
  <2>3. RepairCode(far, grown) = FirstFailing(checks)
    BY DEF RepairCode
  <2>4. checks[1].fails = ~Sound(shape) /\ checks[2].fails = (far \/ (Compared /\ grown))
    OBVIOUS
  <2>5. ASSUME FirstFailing(checks) = "OK" PROVE Sound(shape) /\ ~ (far \/ (Compared /\ grown))
    <3>1. ~ checks[1].fails /\ ~ checks[2].fails
      <4> HIDE DEF checks
      <4> QED BY <2>1, <2>2, <2>5
    <3> QED
      BY <3>1, <2>4
  <2> QED
    BY <2>2, <2>3, <2>5
<1> QED
  BY <1>1, <1>2, <1>3
--------------------------------------------------------------------------------
(* The protocol of one call, whatever the child does.                      *)

\* A child that speaks has begun to, and one that has spoken has ended.
ChildInv ==
  /\ child \in {"running", "hung"} => word = "none"
  /\ child = "sending" => word # "none" /\ partial
  /\ child \in {"closing", "exited"} => word # "none" /\ ~partial
  /\ partial => word # "none"
  /\ writeEnd <=> Alive
  /\ child = "killed" => parent \in {"join", "returned"}

\* Why the loop ended is the truth about the pipe and the child.
Ended == parent \in {"cleanup", "join", "returned"}
ParentInv ==
  /\ ~Ended => got = "pending"
  /\ parent \in {"join", "returned"} => ~Alive
  /\ Ended =>
       \/ got \in Result /\ word = got /\ ~partial /\ heard = said
       \/ got = "eof" /\ child = "signalled" /\ (word = "none" \/ partial) /\ heard = said
       \/ got = "os_error" /\ child = "signalled" /\ partial /\ heard = said
       \/ got = "timeout" /\ late
       \/ got = "callback" /\ heard > 0
  /\ parent = "progress" => heard > 0
  /\ answer = IF parent = "returned" THEN AnswerOf(got) ELSE "pending"

IsolationInv == IsolationTypeOK /\ ChildInv /\ ParentInv

ChildMove == Report \/ (\E m \in Result : Send(m)) \/ FinishSend \/ Close \/ Die \/ Hang
NextCall == answer = "ok" /\ \E t \in Task : Again(t)
IsolationNext == ChildMove \/ Parent \/ Deadline \/ NextCall

LEMMA StartInv == ASSUME NEW t \in Task, StartedWith(t) PROVE IsolationInv
<1>1. IsolationTypeOK
  <2>1. StagesOf(task) \in Nat /\ said = 0 /\ heard = 0
    BY DEF StagesOf, StartedWith
  <2>2. said \in 0 .. StagesOf(task) /\ heard \in 0 .. said
    BY <2>1
  <2>3. task \in Task /\ child \in ChildState /\ word \in Result \cup {"none"}
    BY DEF StartedWith, ChildState
  <2>4. partial \in BOOLEAN /\ writeEnd \in BOOLEAN /\ late \in BOOLEAN
    BY DEF StartedWith
  <2> QED
    BY <2>2, <2>3, <2>4 DEF StartedWith, IsolationTypeOK
<1>2. ChildInv /\ ParentInv
  BY DEF StartedWith, ChildInv, ParentInv, Alive, Ended
<1> QED
  BY <1>1, <1>2 DEF IsolationInv

LEMMA AgainInv == ASSUME NEW t \in Task, Again(t) PROVE IsolationInv'
<1>1. IsolationTypeOK'
  <2>1. StagesOf(task') \in Nat /\ said' = 0 /\ heard' = 0
    BY DEF StagesOf, Again
  <2>2. said' \in 0 .. StagesOf(task') /\ heard' \in 0 .. said'
    BY <2>1
  <2>3. task' \in Task /\ child' \in ChildState /\ word' \in Result \cup {"none"}
    BY DEF Again, ChildState
  <2>4. partial' \in BOOLEAN /\ writeEnd' \in BOOLEAN /\ late' \in BOOLEAN
    BY DEF Again
  <2> QED
    BY <2>2, <2>3, <2>4 DEF Again, IsolationTypeOK
<1>2. ChildInv' /\ ParentInv'
  BY DEF Again, ChildInv, ParentInv, Alive, Ended
<1> QED
  BY <1>1, <1>2 DEF IsolationInv

LEMMA ChildMoveInv == IsolationInv /\ ChildMove => IsolationInv'
<1> SUFFICES ASSUME IsolationInv, ChildMove PROVE IsolationInv'
  OBVIOUS
<1> USE DEF IsolationInv, IsolationTypeOK, ChildInv, ParentInv, ChildState, Alive, Ended
<1>1. CASE Report
  <2>1. StagesOf(task) \in Nat /\ StagesOf(task)' = StagesOf(task)
    BY <1>1 DEF StagesOf, Report
  <2>2. said' = said + 1 /\ said + 1 \in 0 .. StagesOf(task) /\ heard \in 0 .. said + 1
    BY <1>1, <2>1 DEF Report
  <2>3. IsolationTypeOK'
    BY <1>1, <2>1, <2>2 DEF Report
  <2>4. ChildInv' /\ ParentInv'
    BY <1>1 DEF Report, Result
  <2> QED
    BY <2>3, <2>4
<1>2. CASE \E m \in Result : Send(m)
  BY <1>2 DEF Send, Result
<1>3. CASE FinishSend
  BY <1>3 DEF FinishSend
<1>4. CASE Close
  BY <1>4 DEF Close
<1>5. CASE Die
  BY <1>5 DEF Die
<1>6. CASE Hang
  BY <1>6 DEF Hang
<1> QED
  BY <1>1, <1>2, <1>3, <1>4, <1>5, <1>6 DEF ChildMove

LEMMA ParentStepInv == IsolationInv /\ Parent => IsolationInv'
<1> SUFFICES ASSUME IsolationInv, Parent PROVE IsolationInv'
  OBVIOUS
<1> USE DEF IsolationInv, IsolationTypeOK, ChildInv, ParentInv, ChildState, Alive, Ended, Result, childVars
<1>1. CASE PollTimeout
  BY <1>1 DEF PollTimeout, TimedOut
<1>2. CASE PollReady
  BY <1>2 DEF PollReady
<1>3. CASE ReceiveProgress
  <2>1. StagesOf(task) \in Nat
    BY DEF StagesOf
  <2> QED
    BY <1>3, <2>1 DEF ReceiveProgress
<1>4. CASE ReceiveResult
  BY <1>4 DEF ReceiveResult
<1>5. CASE ReceiveEnd
  BY <1>5 DEF ReceiveEnd, EndOf
<1>6. CASE CallbackReturns \/ CallbackRaises
  BY <1>6 DEF CallbackReturns, CallbackRaises
<1>7. CASE Cleanup
  BY <1>7 DEF Cleanup, MustKill
<1>8. CASE Join
  BY <1>8 DEF Join, AnswerOf, Answer
<1> QED
  BY <1>1, <1>2, <1>3, <1>4, <1>5, <1>6, <1>7, <1>8 DEF Parent

LEMMA IsolationNextInv == IsolationInv /\ [IsolationNext]_isolationVars => IsolationInv'
<1> SUFFICES ASSUME IsolationInv, [IsolationNext]_isolationVars PROVE IsolationInv'
  OBVIOUS
<1>1. CASE Deadline
  BY <1>1 DEF Deadline, IsolationInv, IsolationTypeOK, ChildInv, ParentInv, Alive, Ended, childVars
<1>2. CASE NextCall
  BY <1>2, AgainInv DEF NextCall
<1>3. CASE UNCHANGED isolationVars
  BY <1>3 DEF isolationVars, IsolationInv, IsolationTypeOK, ChildInv, ParentInv, Alive, Ended, childVars
<1> QED
  BY <1>1, <1>2, <1>3, ChildMoveInv, ParentStepInv DEF IsolationNext

LEMMA ChildMoveImplements == IsolationInv /\ ChildMove => [Call!Next]_(Call!vars)
<1> SUFFICES ASSUME IsolationInv, ChildMove PROVE [Call!Next]_(Call!vars)
  OBVIOUS
<1> USE DEF IsolationInv, IsolationTypeOK, ChildInv, ChildState, Alive, Result
<1>1. CASE Report
  <2>1. said \in Nat /\ heard \in Nat
    BY DEF StagesOf
  <2> QED
    BY <1>1, <2>1 DEF Report, Call!Next, Call!Report
<1>2. CASE \E m \in Result : Send(m)
  BY <1>2 DEF Send, Call!Next, Call!Speak
<1>3. CASE FinishSend
  BY <1>3 DEF FinishSend, Call!Next, Call!Speak, Call!Result
<1>4. CASE Close
  BY <1>4 DEF Close, Call!Next, Call!End
<1>5. CASE Die
  BY <1>5 DEF Die, Call!Next, Call!End
<1>6. CASE Hang
  BY <1>6 DEF Hang, Call!vars
<1> QED
  BY <1>1, <1>2, <1>3, <1>4, <1>5, <1>6 DEF ChildMove

LEMMA ParentImplements == IsolationInv /\ Parent => [Call!Next]_(Call!vars)
<1> SUFFICES ASSUME IsolationInv, Parent PROVE [Call!Next]_(Call!vars)
  OBVIOUS
<1>1. CASE PollTimeout \/ PollReady \/ ReceiveResult \/ ReceiveEnd \/ CallbackReturns
  <2>1. got = "pending" \/ parent = "progress"
    BY <1>1 DEF PollTimeout, PollReady, ReceiveResult, ReceiveEnd, CallbackReturns, IsolationInv, ParentInv, Ended
  <2>2. got # "callback" /\ got' # "callback"
    BY <1>1, <2>1 DEF PollTimeout, PollReady, ReceiveResult, ReceiveEnd, EndOf, CallbackReturns, Result,
       IsolationInv, IsolationTypeOK, ParentInv, Ended
  <2> QED
    BY <1>1, <2>2 DEF PollTimeout, PollReady, ReceiveResult, ReceiveEnd, CallbackReturns, childVars, Alive, Call!vars
<1>2. CASE ReceiveProgress
  <2>1. said \in Nat /\ heard \in Nat /\ answer = "pending" /\ got = "pending"
    BY <1>2 DEF ReceiveProgress, IsolationInv, IsolationTypeOK, StagesOf, ParentInv, Ended
  <2> QED
    BY <1>2, <2>1 DEF ReceiveProgress, childVars, Alive, Call!Next, Call!Hear
<1>3. CASE Cleanup
  <2>1. CASE Alive
    BY <1>3, <2>1 DEF Cleanup, MustKill, Alive, Call!Next, Call!End
  <2>2. CASE ~Alive
    BY <1>3, <2>2 DEF Cleanup, MustKill, Alive, Call!vars
  <2> QED
    BY <2>1, <2>2
<1>4. CASE Join
  <2>1. /\ ~Alive /\ answer = "pending" /\ answer' = AnswerOf(got) /\ parent = "join"
        /\ UNCHANGED <<childVars, heard, late, got>>
    BY <1>4 DEF Join, IsolationInv, ParentInv
  <2>2. \/ got \in Result /\ word = got /\ ~partial /\ heard = said
        \/ got = "eof" /\ child = "signalled" /\ (word = "none" \/ partial) /\ heard = said
        \/ got = "os_error" /\ child = "signalled" /\ partial /\ heard = said
        \/ got = "timeout" /\ late
        \/ got = "callback"
    BY <2>1 DEF IsolationInv, ParentInv, Ended
  <2>3. answer' \in Call!Answer /\ Call!Deserved(answer')
    BY <2>1, <2>2 DEF AnswerOf, Result, Alive, Call!Answer, Call!Deserved
  <2> QED
    BY <2>1, <2>3 DEF childVars, Alive, Call!Next, Call!Return
<1>5. CASE CallbackRaises
  <2>1. answer = "pending" /\ heard > 0 /\ got = "pending"
    BY <1>5 DEF CallbackRaises, IsolationInv, ParentInv, Ended
  <2> QED
    BY <1>5, <2>1 DEF CallbackRaises, childVars, Alive, Call!Next, Call!Upset
<1> QED
  BY <1>1, <1>2, <1>3, <1>4, <1>5 DEF Parent

LEMMA IsolationImplements == IsolationInv /\ [IsolationNext]_isolationVars => [Call!Next]_(Call!vars)
<1> SUFFICES ASSUME IsolationInv, [IsolationNext]_isolationVars PROVE [Call!Next]_(Call!vars)
  OBVIOUS
<1>1. CASE Deadline
  <2>1. answer = "pending"
    BY <1>1 DEF Deadline, IsolationInv, ParentInv
  <2> QED
    BY <1>1, <2>1 DEF Deadline, childVars, Alive, Call!Next, Call!Deadline
<1>2. CASE NextCall
  BY <1>2 DEF NextCall, Again, Alive, Call!Next, Call!Again
<1>3. CASE UNCHANGED isolationVars
  BY <1>3 DEF isolationVars, childVars, Alive, Call!vars
<1> QED
  BY <1>1, <1>2, <1>3, ChildMoveImplements, ParentImplements DEF IsolationNext
--------------------------------------------------------------------------------
(* Both calls of process_source follow the protocol.                       *)
LEMMA FollowsProtocol == [Next]_vars => [IsolationNext]_isolationVars
<1> SUFFICES ASSUME [Next]_vars PROVE [IsolationNext]_isolationVars
  OBVIOUS
<1>1. CASE UNCHANGED vars
  BY <1>1 DEF vars
<1>2. CASE Parse \/ Mishap \/ Extract
  <2>1. PICK kind \in Result : Send(kind)
    BY <1>2 DEF Parse, Mishap, Extract, Ends, Result
  <2> QED
    BY <2>1 DEF IsolationNext, ChildMove
<1>3. CASE Diagnose \/ Sew \/ Fix \/ ReverseSolid \/ Judge
  BY <1>3 DEF Diagnose, Sew, Fix, ReverseSolid, Judge, Untouched
<1>4. CASE Progress \/ ChildGoesOn
  BY <1>4 DEF Progress, ChildGoesOn, IsolationNext, ChildMove
<1>5. CASE ParentGoesOn \/ DeadlinePasses
  BY <1>5 DEF ParentGoesOn, DeadlinePasses, IsolationNext
<1>6. CASE Parsed
  BY <1>6 DEF Parsed, IsolationNext, NextCall, Task
<1>7. CASE Intake \/ Extracted \/ CallFails \/ CallRaises
  BY <1>7 DEF Intake, Extracted, CallFails, CallRaises
<1> QED
  BY <1>1, <1>2, <1>3, <1>4, <1>5, <1>6, <1>7 DEF Next, Child, Caller

(* What a step leaves alone: only the steps of validate_and_repair touch   *)
(* the shape, and only when the second child works.                        *)
NormalStep == Diagnose \/ Sew \/ Fix \/ ReverseSolid \/ Judge

LEMMA FileStays == [Next]_vars => UNCHANGED <<file, repairs>> /\ (NormalStep \/ UNCHANGED normalVars)
BY DEF vars, Next, Child, Caller, NormalStep, Parse, Mishap, Extract, Ends, Diagnose, Sew, Fix, ReverseSolid, Judge,
   Untouched, Progress, ChildGoesOn, ParentGoesOn, DeadlinePasses, Parsed, Intake, Extracted, CallFails, CallRaises

AdmissionTypeOK ==
  /\ file \in File /\ repairs \in RepairModes
  /\ pc \in {"intake", "parsing", "extracting", "done", "raised"}
  /\ normal \in NormalState /\ shape \in Diagnosis /\ exact \in BOOLEAN
  /\ notes \in SUBSET {"auxiliary_ignored", "sewing", "make_solid", "shape_fix", "reversed"}
  /\ code \in ErrorCode \cup {"none"}
  /\ outcome \in ErrorCode \cup {"none", "COMPLETED"} /\ pinned \in BOOLEAN

\* What has been done to the shape so far, and what has been recorded of it.
AuxiliaryNoted == file.auxiliary /\ file.solids = 1 => "auxiliary_ignored" \in notes
SolidNoted == file.solids = 0 => "make_solid" \in notes
FixNoted == shape # file.diagnosis => "shape_fix" \in notes /\ repairs
RepairInv ==
  /\ normal = "loaded" => shape = file.diagnosis /\ exact
  /\ normal \in {"sew", "fix"} => repairs /\ exact /\ shape = file.diagnosis
  /\ normal = "reverse" => shape.solids = 1
  /\ normal \in {"reverse", "judge"} => repairs /\ exact /\ "shape_fix" \in notes
  /\ normal \in {"sew", "fix", "reverse", "judge", "accepted"} => AuxiliaryNoted
  /\ normal \in {"fix", "reverse", "judge", "accepted"} => SolidNoted
  /\ normal = "accepted" => Sound(shape) /\ exact /\ FixNoted

\* Extraction gets past its first message with an accepted shape only.
StageInv ==
  /\ pc \in {"intake", "parsing"} => task = "parse"
  /\ pc = "extracting" => task = "extract"
  /\ task = "extract" /\ said > 1 => normal = "accepted"
  /\ task = "extract" /\ word = "ok" => said = 3
  /\ outcome = "COMPLETED" => pc = "done" /\ normal = "accepted"

Inv == IsolationInv /\ AdmissionTypeOK /\ RepairInv /\ StageInv

LEMMA FileFacts ==
  ASSUME NEW f \in File
  PROVE  /\ f.diagnosis \in Diagnosis /\ f.solids \in 0 .. 2
         /\ f.solids = 0 => f.diagnosis.solids = 0
         /\ f.solids = 1 => f.diagnosis.solids = 1
<1>1. f \in FileType
  BY FileAssumption
<1>2. f.diagnosis \in Diagnosis /\ f.solids \in 0 .. 2
  BY <1>1 DEF FileType
<1> QED
  BY <1>2, FileAssumption

LEMMA InitInv == Init => Inv
<1> SUFFICES ASSUME Init PROVE Inv
  OBVIOUS
<1>1. IsolationInv
  BY StartInv DEF Init, Task
<1>2. AdmissionTypeOK
  BY FileFacts DEF Init, AdmissionTypeOK, NormalState
<1>3. RepairInv
  BY DEF Init, RepairInv
<1>4. StageInv
  BY DEF Init, StageInv, StartedWith
<1> QED
  BY <1>1, <1>2, <1>3, <1>4 DEF Inv

LEMMA NormalStepTypes ==
  ASSUME Inv, NormalStep
  PROVE  /\ normal' \in NormalState /\ shape' \in Diagnosis /\ exact' \in BOOLEAN
         /\ notes' \in SUBSET {"auxiliary_ignored", "sewing", "make_solid", "shape_fix", "reversed"}
         /\ code' \in ErrorCode \cup {"none"}
<1>1. AdmissionTypeOK /\ file.diagnosis \in Diagnosis
  BY FileFacts DEF Inv, AdmissionTypeOK
<1>2. "NO_SOLID" \in ErrorCode /\ "INVALID_GEOMETRY" \in ErrorCode
  BY DEF ErrorCode, Quarantined
<1>3. CASE Diagnose
  BY <1>1, <1>2, <1>3 DEF Diagnose, Accept, Goto, Refuse, AdmissionTypeOK, NormalState
<1>4. CASE Sew
  BY <1>1, <1>2, <1>4 DEF Sew, Goto, Refuse, AdmissionTypeOK, NormalState
<1>5. CASE Fix
  BY <1>1, <1>5 DEF Fix, AdmissionTypeOK, NormalState
<1>6. CASE ReverseSolid
  <2>1. PICK outward \in BOOLEAN : shape' = [shape EXCEPT !.volume = -@, !.outward = outward]
    BY <1>6 DEF ReverseSolid
  <2>2. shape.solids = 1
    BY <1>6 DEF ReverseSolid, Normalizing, Inv, RepairInv
  <2>3. shape' \in Diagnosis
    <3>1. shape \in [valid : BOOLEAN, solids : 0 .. 2, closed : BOOLEAN, outward : BOOLEAN, volume : -1 .. 1]
      BY <1>1 DEF AdmissionTypeOK, Diagnosis
    <3>2. -shape.volume \in -1 .. 1
      BY <3>1
    <3>3. shape' \in [valid : BOOLEAN, solids : 0 .. 2, closed : BOOLEAN, outward : BOOLEAN, volume : -1 .. 1]
      BY <2>1, <3>1, <3>2
    <3>4. shape'.solids = 1
      BY <2>1, <2>2, <3>1
    <3> QED
      BY <3>3, <3>4 DEF Diagnosis
  <2> QED
    BY <1>1, <1>6, <2>3 DEF ReverseSolid, AdmissionTypeOK, NormalState
<1>7. CASE Judge
  <2>1. PICK far \in BOOLEAN, grown \in BOOLEAN :
          IF RepairCode(far, grown) = "OK"
          THEN Accept /\ exact' = ~(far \/ (Compared /\ grown)) /\ UNCHANGED notes
          ELSE Refuse(RepairCode(far, grown)) /\ exact' = TRUE /\ notes' = {}
    BY <1>7 DEF Judge
  <2>2. CASE RepairCode(far, grown) = "OK"
    BY <1>1, <2>1, <2>2 DEF Accept, AdmissionTypeOK, NormalState
  <2>3. CASE RepairCode(far, grown) # "OK"
    <3>1. RepairCode(far, grown) \in ErrorCode
      BY <2>3, Codes
    <3> QED
      BY <1>1, <2>1, <2>3, <3>1 DEF Refuse, AdmissionTypeOK, NormalState
  <2> QED
    BY <2>2, <2>3
<1> QED
  BY <1>3, <1>4, <1>5, <1>6, <1>7 DEF NormalStep

LEMMA NormalStepRepairInv ==
  ASSUME Inv, NormalStep, UNCHANGED <<file, repairs>>
  PROVE  RepairInv'
<1>1. AdmissionTypeOK /\ RepairInv /\ repairs \in BOOLEAN
  BY RepairModesAssumption DEF Inv, AdmissionTypeOK
<1>2. /\ file.diagnosis \in Diagnosis /\ file.solids \in 0 .. 2
      /\ file.solids = 0 => file.diagnosis.solids = 0
      /\ file.solids = 1 => file.diagnosis.solids = 1
  BY <1>1, FileFacts DEF AdmissionTypeOK
<1> USE DEF RepairInv, AuxiliaryNoted, SolidNoted, FixNoted
<1>3. CASE Diagnose
  BY <1>1, <1>2, <1>3 DEF Diagnose, Normalizing, Accept, Goto, Refuse, Sound
<1>4. CASE Sew
  BY <1>1, <1>2, <1>4 DEF Sew, Normalizing, Goto, Refuse
<1>5. CASE Fix
  BY <1>1, <1>2, <1>5 DEF Fix, Normalizing
<1>6. CASE ReverseSolid
  BY <1>1, <1>2, <1>6 DEF ReverseSolid, Normalizing
<1>7. CASE Judge
  <2>1. PICK far \in BOOLEAN, grown \in BOOLEAN :
          IF RepairCode(far, grown) = "OK"
          THEN Accept /\ exact' = ~(far \/ (Compared /\ grown)) /\ UNCHANGED notes
          ELSE Refuse(RepairCode(far, grown)) /\ exact' = TRUE /\ notes' = {}
    BY <1>7 DEF Judge
  <2>2. CASE RepairCode(far, grown) = "OK"
    <3>1. Sound(shape) /\ ~(far \/ (Compared /\ grown))
      BY <2>2, Codes
    <3>2. exact' = TRUE
      BY <2>1, <2>2, <3>1
    <3>3. normal' = "accepted" /\ UNCHANGED <<shape, notes>>
      BY <2>1, <2>2 DEF Accept
    <3>4. Sound(shape)' = Sound(shape)
      BY <3>3 DEF Sound, OrientationOk
    <3> QED
      BY <1>1, <1>2, <1>7, <3>1, <3>2, <3>3, <3>4 DEF Judge, Normalizing
  <2>3. CASE RepairCode(far, grown) # "OK"
    BY <2>1, <2>3 DEF Refuse
  <2> QED
    BY <2>2, <2>3
<1> QED
  BY <1>3, <1>4, <1>5, <1>6, <1>7 DEF NormalStep
LEMMA CallCode ==
  ASSUME Inv, CallFails
  PROVE  CodeOf(answer) \in ErrorCode \cup {"none"}
<1>1. answer \in Answer /\ answer \notin {"ok", "callback", "os_error"}
  BY DEF CallFails, Inv, IsolationInv, IsolationTypeOK
<1> QED
  BY <1>1 DEF Inv, CodeOf, TimeoutCode, Answer, AdmissionTypeOK, ErrorCode, Quarantined, TimedOutCodes, Failed

LEMMA AdmissionTypes == Inv /\ [Next]_vars => AdmissionTypeOK'
<1> SUFFICES ASSUME Inv, [Next]_vars PROVE AdmissionTypeOK'
  OBVIOUS
<1>1. AdmissionTypeOK /\ UNCHANGED <<file, repairs>>
  BY FileStays DEF Inv
<1>2. CASE NormalStep
  <2>1. UNCHANGED <<pc, outcomeVars>>
    BY <1>2 DEF NormalStep, Diagnose, Sew, Fix, ReverseSolid, Judge, Untouched
  <2> QED
    BY <1>1, <1>2, <2>1, NormalStepTypes DEF AdmissionTypeOK, outcomeVars
<1>3. CASE UNCHANGED normalVars
  <2>1. ASSUME UNCHANGED <<pc, code, outcomeVars>> PROVE AdmissionTypeOK'
    BY <1>1, <1>3, <2>1 DEF AdmissionTypeOK, normalVars, outcomeVars
  <2>2. ASSUME UNCHANGED <<pc, outcomeVars>>, code' \in ErrorCode \cup {"none"} PROVE AdmissionTypeOK'
    BY <1>1, <1>3, <2>2 DEF AdmissionTypeOK, normalVars, outcomeVars
  <2>3. ASSUME NEW c \in ErrorCode \cup {"none"}, Fail(c), UNCHANGED code PROVE AdmissionTypeOK'
    BY <1>1, <1>3, <2>3 DEF AdmissionTypeOK, normalVars, outcomeVars, Fail, Pins
  <2>4. CASE UNCHANGED vars
    BY <2>1, <2>4 DEF vars
  <2>5. CASE NormalStep
    BY <1>2, <2>5
  <2>6. CASE Parse \/ Mishap \/ Extract
    <3>1. ParseCode(file) \in ErrorCode \cup {"OK"}
      BY <1>1, Codes DEF AdmissionTypeOK
    <3>2. {"CHILD_CRASHED", "TESSELLATION_FAILED", "OUTPUT_INVARIANT_VIOLATION"} \subseteq ErrorCode
      BY DEF ErrorCode, Quarantined, Failed
    <3>3. code' \in ErrorCode \cup {"none"} /\ UNCHANGED <<pc, outcomeVars>>
      BY <1>1, <2>6, <3>1, <3>2 DEF Parse, Mishap, Extract, Ends, AdmissionTypeOK
    <3> QED
      BY <2>2, <3>3
  <2>7. CASE Progress \/ ChildGoesOn \/ ParentGoesOn \/ DeadlinePasses
    BY <2>1, <2>7 DEF Progress, ChildGoesOn, ParentGoesOn, DeadlinePasses
  <2>8. CASE Intake
    <3>1. IntakeCode(file) \in ErrorCode \cup {"OK"}
      BY <1>1, Codes DEF AdmissionTypeOK
    <3>2. CASE IntakeCode(file) = "OK"
      BY <1>1, <1>3, <2>8, <3>2 DEF Intake, AdmissionTypeOK, normalVars, outcomeVars
    <3>3. CASE IntakeCode(file) # "OK"
      BY <2>3, <2>8, <3>1, <3>3 DEF Intake
    <3> QED
      BY <3>2, <3>3
  <2>9. CASE Parsed \/ Extracted \/ CallRaises
    BY <1>1, <1>3, <2>9 DEF Parsed, Extracted, CallRaises, Complete, AdmissionTypeOK, normalVars, outcomeVars
  <2>10. CASE CallFails
    BY <2>3, <2>10, CallCode DEF CallFails
  <2> QED
    BY <2>4, <2>5, <2>6, <2>7, <2>8, <2>9, <2>10 DEF Next, Child, Caller, NormalStep
<1> QED
  BY <1>2, <1>3, FileStays

LEMMA RepairInvStays == Inv /\ [Next]_vars => RepairInv'
<1> SUFFICES ASSUME Inv, [Next]_vars PROVE RepairInv'
  OBVIOUS
<1>1. UNCHANGED <<file, repairs>> /\ (NormalStep \/ UNCHANGED normalVars)
  BY FileStays
<1>2. CASE UNCHANGED normalVars
  BY <1>1, <1>2 DEF Inv, RepairInv, AuxiliaryNoted, SolidNoted, FixNoted, Sound, OrientationOk, normalVars
<1> QED
  BY <1>1, <1>2, NormalStepRepairInv

LEMMA StageInvStays == Inv /\ [Next]_vars => StageInv'
<1> SUFFICES ASSUME Inv, [Next]_vars PROVE StageInv'
  OBVIOUS
<1>1. StageInv /\ ChildInv /\ said \in Nat
  BY DEF Inv, IsolationInv, IsolationTypeOK, StagesOf
<1>2. "COMPLETED" \notin ErrorCode \cup {"none"}
  BY DEF ErrorCode, Rejected, Quarantined, TimedOutCodes, Failed
<1>3. ASSUME UNCHANGED <<task, said, word, pc, normal, outcome>> PROVE StageInv'
  BY <1>1, <1>3 DEF StageInv
<1>4. CASE UNCHANGED vars
  BY <1>3, <1>4 DEF vars, isolationVars, childVars, normalVars, outcomeVars
<1>5. CASE Intake
  <2>1. UNCHANGED <<task, said, word, normal>> /\ pc = "intake" /\ outcome # "COMPLETED"
    BY <1>1, <1>5 DEF Intake, isolationVars, childVars, normalVars, StageInv
  <2>2. IntakeCode(file) \in ErrorCode \cup {"OK"}
    BY Codes DEF Inv, AdmissionTypeOK
  <2>3. (pc' = "parsing" /\ outcome' = outcome) \/ (pc' = "done" /\ outcome' # "COMPLETED")
    BY <1>2, <1>5, <2>2 DEF Intake, Fail, outcomeVars
  <2> QED
    BY <1>1, <2>1, <2>3 DEF StageInv
<1>6. CASE NormalStep
  <2>1. /\ UNCHANGED <<task, said, word, pc, outcome>> /\ said = 1 /\ outcome # "COMPLETED"
    BY <1>1, <1>6 DEF NormalStep, Diagnose, Sew, Fix, ReverseSolid, Judge, Untouched, Normalizing, Working,
       Calling, isolationVars, childVars, outcomeVars, StageInv
  <2> QED
    BY <1>1, <2>1 DEF StageInv
<1>7. CASE Parse \/ Mishap \/ Extract
  <2>1. UNCHANGED <<task, said, pc, normal, outcome>>
    BY <1>7 DEF Parse, Mishap, Extract, Ends, Send, normalVars, outcomeVars
  <2>2. task = "extract" /\ word' = "ok" => said = 3
    BY <1>7 DEF Parse, Mishap, Extract, Ends, Send, Working
  <2> QED
    BY <1>1, <2>1, <2>2 DEF StageInv
<1>8. CASE Progress
  <2>1. /\ UNCHANGED <<task, word, pc, normal, outcome>> /\ said' = said + 1
        /\ word = "none" /\ (said = 1 => normal = "accepted")
    BY <1>1, <1>8 DEF Progress, Report, normalVars, outcomeVars, ChildInv, Working
  <2> QED
    BY <1>1, <2>1 DEF StageInv
<1>9. CASE ChildGoesOn
  BY <1>3, <1>9 DEF ChildGoesOn, FinishSend, Close, Die, Hang, normalVars, outcomeVars
<1>10. CASE ParentGoesOn
  BY <1>3, <1>10 DEF ParentGoesOn, Parent, PollTimeout, PollReady, ReceiveProgress, ReceiveResult, ReceiveEnd,
     CallbackReturns, CallbackRaises, Cleanup, Join, childVars, normalVars, outcomeVars
<1>11. CASE DeadlinePasses
  BY <1>3, <1>11 DEF DeadlinePasses, Deadline, childVars, normalVars, outcomeVars
<1>12. CASE Parsed
  BY <1>1, <1>12 DEF Parsed, Again, normalVars, outcomeVars, StageInv
<1>13. CASE Extracted
  <2>1. word = "ok"
    BY <1>13 DEF Extracted, Inv, IsolationInv, IsolationTypeOK, ParentInv, Ended, AnswerOf, Result
  <2>2. task = "extract" /\ normal = "accepted"
    BY <1>1, <1>13, <2>1 DEF Extracted, StageInv
  <2> QED
    BY <1>1, <1>13, <2>2 DEF Extracted, Complete, isolationVars, childVars, normalVars, StageInv
<1>14. CASE CallFails
  <2>1. pc' = "done" /\ outcome' # "COMPLETED" /\ UNCHANGED <<task, said, word, normal>>
    BY <1>2, <1>14, CallCode DEF CallFails, Fail, isolationVars, childVars, normalVars
  <2> QED
    BY <1>1, <2>1 DEF StageInv
<1>15. CASE CallRaises
  BY <1>1, <1>15 DEF CallRaises, Calling, isolationVars, childVars, normalVars, outcomeVars, StageInv
<1> QED
  BY <1>4, <1>5, <1>6, <1>7, <1>8, <1>9, <1>10, <1>11, <1>12, <1>13, <1>14, <1>15
  DEF Next, Child, Caller, NormalStep

LEMMA AlwaysInv == Spec => []Inv
<1>1. Inv /\ [Next]_vars => Inv'
  BY FollowsProtocol, IsolationNextInv, AdmissionTypes, RepairInvStays, StageInvStays DEF Inv
<1> QED
  BY <1>1, InitInv, PTL DEF Spec

--------------------------------------------------------------------------------
(* The variables of process_source, its children and their pipe keep their *)
(* types, for any set of files.                                            *)
THEOREM TypeCorrect == Spec => []TypeOK
<1>1. Inv => TypeOK
  BY DEF Inv, IsolationInv, AdmissionTypeOK, TypeOK
<1> QED
  BY <1>1, AlwaysInv, PTL

(* Both calls of run_isolated (isolation.py) implement IsolatedCall: one   *)
(* answer, after the child is gone, and with the one cause that this kind  *)
(* of answer may have.                                                     *)
THEOREM CallImplemented == Spec => ImplementsCall
<1>1. Init => Call!Init
  BY DEF Init, StartedWith, Alive, Call!Init
<1>2. Inv /\ [Next]_vars => [Call!Next]_(Call!vars)
  BY FollowsProtocol, IsolationImplements DEF Inv
<1> QED
  BY <1>1, <1>2, AlwaysInv, PTL DEF Spec, ImplementsCall, Call!Spec

(* A completed sample holds the solid of the file itself or a recorded     *)
(* repair of it that is sound and within the tolerances (validation.py),   *)
(* for any file and whatever the kernel's repair tools make of it.         *)
THEOREM NoneFabricated == Spec => []NothingFabricated
<1>1. Inv => NothingFabricated
  BY DEF Inv, StageInv, RepairInv, AuxiliaryNoted, SolidNoted, FixNoted, NothingFabricated
<1> QED
  BY <1>1, AlwaysInv, PTL
--------------------------------------------------------------------------------
(* What a file gets is in the file, whatever becomes of the children.      *)

\* The codes that a file may have to be refused with, with or without repair.
Refusals(f) ==
  IF Sound(f.diagnosis) THEN {}
  ELSE (IF f.diagnosis.solids = 0 THEN {"NO_SOLID"} ELSE {})
       \cup (IF f.diagnosis.solids = 0 /\ ~f.closes
             THEN {} ELSE {"INVALID_GEOMETRY", "REPAIR_DEVIATION_EXCEEDED"})

Acceptable(f) == f.diagnosis.solids = 0 => f.closes
Extracts(f) == IF f.extracts = "OK" THEN "COMPLETED" ELSE f.extracts
Normalizes(f) == Refusals(f) \cup (IF Acceptable(f) THEN {Extracts(f)} ELSE {})

\* What is stored for a file, unless something fails that has nothing to do
\* with it.  A file whose parse never ends gets nothing of the kind.
Parses(f) == ~f.sleeps /\ ParseCode(f) = "OK"
Verdicts(f) ==
  IF IntakeCode(f) # "OK" THEN {IntakeCode(f)}
  ELSE IF f.sleeps THEN {}
  ELSE IF ParseCode(f) # "OK" THEN {ParseCode(f)}
  ELSE Normalizes(f)

\* The author of a file expects all that it may get.
ExpectationsFit == \A f \in File : Verdicts(f) \subseteq f.expected

\* Why the shape is where it is in validate_and_repair.
CauseInv ==
  /\ normal # "loaded" => task = "extract"
  /\ normal \in {"sew", "fix", "reverse", "judge"} => ~Sound(file.diagnosis)
  /\ normal = "sew" => file.diagnosis.solids = 0
  /\ normal \in {"fix", "reverse", "judge", "accepted"} => Acceptable(file)
  /\ normal = "refused" /\ word = "none" => code \in Refusals(file)

\* How far the file has got, and what the child says of it.
WordInv ==
  /\ pc = "intake" => word = "none"
  /\ Calling => IntakeCode(file) = "OK"
  /\ pc = "extracting" \/ (task = "parse" /\ word = "ok") => Parses(file)
  /\ task = "extract" /\ said = 3 => file.extracts # "TESSELLATION_FAILED"
  /\ task = "extract" /\ word = "ok" => file.extracts = "OK"
  /\ Calling /\ word = "pipeline_error" => code \in Verdicts(file) \cup {"CHILD_CRASHED"}

OutcomeInv ==
  /\ pc # "done" => ~pinned
  /\ pc = "done" => IF pinned THEN outcome \in Verdicts(file) \cup {"INTERNAL_ERROR"}
                           ELSE outcome \in ENVIRONMENT_SENSITIVE_CODES

VerdictInv == CauseInv /\ WordInv /\ OutcomeInv

LEMMA InitVerdict == Init => VerdictInv
BY DEF Init, StartedWith, VerdictInv, CauseInv, WordInv, OutcomeInv, Calling

(* What repair makes of the shape is refused with one of two codes.        *)
LEMMA RepairRefusals ==
  ASSUME NEW far, NEW grown
  PROVE  RepairCode(far, grown) \in {"INVALID_GEOMETRY", "REPAIR_DEVIATION_EXCEEDED", "OK"}
<1> DEFINE checks == << [fails |-> ~Sound(shape),             code |-> "INVALID_GEOMETRY"],
                        [fails |-> far \/ (Compared /\ grown), code |-> "REPAIR_DEVIATION_EXCEEDED"] >>
<1> DEFINE C == {"INVALID_GEOMETRY", "REPAIR_DEVIATION_EXCEEDED"}
<1>1. Len(checks) = 2 /\ "OK" \notin C /\ \A i \in 1 .. Len(checks) : checks[i].code \in C
  OBVIOUS
<1>2. RepairCode(far, grown) = FirstFailing(checks)
  BY DEF RepairCode
<1>3. FirstFailing(checks) \in C \cup {"OK"}
  <2> HIDE DEF checks, C
  <2> QED BY <1>1, FirstFails
<1> QED
  BY <1>2, <1>3

LEMMA CauseStays == Inv /\ CauseInv /\ [Next]_vars => CauseInv'
<1> SUFFICES ASSUME Inv, CauseInv, [Next]_vars PROVE CauseInv'
  OBVIOUS
<1>1. UNCHANGED <<file, repairs>> /\ (NormalStep \/ UNCHANGED normalVars)
  BY FileStays
<1>2. /\ (Sound(file.diagnosis))' = Sound(file.diagnosis) /\ Acceptable(file)' = Acceptable(file)
      /\ Refusals(file)' = Refusals(file)
  BY <1>1 DEF Sound, OrientationOk, Acceptable, Refusals
<1>3. repairs \in BOOLEAN /\ RepairInv
  BY RepairModesAssumption DEF Inv, AdmissionTypeOK
<1>4. CASE NormalStep
  <2>1. UNCHANGED <<task, word>> /\ task = "extract" /\ word = "none"
    BY <1>4 DEF NormalStep, Diagnose, Sew, Fix, ReverseSolid, Judge, Untouched, Normalizing, Working,
       isolationVars, childVars, Inv, IsolationInv, ChildInv
  <2>2. CASE Diagnose
    <3>1. shape = file.diagnosis
      BY <1>3, <2>2 DEF Diagnose, Normalizing, RepairInv
    <3>2. CASE Sound(shape) /\ Accept
      BY <1>1, <1>2, <2>1, <3>1, <3>2 DEF Accept, CauseInv, Acceptable, Sound
    <3>3. CASE ~Sound(shape) /\ ~repairs /\ Refuse(IF shape.solids = 0 THEN "NO_SOLID" ELSE "INVALID_GEOMETRY")
      BY <1>1, <1>2, <2>1, <3>1, <3>3 DEF Refuse, CauseInv, Refusals
    <3>4. CASE ~Sound(shape) /\ repairs /\ Goto(IF shape.solids = 0 THEN "sew" ELSE "fix")
      BY <1>1, <1>2, <2>1, <3>1, <3>4 DEF Goto, CauseInv, Acceptable
    <3> QED
      BY <2>2, <3>2, <3>3, <3>4 DEF Diagnose
  <2>3. CASE Sew
    <3>1. file.diagnosis.solids = 0 /\ ~Sound(file.diagnosis)
      BY <2>3 DEF Sew, Normalizing, CauseInv
    <3>2. CASE file.closes
      BY <1>1, <1>2, <2>1, <2>3, <3>1, <3>2 DEF Sew, Goto, CauseInv, Acceptable
    <3>3. CASE ~file.closes
      BY <1>1, <1>2, <2>1, <2>3, <3>1, <3>3 DEF Sew, Refuse, CauseInv, Refusals
    <3> QED
      BY <3>2, <3>3
  <2>4. CASE Fix
    BY <1>1, <1>2, <2>1, <2>4 DEF Fix, Normalizing, CauseInv
  <2>5. CASE ReverseSolid
    BY <1>1, <1>2, <2>1, <2>5 DEF ReverseSolid, Normalizing, CauseInv
  <2>6. CASE Judge
    <3>1. PICK far \in BOOLEAN, grown \in BOOLEAN :
            IF RepairCode(far, grown) = "OK"
            THEN Accept /\ exact' = ~(far \/ (Compared /\ grown)) /\ UNCHANGED notes
            ELSE Refuse(RepairCode(far, grown)) /\ exact' = TRUE /\ notes' = {}
      BY <2>6 DEF Judge
    <3>2. ~Sound(file.diagnosis) /\ Acceptable(file)
      BY <2>6 DEF Judge, Normalizing, CauseInv
    <3>3. CASE RepairCode(far, grown) = "OK"
      BY <1>1, <1>2, <2>1, <3>1, <3>2, <3>3 DEF Accept, CauseInv
    <3>4. CASE RepairCode(far, grown) # "OK"
      <4>1. RepairCode(far, grown) \in Refusals(file)
        BY <3>2, <3>4, RepairRefusals DEF Refusals, Acceptable
      <4> QED
        BY <1>1, <1>2, <2>1, <3>1, <3>4, <4>1 DEF Refuse, CauseInv
    <3> QED
      BY <3>3, <3>4
  <2> QED
    BY <1>4, <2>2, <2>3, <2>4, <2>5, <2>6 DEF NormalStep
<1>5. CASE UNCHANGED normalVars
  <2>1. normal' = normal
    BY <1>5 DEF normalVars
  <2>2. ASSUME task' = task, word' = "none" => word = "none" /\ code' = code PROVE CauseInv'
    BY <1>1, <1>2, <2>1, <2>2 DEF CauseInv
  <2>3. CASE UNCHANGED vars
    BY <2>2, <2>3 DEF vars, isolationVars, childVars
  <2>4. CASE Parse \/ Mishap \/ Extract
    BY <2>2, <2>4 DEF Parse, Mishap, Extract, Ends, Send
  <2>5. CASE Progress \/ ChildGoesOn
    BY <2>2, <2>5 DEF Progress, Report, ChildGoesOn, FinishSend, Close, Die, Hang
  <2>6. CASE ParentGoesOn \/ DeadlinePasses
    BY <2>2, <2>6 DEF ParentGoesOn, Parent, PollTimeout, PollReady, ReceiveProgress, ReceiveResult, ReceiveEnd,
       CallbackReturns, CallbackRaises, Cleanup, Join, childVars, DeadlinePasses, Deadline
  <2>7. CASE Intake \/ Extracted \/ CallFails \/ CallRaises
    BY <2>2, <2>7 DEF Intake, Extracted, CallFails, CallRaises, isolationVars, childVars
  <2>8. CASE Parsed
    <3>1. task = "parse" /\ task' = "extract"
      BY <2>8 DEF Parsed, Again, Inv, StageInv
    <3>2. normal = "loaded"
      BY <3>1 DEF CauseInv
    <3> QED
      BY <2>1, <3>1, <3>2 DEF CauseInv
  <2>9. CASE NormalStep
    BY <1>4, <2>9
  <2> QED
    BY <2>3, <2>4, <2>5, <2>6, <2>7, <2>8, <2>9 DEF Next, Child, Caller, NormalStep
<1> QED
  BY <1>1, <1>4, <1>5

(* The second child works on a file that parses, so that what it says of it *)
(* is one of the verdicts.                                                  *)
LEMMA SecondVerdicts ==
  ASSUME WordInv, CauseInv, pc = "extracting"
  PROVE  Verdicts(file) = Normalizes(file)
BY DEF WordInv, Calling, Verdicts, Parses

LEMMA WordStays == Inv /\ CauseInv /\ WordInv /\ [Next]_vars => WordInv'
<1> SUFFICES ASSUME Inv, CauseInv, WordInv, [Next]_vars PROVE WordInv'
  OBVIOUS
<1>1. UNCHANGED file
  BY FileStays
<1>2. /\ IntakeCode(file)' = IntakeCode(file) /\ Parses(file)' = Parses(file)
      /\ Verdicts(file)' = Verdicts(file)
  <2>1. IntakeCode(file)' = IntakeCode(file) /\ Parses(file)' = Parses(file)
    BY <1>1 DEF IntakeCode, Parses, ParseCode
  <2> QED
    BY <1>1 DEF Verdicts, Normalizes, Refusals, Acceptable, Extracts, IntakeCode, ParseCode, Parses, Sound, OrientationOk
<1>3. ASSUME UNCHANGED <<pc, task, said, word, code>> PROVE WordInv'
  BY <1>1, <1>2, <1>3 DEF WordInv, Calling
<1>4. ASSUME UNCHANGED <<pc, task, said, word>>, word # "pipeline_error" PROVE WordInv'
  BY <1>1, <1>2, <1>4 DEF WordInv, Calling
<1>5. ASSUME pc' \notin {"intake", "parsing", "extracting"}, UNCHANGED <<task, said, word>> PROVE WordInv'
  BY <1>1, <1>2, <1>5 DEF WordInv, Calling
<1>6. CASE UNCHANGED vars
  BY <1>3, <1>6 DEF vars, isolationVars, childVars
<1>7. CASE Parse
  <2>1. /\ pc = "parsing" /\ UNCHANGED <<pc, task, said>> /\ task = "parse" /\ ~file.sleeps
        /\ IntakeCode(file) = "OK"
    BY <1>7 DEF Parse, Working, Ends, Send, Inv, StageInv, WordInv, Calling
  <2>2. CASE ParseCode(file) = "OK"
    BY <1>1, <1>2, <1>7, <2>1, <2>2 DEF Parse, Ends, Send, WordInv, Parses, Calling
  <2>3. CASE ParseCode(file) # "OK"
    <3>1. ParseCode(file) \in Verdicts(file)
      BY <2>1, <2>3 DEF Verdicts
    <3> QED
      BY <1>1, <1>2, <1>7, <2>1, <2>3, <3>1 DEF Parse, Ends, Send, WordInv, Calling
  <2> QED
    BY <2>2, <2>3
<1>8. CASE Mishap
  BY <1>1, <1>2, <1>8 DEF Mishap, Ends, Send, WordInv, Calling
<1>9. CASE Extract
  <2>1. /\ pc = "extracting" /\ UNCHANGED <<pc, task, said>> /\ task = "extract" /\ word = "none"
        /\ Parses(file)
    BY <1>9 DEF Extract, Working, Ends, Send, Inv, StageInv, IsolationInv, ChildInv, WordInv, Calling
  <2>2. Verdicts(file) = Normalizes(file)
    BY <2>1, SecondVerdicts
  <2>3. ASSUME NEW c \in Verdicts(file), Ends("pipeline_error", c) PROVE WordInv'
    BY <1>1, <1>2, <2>1, <2>3 DEF Ends, Send, WordInv, Calling
  <2>4. CASE said = 1 /\ normal = "refused" /\ Ends("pipeline_error", code)
    <3>1. code \in Refusals(file)
      BY <2>1, <2>4 DEF CauseInv
    <3> QED
      BY <2>2, <2>3, <2>4, <3>1 DEF Normalizes
  <2>5. ASSUME said > 1, file.extracts # "OK" PROVE file.extracts \in Verdicts(file)
    <3>1. normal = "accepted"
      BY <2>1, <2>5 DEF Inv, StageInv
    <3> QED
      BY <2>2, <2>5, <3>1 DEF CauseInv, Normalizes, Extracts
  <2>6. CASE said = 2 /\ file.extracts = "TESSELLATION_FAILED" /\ Ends("pipeline_error", "TESSELLATION_FAILED")
    BY <2>3, <2>5, <2>6
  <2>7. CASE said = 3 /\ file.extracts = "OUTPUT_INVARIANT_VIOLATION" /\ Ends("pipeline_error", "OUTPUT_INVARIANT_VIOLATION")
    BY <2>3, <2>5, <2>7
  <2>8. CASE said = 3 /\ file.extracts = "OK" /\ Ends("ok", "none")
    BY <1>1, <1>2, <2>1, <2>8 DEF Ends, Send, WordInv, Calling
  <2> QED
    BY <1>9, <2>4, <2>6, <2>7, <2>8 DEF Extract
<1>10. CASE NormalStep
  <2>1. UNCHANGED <<pc, task, said, word>> /\ word = "none"
    BY <1>10 DEF NormalStep, Diagnose, Sew, Fix, ReverseSolid, Judge, Untouched, Normalizing, Working,
       isolationVars, childVars, Inv, IsolationInv, ChildInv
  <2> QED
    BY <1>4, <2>1
<1>11. CASE Progress
  <2>1. /\ UNCHANGED <<pc, task, word, code>> /\ said' = said + 1 /\ said \in Nat
        /\ said = 2 => file.extracts # "TESSELLATION_FAILED"
    BY <1>11 DEF Progress, Report, Inv, IsolationInv, IsolationTypeOK, StagesOf
  <2> QED
    BY <1>1, <1>2, <2>1 DEF WordInv, Calling
<1>12. CASE ChildGoesOn
  BY <1>3, <1>12 DEF ChildGoesOn, FinishSend, Close, Die, Hang
<1>13. CASE ParentGoesOn
  BY <1>3, <1>13 DEF ParentGoesOn, Parent, PollTimeout, PollReady, ReceiveProgress, ReceiveResult, ReceiveEnd,
     CallbackReturns, CallbackRaises, Cleanup, Join, childVars
<1>14. CASE DeadlinePasses
  BY <1>3, <1>14 DEF DeadlinePasses, Deadline, childVars
<1>15. CASE Intake
  <2>1. UNCHANGED <<task, said, word>> /\ task = "parse" /\ word # "ok" /\ word # "pipeline_error"
    BY <1>15 DEF Intake, isolationVars, childVars, Inv, StageInv, WordInv
  <2> QED
    BY <1>1, <1>2, <1>5, <1>15, <2>1 DEF Intake, Fail, WordInv, Calling
<1>16. CASE Parsed
  <2>1. word = "ok" /\ task = "parse"
    BY <1>16 DEF Parsed, Inv, StageInv, IsolationInv, IsolationTypeOK, ParentInv, Ended, AnswerOf, Result
  <2>2. Parses(file) /\ IntakeCode(file) = "OK"
    BY <1>16, <2>1 DEF WordInv, Parsed, Calling
  <2> QED
    BY <1>1, <1>2, <1>16, <2>2 DEF Parsed, Again, WordInv, Calling
<1>17. CASE Extracted \/ CallFails \/ CallRaises
  BY <1>5, <1>17 DEF Extracted, Complete, CallFails, Fail, CallRaises, isolationVars, childVars
<1> QED
  BY <1>6, <1>7, <1>8, <1>9, <1>10, <1>11, <1>12, <1>13, <1>14, <1>15, <1>16, <1>17
  DEF Next, Child, Caller, NormalStep

LEMMA OutcomeStays == Inv /\ CauseInv /\ WordInv /\ OutcomeInv /\ [Next]_vars => OutcomeInv'
<1> SUFFICES ASSUME Inv, CauseInv, WordInv, OutcomeInv, [Next]_vars PROVE OutcomeInv'
  OBVIOUS
<1>1. UNCHANGED file
  BY FileStays
<1>2. Verdicts(file)' = Verdicts(file)
  BY <1>1 DEF Verdicts, Normalizes, Refusals, Acceptable, Extracts, IntakeCode, ParseCode, Sound, OrientationOk
<1>3. ASSUME UNCHANGED <<pc, outcome, pinned>> PROVE OutcomeInv'
  BY <1>1, <1>2, <1>3 DEF OutcomeInv
<1>4. ASSUME NEW c \in Verdicts(file) \cup {"INTERNAL_ERROR"} \cup ENVIRONMENT_SENSITIVE_CODES, Fail(c)
      PROVE  OutcomeInv'
  BY <1>1, <1>2, <1>4 DEF Fail, Pins, OutcomeInv
<1>5. ASSUME pc # "done", pc' # "done", UNCHANGED <<outcome, pinned>> PROVE OutcomeInv'
  BY <1>5 DEF OutcomeInv
<1>6. CASE UNCHANGED vars
  BY <1>3, <1>6 DEF vars, outcomeVars
<1>7. CASE Parse \/ Mishap \/ Extract
  BY <1>3, <1>7 DEF Parse, Mishap, Extract, Ends, outcomeVars
<1>8. CASE NormalStep
  BY <1>3, <1>8 DEF NormalStep, Diagnose, Sew, Fix, ReverseSolid, Judge, Untouched, outcomeVars
<1>9. CASE Progress \/ ChildGoesOn \/ ParentGoesOn \/ DeadlinePasses
  BY <1>3, <1>9 DEF Progress, ChildGoesOn, ParentGoesOn, DeadlinePasses, outcomeVars
<1>10. CASE Intake
  <2>1. CASE IntakeCode(file) = "OK"
    BY <1>5, <1>10, <2>1 DEF Intake, outcomeVars
  <2>2. CASE IntakeCode(file) # "OK"
    <3>1. IntakeCode(file) \in Verdicts(file)
      BY <2>2 DEF Verdicts
    <3> QED
      BY <1>4, <1>10, <2>2, <3>1 DEF Intake
  <2> QED
    BY <2>1, <2>2
<1>11. CASE Parsed \/ CallRaises
  BY <1>5, <1>11 DEF Parsed, CallRaises, Calling, outcomeVars
<1>12. CASE Extracted
  <2>1. word = "ok"
    BY <1>12 DEF Extracted, Inv, IsolationInv, IsolationTypeOK, ParentInv, Ended, AnswerOf, Result
  <2>2. task = "extract" /\ normal = "accepted"
    BY <1>12, <2>1 DEF Extracted, Inv, StageInv, IsolationInv, IsolationTypeOK, StagesOf
  <2>3. Acceptable(file) /\ file.extracts = "OK"
    BY <2>1, <2>2 DEF CauseInv, WordInv
  <2>4. "COMPLETED" \in Verdicts(file)
    BY <1>12, <2>3, SecondVerdicts DEF Extracted, Normalizes, Extracts
  <2> QED
    BY <1>1, <1>2, <1>12, <2>4 DEF Extracted, Complete, OutcomeInv
<1>13. CASE CallFails
  <2>1. CASE answer = "pipeline_error"
    <3>1. word = "pipeline_error"
      BY <2>1 DEF Inv, IsolationInv, IsolationTypeOK, ParentInv, Ended, AnswerOf, Result
    <3>2. code \in Verdicts(file) \cup {"CHILD_CRASHED"}
      BY <1>13, <3>1 DEF CallFails, WordInv
    <3> QED
      BY <1>4, <1>13, <2>1, <3>2 DEF CallFails, CodeOf, ENVIRONMENT_SENSITIVE_CODES
  <2>2. CASE answer = "TIMEOUT"
    BY <1>4, <1>13, <2>2 DEF CallFails, CodeOf, TimeoutCode, ENVIRONMENT_SENSITIVE_CODES
  <2>3. CASE answer \notin {"pipeline_error", "TIMEOUT"}
    <3>1. answer \in {"INTERNAL_ERROR", "CHILD_CRASHED"}
      BY <1>13, <2>3 DEF CallFails, Inv, IsolationInv, IsolationTypeOK, Answer
    <3> QED
      BY <1>4, <1>13, <2>3, <3>1 DEF CallFails, CodeOf, ENVIRONMENT_SENSITIVE_CODES
  <2> QED
    BY <2>1, <2>2, <2>3
<1> QED
  BY <1>6, <1>7, <1>8, <1>9, <1>10, <1>11, <1>12, <1>13 DEF Next, Child, Caller, NormalStep

(* What is stored for a file for good (_finalize_failure, pipeline.py) is  *)
(* one of the codes its author expects of it (corpus.py), if these hold    *)
(* what the file itself can get: a child that dies, hangs, runs out of     *)
(* memory or answers too late puts no other code there but INTERNAL_ERROR. *)
THEOREM JudgedByTheFile == ASSUME ExpectationsFit PROVE Spec => []FixturesAreJudged
<1>1. Inv /\ VerdictInv /\ [Next]_vars => VerdictInv'
  BY CauseStays, WordStays, OutcomeStays DEF VerdictInv
<1>2. Spec => []VerdictInv
  BY <1>1, InitVerdict, AlwaysInv, PTL DEF Spec
<1>3. Inv /\ VerdictInv => FixturesAreJudged
  BY DEF Inv, AdmissionTypeOK, VerdictInv, OutcomeInv, ExpectationsFit, FixturesAreJudged
<1> QED
  BY <1>2, <1>3, AlwaysInv, PTL
================================================================================
