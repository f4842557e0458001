------------------------------ MODULE MCAdmission -----------------------------
(***************************************************************************)
(* The failure fixtures of generate_failures (cad2ml/synthetic/corpus.py)  *)
(* with the codes they are expected to get, and files whose one solid, or  *)
(* set of faces, has any other diagnosis.                                  *)
(***************************************************************************)
EXTENDS Admission

SoundSolid == [valid |-> TRUE, solids |-> 1, closed |-> TRUE, outward |-> TRUE, volume |-> 1]
OpenFaces == [valid |-> TRUE, solids |-> 0, closed |-> FALSE, outward |-> FALSE, volume |-> 0]

Good ==
  [bytes |-> "some", extension |-> TRUE, magic |-> TRUE, readable |-> TRUE, roots |-> TRUE,
   assembly |-> FALSE, shapes |-> TRUE, solids |-> 1, faces |-> TRUE, surfaces |-> TRUE,
   sleeps |-> FALSE, auxiliary |-> FALSE, diagnosis |-> SoundSolid, closes |-> TRUE,
   extracts |-> "OK",
   expected |-> {"COMPLETED"}]

CorruptCodes == {"STEP_PARSE_FAILED", "STEP_NO_SHAPES", "NO_SOLID", "INVALID_GEOMETRY"}

Fixtures ==
  { Good,
    [Good EXCEPT !.bytes = "none", !.magic = FALSE, !.expected = {"EMPTY_FILE"}],
    [Good EXCEPT !.extension = FALSE, !.expected = {"UNSUPPORTED_EXTENSION"}],
    [Good EXCEPT !.magic = FALSE, !.expected = {"NOT_STEP_CONTENT"}],
    [Good EXCEPT !.readable = FALSE, !.expected = CorruptCodes],
    [Good EXCEPT !.roots = FALSE, !.expected = CorruptCodes],
    [Good EXCEPT !.shapes = FALSE, !.expected = CorruptCodes],
    [Good EXCEPT !.solids = 0, !.faces = FALSE, !.diagnosis = OpenFaces, !.expected = CorruptCodes],
    [Good EXCEPT !.assembly = TRUE, !.solids = 2, !.expected = {"UNSUPPORTED_ASSEMBLY"}],
    [Good EXCEPT !.solids = 2, !.expected = {"MULTI_BODY"}],
    [Good EXCEPT !.solids = 0, !.diagnosis = OpenFaces, !.closes = FALSE, !.expected = {"NO_SOLID"}],
    [Good EXCEPT !.sleeps = TRUE, !.expected = {"PARSER_TIMEOUT"}] }

\* Files that no fixture stands for.
Others ==
  { [Good EXCEPT !.bytes = "too_many", !.expected = {"FILE_TOO_LARGE"}],
    [Good EXCEPT !.surfaces = FALSE, !.expected = {"UNSUPPORTED_TESSELLATED"}],
    [Good EXCEPT !.auxiliary = TRUE],
    [Good EXCEPT !.extracts = "TESSELLATION_FAILED", !.expected = {"TESSELLATION_FAILED"}],
    [Good EXCEPT !.extracts = "OUTPUT_INVARIANT_VIOLATION",
                 !.expected = {"OUTPUT_INVARIANT_VIOLATION"}] }

RepairCodes == {"COMPLETED", "NO_SOLID", "INVALID_GEOMETRY", "REPAIR_DEVIATION_EXCEEDED"}

Damaged ==
  { [Good EXCEPT !.solids = d.solids, !.diagnosis = d, !.auxiliary = TRUE, !.expected = RepairCodes] :
      d \in { e \in Diagnosis : e.solids < 2 /\ ~Sound(e) } }

MCFile == Fixtures \cup Others \cup Damaged
================================================================================
