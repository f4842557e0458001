------------------------------- MODULE Publication -----------------------------
(***************************************************************************)
(* Dataset versions, training runs and predictions over samples that are   *)
(* processed again meanwhile: build_dataset (cad2ml/datasets/builder.py)   *)
(* called by POST /v1/datasets and by the command line, run_training       *)
(* (cad2ml/training/train.py) called by a worker and by the command line,  *)
(* and GET .../predictions/{sample_id} (apps/api/main.py).  Each step is   *)
(* one access to the artifact store or one transaction.                    *)
(* A version's id is the hash of its content: here it is the content.  All *)
(* runs have one configuration, so that a version has one run.             *)
(* An operator named Bug... is a wrong form of the operator after it.      *)
(***************************************************************************)
EXTENDS Naturals, FiniteSets

CONSTANTS
  NumSamples,  \* the samples of the corpus are numbered in the order of their ids
  Order,       \* the orders in which a sample may list its faces
  NumFaces,    \* how many faces an order lists
  Builder,     \* the calls of build_dataset
  Trainer,     \* the calls of run_training
  Reader,      \* the requests for predictions
  MaxChanges,  \* bound on the changes of samples
  MaxCrashes,  \* bound on the processes that die
  None, Excluded

Sample == 1 .. NumSamples

ASSUME NumSamplesAssumption == NumSamples \in Nat \ {0}
ASSUME BoundsAssumption == MaxChanges \in Nat /\ MaxCrashes \in Nat
ASSUME OrderAssumption == Order # {} /\ NumFaces \in [Order -> Nat]

\* What a version says of a sample: nothing, that it is excluded, or the order
\* of the faces in its brep.json and in the point cloud from which their labels
\* were computed.  Orders that give a version the same labels count as one.
Entry == {None, Excluded} \cup [brep : Order, cloud : Order]
Content == [Sample -> Entry]
Included(v) == { s \in Sample : v[s] \notin {None, Excluded} }

ASSUME NoneAssumption ==
  /\ None \notin Order \cup Builder \cup Trainer \cup Content \cup {Excluded}
  /\ {None, Excluded} \cap [brep : Order, cloud : Order] = {}

VARIABLES
  manifest,    \* of each sample: "none", "completed" or "failed"
  parts,       \* the face order of its artifacts, or None
  changes, crashes,
  labels,      \* the versions with a labels.json
  dataset,     \* who wrote the dataset.json of a version last (created_at), or None
  listed,      \* the rows of the table datasets
  checkpoint, predictions, experiment,  \* who wrote these files of a run last
  bpc, viaApi, next, content,           \* the builders' locals
  tpc, target, from, graphs,            \* the trainers' locals
  rpc, run, sample,                     \* the readers' locals
  early, disturbed                      \* history: what happened during a request

sampleVars == <<manifest, parts, changes>>
versionVars == <<labels, dataset, listed>>
runVars == <<checkpoint, predictions, experiment>>
builderVars == <<bpc, viaApi, next, content>>
trainerVars == <<tpc, target, from, graphs>>
readerVars == <<rpc, run, sample, early, disturbed>>
vars == <<sampleVars, crashes, versionVars, runVars, builderVars, trainerVars, readerVars>>

BuilderPC == { "list", "manifest", "brep", "cloud", "exists", "labels", "dataset", "row", "insert",
               "answer", "created", "known", "error", "dead" }
TrainerPC == { "new", "dataset", "graph", "checkpoint", "predictions",
               "experiment", "done", "error", "dead" }
ReaderPC == { "new", "status", "manifest", "model", "graph", "experiment", "dataset", "answered",
              "unfinished", "unknown", "conflict", "error" }

TypeOK ==
  /\ manifest \in [Sample -> {"none", "completed", "failed"}]
  /\ parts \in [Sample -> Order \cup {None}]
  /\ changes \in 0 .. MaxChanges /\ crashes \in 0 .. MaxCrashes
  /\ labels \in SUBSET Content /\ listed \in SUBSET Content
  /\ dataset \in [Content -> Builder \cup {None}]
  /\ \A file \in {checkpoint, predictions, experiment} : file \in [Content -> Trainer \cup {None}]
  /\ bpc \in [Builder -> BuilderPC] /\ viaApi \in [Builder -> BOOLEAN]
  /\ next \in [Builder -> Sample] /\ content \in [Builder -> Content]
  /\ tpc \in [Trainer -> TrainerPC] /\ target \in [Trainer -> Content \cup {None}]
  /\ from \in [Trainer -> Sample]
  /\ graphs \in [Trainer -> [Sample -> Order \cup {None}]]
  /\ rpc \in [Reader -> ReaderPC] /\ run \in [Reader -> Content \cup {None}]
  /\ sample \in [Reader -> Sample \cup {None}]
  /\ early \in [Reader -> BOOLEAN] /\ disturbed \in [Reader -> BOOLEAN]

Nothing == [s \in Sample |-> None]

\* A sample was completed, or has failed, or is not there.
Init ==
  /\ parts \in [Sample -> Order \cup {None}]
  /\ \E failed \in SUBSET { s \in Sample : parts[s] = None } :
       manifest = [s \in Sample |-> IF parts[s] # None THEN "completed"
                                    ELSE IF s \in failed THEN "failed" ELSE "none"]
  /\ changes = 0 /\ crashes = 0
  /\ labels = {} /\ dataset = [v \in Content |-> None] /\ listed = {}
  /\ checkpoint = [v \in Content |-> None]
  /\ predictions = [v \in Content |-> None]
  /\ experiment = [v \in Content |-> None]
  /\ bpc = [b \in Builder |-> "list"] /\ viaApi \in [Builder -> BOOLEAN]
  /\ next = [b \in Builder |-> 1] /\ content = [b \in Builder |-> Nothing]
  /\ tpc = [t \in Trainer |-> "new"] /\ target = [t \in Trainer |-> None]
  /\ from = [t \in Trainer |-> 1] /\ graphs = [t \in Trainer |-> Nothing]
  /\ rpc = [r \in Reader |-> "new"] /\ run = [r \in Reader |-> None]
  /\ sample = [r \in Reader |-> None]
  /\ early = [r \in Reader |-> FALSE] /\ disturbed = [r \in Reader |-> FALSE]
--------------------------------------------------------------------------------
(* The samples (module Samples has the steps)                              *)

Reading(r) == rpc[r] \in {"status", "manifest", "model", "graph", "experiment", "dataset"}
Change ==
  /\ changes < MaxChanges /\ changes' = changes + 1
  /\ disturbed' = [r \in Reader |-> disturbed[r] \/ Reading(r)]
  /\ UNCHANGED <<crashes, versionVars, runVars, builderVars, trainerVars, rpc, run, sample, early>>

\* A forced rerun moves the sample away ...
Supersede(s) ==
  /\ manifest[s] # "none"
  /\ manifest' = [manifest EXCEPT ![s] = "none"]
  /\ parts' = [parts EXCEPT ![s] = None]
  /\ Change

\* ... and puts its own result in the place; another kernel may list the faces
\* in another order.
Promote(s) ==
  /\ manifest[s] = "none" /\ parts[s] = None
  /\ manifest' = [manifest EXCEPT ![s] = "completed"]
  /\ \E o \in Order : parts' = [parts EXCEPT ![s] = o]
  /\ Change

\* A failure replaces the manifest alone.
FailInPlace(s) ==
  /\ manifest[s] # "failed"
  /\ manifest' = [manifest EXCEPT ![s] = "failed"]
  /\ UNCHANGED parts
  /\ Change
--------------------------------------------------------------------------------
(* build_dataset                                                           *)

GoBuilder(b, label) == bpc' = [bpc EXCEPT ![b] = label]
BuilderReads == UNCHANGED <<sampleVars, crashes, versionVars, runVars, viaApi, trainerVars, readerVars>>

\* One pass over the samples: which of them is next after s, and what follows
\* when there is none.
Following(S, s) == { x \in S : x > s }
Least(S) == CHOOSE x \in S : \A y \in S : x <= y
Pass(b, S, s, again, then) ==
  IF Following(S, s) = {}
  THEN next' = [next EXCEPT ![b] = 1] /\ GoBuilder(b, then)
  ELSE next' = [next EXCEPT ![b] = Least(Following(S, s))] /\ GoBuilder(b, again)

\* iter_manifests lists the keys, then reads each file that is still there; one
\* that vanishes in between is skipped or ends the build.  content marks the
\* samples to be read.
Unread == [brep |-> CHOOSE o \in Order : TRUE, cloud |-> CHOOSE o \in Order : TRUE]
ListManifests(b) ==
  /\ bpc[b] = "list"
  /\ LET keys == { s \in Sample : manifest[s] # "none" } IN
       /\ content' = [content EXCEPT ![b] = [s \in Sample |-> IF s \in keys THEN Unread ELSE None]]
       /\ Pass(b, keys, 0, "manifest", "exists")
  /\ BuilderReads

Read(status) ==
  CASE status = "completed" -> Unread [] status = "failed" -> Excluded [] OTHER -> None
ReadManifest(b) ==
  /\ bpc[b] = "manifest"
  /\ LET s == next[b]
         rest == Following(Included(content[b]), s)
     IN \/ manifest[s] = "none" /\ GoBuilder(b, "error") /\ UNCHANGED <<next, content>>
        \/ /\ content' = [content EXCEPT ![b][s] = Read(manifest[s])]
           /\ IF rest # {} THEN Pass(b, rest, s, "manifest", "exists")
              ELSE Pass(b, Included(content'[b]), 0, "brep", "exists")
  /\ BuilderReads

BugReadable(s) == TRUE
Readable(s) == parts[s] # None
ReadBrep(b) ==
  /\ bpc[b] = "brep"
  /\ LET s == next[b] IN
     \/ ~ Readable(s) /\ GoBuilder(b, "error") /\ UNCHANGED content
     \/ /\ Readable(s)
        /\ content' = [content EXCEPT ![b][s].brep = parts[s]]
        /\ GoBuilder(b, "cloud")
  /\ UNCHANGED next /\ BuilderReads

\* label_faces looks up a range of points for each face of the brep.
Covers(o, brep) == NumFaces[brep] <= NumFaces[o]
ReadCloud(b) ==
  /\ bpc[b] = "cloud"
  /\ LET s == next[b]
         labelled == Readable(s) /\ Covers(parts[s], content[b][s].brep)
     IN
     \/ ~ labelled /\ GoBuilder(b, "error") /\ UNCHANGED <<next, content>>
     \/ /\ labelled
        /\ content' = [content EXCEPT ![b][s].cloud = parts[s]]
        /\ Pass(b, Included(content[b]), s, "brep", "exists")
  /\ BuilderReads

\* What follows: a version that is there is returned, the files of a new one are
\* written in this order; via the API it gets its row, too.
Stored(b) == IF viaApi[b] THEN "row" ELSE "known"
BugAfter(b, pc) ==
  CASE pc = "exists" -> "dataset" [] pc = "dataset" -> "labels" [] OTHER -> Stored(b)
After(b, pc) ==
  CASE pc = "exists" -> "labels" [] pc = "labels" -> "dataset" [] OTHER -> Stored(b)

LookForVersion(b) ==
  /\ bpc[b] = "exists"
  /\ GoBuilder(b, IF dataset[content[b]] # None THEN Stored(b) ELSE After(b, "exists"))
  /\ UNCHANGED <<next, content>> /\ BuilderReads

BuilderWrites ==
  UNCHANGED <<sampleVars, crashes, listed, runVars, viaApi, next, content, trainerVars, readerVars>>

PutLabels(b) ==
  /\ bpc[b] = "labels"
  /\ labels' = labels \cup {content[b]}
  /\ GoBuilder(b, After(b, "labels"))
  /\ UNCHANGED dataset /\ BuilderWrites

\* Nothing keeps two builders of one version from writing it both.
PutDataset(b) ==
  /\ bpc[b] = "dataset"
  /\ dataset' = [dataset EXCEPT ![content[b]] = b]
  /\ GoBuilder(b, After(b, "dataset"))
  /\ UNCHANGED labels /\ BuilderWrites

\* create_dataset: get, then insert and commit, which is answered by "created";
\* an IntegrityError is answered by an error.
LookForRow(b) ==
  /\ bpc[b] = "row"
  /\ GoBuilder(b, IF content[b] \in listed THEN "known" ELSE "insert")
  /\ UNCHANGED <<next, content>> /\ BuilderReads

InsertRow(b) ==
  /\ bpc[b] = "insert"
  /\ IF content[b] \notin listed
     THEN listed' = listed \cup {content[b]} /\ GoBuilder(b, "answer")
     ELSE GoBuilder(b, "error") /\ UNCHANGED listed
  /\ UNCHANGED <<labels, dataset>>
  /\ UNCHANGED <<sampleVars, crashes, runVars, viaApi, next, content, trainerVars, readerVars>>

AnswerCreated(b) ==
  /\ bpc[b] = "answer"
  /\ GoBuilder(b, "created")
  /\ UNCHANGED <<next, content>> /\ BuilderReads

BuilderEnded == { "created", "known", "error", "dead" }
BuilderCrash(b) ==
  /\ bpc[b] \notin BuilderEnded \cup {"list"} /\ crashes < MaxCrashes
  /\ crashes' = crashes + 1
  /\ GoBuilder(b, "dead")
  /\ UNCHANGED <<sampleVars, versionVars, runVars, viaApi, next, content, trainerVars, readerVars>>
--------------------------------------------------------------------------------
(* run_training                                                            *)

GoTrainer(t, label) == tpc' = [tpc EXCEPT ![t] = label]
TrainerReads == UNCHANGED <<sampleVars, crashes, versionVars, runVars, builderVars, readerVars>>

\* create_run and load_dataset_manifest: the version must be there.
StartTraining(t) ==
  /\ tpc[t] = "new"
  /\ \E v \in Content :
       /\ dataset[v] # None
       /\ target' = [target EXCEPT ![t] = v]
  /\ GoTrainer(t, "dataset")
  /\ UNCHANGED <<from, graphs>> /\ TrainerReads

\* load_graphs reads dataset.json, labels.json, then a graph for each sample.
\* Without any sample there is nothing to be trained.
LoadLabels(t) ==
  /\ tpc[t] = "dataset"
  /\ IF dataset[target[t]] # None /\ target[t] \in labels /\ Included(target[t]) # {}
     THEN from' = [from EXCEPT ![t] = Least(Included(target[t]))] /\ GoTrainer(t, "graph")
     ELSE GoTrainer(t, "error") /\ UNCHANGED from
  /\ UNCHANGED <<target, graphs>> /\ TrainerReads

\* "label/graph face order mismatch" is raised when the lists of face ids differ.
\* The ids are positions, from F000 on: any two orders of as many faces agree.
BugAligned(t, s) == TRUE
Aligned(t, s) == NumFaces[parts[s]] = NumFaces[target[t][s].brep]
LoadGraph(t) ==
  /\ tpc[t] = "graph"
  /\ LET s == from[t]
         rest == Following(Included(target[t]), s)
     IN IF parts[s] # None /\ Aligned(t, s)
        THEN /\ graphs' = [graphs EXCEPT ![t][s] = parts[s]]
             /\ IF rest = {} THEN GoTrainer(t, "checkpoint") /\ UNCHANGED from
                ELSE from' = [from EXCEPT ![t] = Least(rest)] /\ UNCHANGED tpc
        ELSE GoTrainer(t, "error") /\ UNCHANGED <<graphs, from>>
  /\ UNCHANGED target /\ TrainerReads

TrainerWrites ==
  UNCHANGED <<sampleVars, crashes, versionVars, builderVars, target, from, graphs, readerVars>>
WrittenBy(file, t) == [file EXCEPT ![target[t]] = t]

PutCheckpoint(t) ==
  /\ tpc[t] = "checkpoint"
  /\ checkpoint' = WrittenBy(checkpoint, t) /\ UNCHANGED <<predictions, experiment>>
  /\ GoTrainer(t, "predictions") /\ TrainerWrites

PutPredictions(t) ==
  /\ tpc[t] = "predictions"
  /\ predictions' = WrittenBy(predictions, t) /\ UNCHANGED <<checkpoint, experiment>>
  /\ GoTrainer(t, "experiment") /\ TrainerWrites

PutExperiment(t) ==
  /\ tpc[t] = "experiment"
  /\ experiment' = WrittenBy(experiment, t) /\ UNCHANGED <<checkpoint, predictions>>
  /\ GoTrainer(t, "done") /\ TrainerWrites

TrainerCrash(t) ==
  /\ tpc[t] \notin {"new", "done", "error", "dead"} /\ crashes < MaxCrashes
  /\ crashes' = crashes + 1
  /\ GoTrainer(t, "dead")
  /\ UNCHANGED <<sampleVars, versionVars, runVars, builderVars, target, from, graphs, readerVars>>
--------------------------------------------------------------------------------
(* run_predictions                                                         *)

GoReader(r, label) == rpc' = [rpc EXCEPT ![r] = label]
ReaderReads == UNCHANGED <<sampleVars, crashes, versionVars, runVars, builderVars, trainerVars>>
Locals == UNCHANGED <<run, sample, early, disturbed>>

\* A run that was started counts as finished when its checkpoint is there.
AskForPredictions(r) ==
  /\ rpc[r] = "new"
  /\ \E v \in { target[t] : t \in Trainer } \ {None}, s \in Sample :
       /\ run' = [run EXCEPT ![r] = v] /\ sample' = [sample EXCEPT ![r] = s]
       /\ early' = [early EXCEPT ![r] = experiment[v] = None]
       /\ GoReader(r, IF checkpoint[v] = None THEN "unfinished" ELSE "status")
  /\ UNCHANGED disturbed /\ ReaderReads

\* load_manifest: exists, then get_bytes.
LookForManifest(r) ==
  /\ rpc[r] = "status"
  /\ GoReader(r, IF manifest[sample[r]] = "none" THEN "unknown" ELSE "manifest")
  /\ Locals /\ ReaderReads

BugUsable(s) == manifest[s] # "none"
Usable(s) == manifest[s] = "completed"
GetManifest(r) ==
  /\ rpc[r] = "manifest"
  /\ GoReader(r, IF manifest[sample[r]] = "none" THEN "error"
                 ELSE IF Usable(sample[r]) THEN "model" ELSE "conflict")
  /\ Locals /\ ReaderReads

\* infer_sample: the checkpoint, then the graph.
LoadModel(r) ==
  /\ rpc[r] = "model"
  /\ GoReader(r, IF checkpoint[run[r]] = None THEN "error" ELSE "graph")
  /\ Locals /\ ReaderReads

GetGraph(r) ==
  /\ rpc[r] = "graph"
  /\ GoReader(r, IF parts[sample[r]] = None THEN "error" ELSE "experiment")
  /\ Locals /\ ReaderReads

GetExperiment(r) ==
  /\ rpc[r] = "experiment"
  /\ GoReader(r, IF experiment[run[r]] = None THEN "error" ELSE "dataset")
  /\ Locals /\ ReaderReads

\* The labels are read if they are there, dataset.json in any case.
GetDataset(r) ==
  /\ rpc[r] = "dataset"
  /\ GoReader(r, IF dataset[run[r]] = None THEN "error" ELSE "answered")
  /\ Locals /\ ReaderReads
--------------------------------------------------------------------------------
BuilderStep(b) ==
  \/ ListManifests(b) \/ ReadManifest(b) \/ ReadBrep(b) \/ ReadCloud(b) \/ LookForVersion(b)
  \/ PutLabels(b) \/ PutDataset(b) \/ LookForRow(b) \/ InsertRow(b)
  \/ AnswerCreated(b) \/ BuilderCrash(b)

TrainerStep(t) ==
  \/ StartTraining(t) \/ LoadLabels(t) \/ LoadGraph(t)
  \/ PutCheckpoint(t) \/ PutPredictions(t) \/ PutExperiment(t) \/ TrainerCrash(t)

ReaderStep(r) ==
  \/ AskForPredictions(r) \/ LookForManifest(r) \/ GetManifest(r) \/ LoadModel(r)
  \/ GetGraph(r) \/ GetExperiment(r) \/ GetDataset(r)

Next ==
  \/ \E s \in Sample : Supersede(s) \/ Promote(s) \/ FailInPlace(s)
  \/ \E b \in Builder : BuilderStep(b)
  \/ \E t \in Trainer : TrainerStep(t)
  \/ \E r \in Reader : ReaderStep(r)

Spec == Init /\ [][Next]_vars
--------------------------------------------------------------------------------
(* Correctness                                                             *)

Store == INSTANCE Versions WITH
  Version <- Content,
  state   <- [v \in Content |-> IF dataset[v] = None THEN "absent"
                                ELSE IF v \in labels THEN "whole" ELSE "torn"],
  listed  <- listed,
  created <- [v \in Content |-> Cardinality({ b \in Builder : bpc[b] = "created" /\ content[b] = v })]

(* "content-addressed; never overwritten" (architecture.md:42): whichever  *)
(* builders overlap or die, a version appears with its labels and stays,   *)
(* only such a version gets a row, and one client at most is told that it  *)
(* was created.  A second builder may write the same content again, with   *)
(* another created_at.                                                     *)
ImplementsVersions == Store!Spec

(* A run with an experiment record has its checkpoint and its predictions, *)
(* its version is whole, and each graph it was trained on has one node for *)
(* each label of its sample, although samples are processed again while    *)
(* versions are built and their graphs are read.                           *)
RecordedRunIsWhole ==
  \A v \in Content : experiment[v] # None =>
    /\ checkpoint[v] # None /\ predictions[v] # None
    /\ dataset[v] # None /\ v \in labels
    /\ \A s \in Included(v) : NumFaces[graphs[experiment[v]][s]] = NumFaces[v[s].brep]

(* load_graphs raises "label/graph face order mismatch" (data.py:49), so   *)
(* that no run should be trained on a graph that lists the faces in        *)
(* another order than the labels of the sample.                            *)
TrainedInOrder ==
  \A v \in Content : experiment[v] # None =>
    \A s \in Included(v) : graphs[experiment[v]][s] = v[s].brep

(* Once the run is recorded, a request for its predictions does not end in *)
(* an error of the server, unless its sample is replaced meanwhile.        *)
FinishedRunAnswers ==
  \A r \in Reader : rpc[r] = "error" => early[r] \/ disturbed[r]

================================================================================
