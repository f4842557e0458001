# CAD2ML in TLA+

CAD2ML turns STEP files into machine-learning samples. This directory holds TLA+
models of the parts whose correctness depends on order, overlap and failure: the
job system, the submission of files, the admission of one file through isolated
children, the life of a sample in the artifact store, the extraction of a sample with
its feature recognizer, the split of datasets, and the publication of dataset versions
with the training runs and predictions that read them. TLC checks the models on small
instances; TLAPS proves what matters most for every instance.

## 1. Inventory

| part | code | state it keeps | operations | talks to |
|---|---|---|---|---|
| state machine | `cad2ml/jobs/states.py` | – | legal moves | used by every transition |
| job service | `cad2ml/jobs/service.py`, `db.py` | rows of `files`, `jobs`, `job_events`, `workers` | register, submit, claim, heartbeat, transition, reap, reconcile | database, queue |
| transport | `cad2ml/jobs/queue.py` | list `cad2ml:queue`, lists `processing:<worker>` | enqueue, reserve, ack, release | Valkey |
| worker | `apps/worker/main.py` | `current`, stop event, locals of a job | loop, maintenance, heartbeat thread, process, train, settle | job service, transport, pipeline |
| API | `apps/api/main.py` | – | upload, submit, datasets, training runs, reads | job service, store |
| pipeline | `cad2ml/pipeline.py` | – | `process_source`, `_finalize_failure` | store, isolation, progress callback |
| store | `cad2ml/storage/base.py` | directory tree | put, promote, delete, exists, get | file system |
| intake, parser, validation | `cad2ml/ingestion/intake.py`, `parsers/step_adapter.py`, `geometry/validation.py` | a shape and the notes about its repair | inspect, parse, diagnose, sew, fix, reverse, judge | geometry kernel |
| isolation | `cad2ml/parsers/isolation.py` | child process, pipe | `run_isolated`, `_child`, `report_progress` | worker's progress callback |
| extraction | `cad2ml/extraction.py`, `representations/`, `lineage.py` | arrays of one child | mesh, points, graph, views, checks, lineage, `trace_face` | geometry kernel, topology, recognizer |
| topology | `cad2ml/topology/` | face and edge records | canonical order, translation of references | geometry kernel |
| recognizer | `cad2ml/semantics/recognizer.py` | claimed faces, features | rules in a fixed order | topology |
| datasets | `cad2ml/datasets/builder.py` | `datasets/<id>/` | select, cluster, split, label, publish | store |
| training | `cad2ml/training/` | `training_runs/<id>/` | load, fit, select the best epoch, write checkpoint, predictions, experiment | store, datasets |
| predictions | `apps/api/main.py` | – | `GET .../predictions/{sample_id}` | store, checkpoint |
| corpus, evaluation, CLI, configuration, observability | remaining packages | – | – | – |

What is hard about it:

* **Several workers and no locks.** Every worker claims, reaps expired leases and
  reconciles the queue. The only synchronisation is a compare-and-set on the
  *state* of a row; it compares neither the worker nor the attempt.
* **Two or more transactions for one logical step**: submit (four steps), requeue
  after a lost worker (three), settle after an exception (two).
* **A second thread per worker** that refreshes a lease, and that stops at SIGTERM
  while the job goes on.
* **A transport that may forget everything** or deliver twice.
* **Several calls for one sample** (two jobs with different fault parameters, a
  worker and the command line, forced reruns) over plain directory operations.
* **A child process** that may hang, die or answer at the moment of the deadline, and
  whose verdict about a file is stored for good.
* **A repair of geometry by tools that may do anything** to the shape.
* **Versions and runs of two or three files each**, written one after the other by
  builders and trainers that overlap and die, read by requests that look at one file to
  conclude that the others are there, over samples that are processed again meanwhile.
* **Union-find over a relation that is not transitive**, and small-number cases of
  the split rules.
* **Ids that must not depend on the kernel's listing**, and arrays tied together only
  by numbers: face records, mesh, points, graph, masks and lineage of one sample.
* **Rules that compete for faces**: a wall of a slot may also be the wall of a pocket,
  half a bore may pass for a fillet.

What makes each part correct is listed with its module below; every hazard, at its
line, is in `PROJECT.json`.

## 2. Modules

| module | models | checked through |
|---|---|---|
| `JobStates` | `states.py` | – |
| `JobLifecycle` | what a reader of one row may see (abstract) | refined by `Jobs` |
| `Jobs` | API submission, workers, reaper, reconciler, queue, clocks, crashes | `MCJobs` |
| `JobsProofs` | theorems about `Jobs`: with any number of workers, then with one | TLAPS |
| `Submission` | identical uploads and submissions, row creation | itself |
| `SubmissionProofs` | theorems about `Submission` | TLAPS |
| `Samples` | overlapping calls of `process_source` over the store | `MCSamples` |
| `SamplesProofs` | theorems about `Samples` | TLAPS |
| `IsolatedCall` | what a caller of `run_isolated` may rely on (abstract) | refined by `Isolation`, proved and checked in `Admission` |
| `Isolation` | parent, child, pipe and deadline of `run_isolated` | `Admission` |
| `Admission` | one call of `process_source` for one file: intake, two isolated children, parser, repair, outcome; composes `Isolation` | `MCAdmission` |
| `AdmissionProofs` | theorems about `Admission` and `Isolation` | TLAPS |
| `Topology` | canonical order of faces and edges, references between records | `Extraction` |
| `Recognizer` | the four rules and how their candidates claim faces | `Extraction` |
| `Extraction` | the stages of `extract_child` with the two above, output checks, `trace_face` | `MCExtraction` |
| `ExtractionProofs` | theorems about `Topology` and the records, points and lineage of `Extraction` | TLAPS |
| `RecognizerProofs` | theorems about `Recognizer`, and with them the types and output checks of `Extraction` | TLAPS |
| `Datasets` | selection, clusters, split units, assignment | `MCDatasets` |
| `DatasetsProofs` | theorems about `Datasets` | TLAPS |
| `Versions` | what the dataset store and its table promise (abstract) | refined by `Publication` |
| `Publication` | builders, trainers and prediction requests over changing samples | `MCPublication` |
| `PublicationProofs` | theorems about `Publication` | TLAPS |

Each of the three abstract specifications is instantiated by the module that implements it
(`Lifecycle`, `Call` and `Store`, each `INSTANCE ... WITH` a mapping); the mapping is checked
by TLC as a `PROPERTY` and proved step by step.

Operators named `Bug...` are wrong forms of the operator after them. No
specification uses them; each shows that a property notices that mistake.

### Jobs

`state`, `attempts`, `owner` (column `worker_id`), `lease` and `aged` are columns of
`jobs`. Clock values are reduced to what the code compares: a lease is absent, in
the future or in the past; a row is younger or older than `min_age_s`.
`queuedEvents` counts the `queued` rows of `job_events`. `queue` is the Valkey list.
A worker is `pc` (its next transaction, command or decision) and the locals that
live across transactions: `job`, `cur` (`state["cur"]` of the progress callback,
later the state that the exception handler read), `stage`, `att` (the attempt it
believes to run), `rows` (the reaper's select), `ids` (the reconciler's sets).

One action is one transaction, one Valkey command, or one decision. A process may
die between any two (`Crash`, `ApiCrash`). Points worth knowing:

* `Transition` is `Database.transition` with a legal pair; a lost compare-and-set
  changes nothing, and only those callers look at the result that do so in the code:
  `ReapRequeue` enqueues whether or not the row moved. An illegal pair raises and
  leads to the handler of `handle()` (`ExceptRead`, `ExceptFail`), which reads the row
  and then writes to it.
* The reaper keeps the rows its select returned (`rows`) and works through them in
  any order, with the attempts as they were then (`AfterReap`).
* Ids of workers are never used twice, so the id of a dead process is `None` in
  `owner`, and the list `processing:<dead id>` is read by nobody: `job[w]` stands for
  the entry while the process lives. `release_worker` therefore finds nothing.
* SIGTERM sets `stopping`: the heartbeat thread waits on that event and ends at once
  (main.py:59), the main thread finishes its job first. `LeaseExpires` takes the lease of
  whoever is not beating; `LeasePaused` (bounded) that of one who is, since a
  heartbeat that fails is logged and skipped.
* The retryable branch of `_run_processing` is for `STORAGE_IO_ERROR`, which no code
  raises at present; it is modelled, and `Outcomes` of a run may include it.
* An exception outside the `try` of `handle()` ends the process: it is a `Crash`.

### Submission

Requests with the same bytes, hence one hash and one idempotency key. Rows are named
by the request that inserted them. `InsertFile` and `InsertJob` fail if the unique row
exists; only `submit_job` catches that (`Reselect`). A retry after an error is another
member of `Request`.

### Samples

`dir` is `samples/<id>` with its manifest, its artifacts (`parts`, by the call that
wrote them) and temporary files; `superseded`, `staging` and `quarantine` are the other
trees. `pc` names the next file-system step of a call. `exists` followed by `get_bytes`
or `os.replace` is two steps; `put_bytes` is `mkdir`, write, `os.replace`. A call that
raises runs its `finally` clause, a call that dies does not. Which way extraction ends
is a choice (`Ends`); a parse that fails counts as an extraction that has written
nothing. Writing the artifacts one by one is one step, since nobody looks into another
call's staging directory. The names under `superseded/` carry a time stamp in
microseconds and are taken to be different. `named` says whether this call's file name
has an accepted extension: sample ids depend on the bytes alone, so a misnamed copy
given to the command line has the id of the sample it fails for.

### Isolation and Admission

`Isolation` has the steps of the protocol, without a specification of its own: the child
reports stages, sends one result in two steps (it may be longer than the pipe) and closes;
it may hang in native code, or die at any point, in the middle of a message too. The
parent's `poll` sees the deadline first. `AnswerOf` is the translation of how the loop ended
into what `run_isolated` returns or raises. The pipe is first in, first out, so two counters
and the state of the result describe it. `EndOf` is what `recv` makes of a pipe that ends:
`EOFError` between two messages, `OSError` in the middle of one.

`IsolatedCall` gives every kind of answer its one cause (`Deserved`): the deadline has passed,
the caller's callback has raised, the child wrote this word to its end and all its progress was heard,
or it died of itself before that. The docstring (isolation.py:4-6) promises "results,
progress messages, or a structured error"; two answers are neither. "callback" is the caller's own
exception. "os_error" is what a caller gets for a child that dies in the middle of its last word:
the code translates `EOFError` only. The specification names this answer, and allows it in that
case alone.

`Admission` lets the two children decide something. `file` is the upload as a record of what
each check would find in it; `IntakeCode`, `ParseCode` and `RepairCode` are the checks of
`inspect_upload`, of the parser and of the repair in their order. In the second child
`normal` is the next step of `validate_and_repair`, `shape` is what `diagnose` says of the
current shape, `notes` are the changes it records. `ShapeFix_Shape` and the measured
deviations may yield anything. `Fail` and `Complete` are the ends of `process_source`;
`pinned` says whether the manifest is stored (environment-sensitive codes are not).
`MCAdmission` holds the failure fixtures of `synthetic/corpus.py`, each with the codes the
corpus expects, and a damaged file for every diagnosis. The duplicate of the corpus is not among them:
it is an upload of known bytes, which `Submission` has.

### Extraction, Topology, Recognizer

One behaviour is the extraction of one shape, a stage per action; the recognizer takes
a step per rule (`NextRule`; the holes take three) and per candidate (`Claim`). `input` is the shape together
with the order in which the kernel lists its faces and edges. `Listed` is that listing,
`FaceRecords` and `EdgeRecords` are what `extract_entities` makes of it.

* Geometry is on a grid. The direction of a plane or an axis is one of three, `line`
  says which axis line, `radius` and `pos` are numbers, `span` counts quarter turns, and
  the `pos` of an edge is its place along the axis of the bore it bounds. Tolerances are
  exact comparisons, so the model says nothing about nearly parallel or nearly tangent
  faces.
* Faces are numbered from 1, in arrays too; a mask uses 0 for the background and wraps at
  `MaskIds` as a 16-bit image does. Ranges are half open and start at 0, as in the code.
* A pixel shows an arbitrary triangle or nothing. The checks on coordinates, normals and
  areas are one choice, `numeric`; each of the others is a `Check` of its own.
* `MCExtraction` puts shapes together from features (bores, steps, floors, slots,
  pockets, blends), and `outcomes` says which answers fit the way a shape was built.
  A list of two outcomes, as for the clevis on two axes or the divided slot, means that
  the order of the keys decides.

### Datasets

The phases of `build_dataset` up to the splits. Who looks like whom is an arbitrary
symmetric relation, because `is_near_duplicate` is tolerant and hence not transitive.
`Unite` is union-find as in `_UF`; halving of paths changes no root and is left out.
`UniteAll` joins a set of pairs one after the other, in the order in which the two loops of
the code meet them. `Linked` says without union-find what it should come to: no set of
samples that is closed under "same group or alike" has one of the two without the other.
The permutations of the seeded generator are arbitrary permutations. `RoundSixth` is
Python's `round(n / 6)`, which rounds halves to even.

### Publication

A sample is `manifest` and `parts`, the order of the faces in its artifacts; `NumFaces` says how
many faces an order lists. The id of a sample depends on its bytes, the configuration and two
version numbers (pipeline.py:6), not on the kernel or the extractor, so that a rerun may list
other faces, or the same ones in another order. `Supersede`,
`Promote` and `FailInPlace` are what `Samples` lets a reader see of a forced rerun and of a
failure. A version's id is the hash of its content, so here it *is* its content: for each sample
nothing, "excluded", or the face order in the two files that were read for it. `labels` and
`dataset` are its two files, `listed` the table. A builder is `bpc` and its locals: it lists
the manifests, reads them, reads `brep.json` and the point cloud of each sample in two
steps, looks for the version, writes its files and, through the API, its row. A trainer
loads the labels and one graph after the other (`graphs`), each after a look at the ids of its
faces. These are positions, F000, F001 and so on (canonical.py:86), so that `Aligned` compares
numbers of faces, as the code does without meaning to. The trainer then writes the checkpoint, the
predictions and the experiment record. The record of a file is who wrote it last: that is
`created_at`. A reader is one request for predictions, one file access per step. `early`
and `disturbed` are history: the request began before the run was recorded, or a sample
changed while it ran.

## 3. Runs

| run | expected | what it shows |
|---|---|---|
| `JobsTwoWorkers` | pass | claims, attempts, heartbeats, intermediate rows and queued ids with two workers, a crash and a SIGTERM; how far `max_attempts` is exceeded; refinement of `JobLifecycle` |
| `JobsOneWorker` | pass | the promises about leases and `failed_terminal` hold with one worker at a time; queued jobs are served, in-flight jobs end |
| `JobsStaleReaper` | violation | a job is tried more often than `max_attempts` |
| `JobsHalfReaped` | violation | a job stays in `failed_retryable` for ever |
| `Submission` | pass | one row, one announcement, every answer reaches the queue |
| `Samples` | pass | completed samples are whole, found and kept; no staging is left |
| `SamplesHollow` | violation | a directory without a manifest swallows every later result |
| `Admission` | pass | `run_isolated` implements `IsolatedCall` and always returns; every file is stored with the code its author expects or is not stored; nothing is completed that is not the file's solid or a recorded repair |
| `Extraction` | pass | ids independent of the listing, features that partition the faces and are those of the shape, arrays that agree |
| `Datasets` | pass | no leakage between splits in group mode; no needlessly empty split |
| `Publication` | pass | versions appear whole, stay, and are announced once (refinement of `Versions`); recorded runs are whole, with a node for each label; recorded runs answer |
| `TrainedInDisorder` | violation | a run is trained on a graph that lists the faces in another order than the labels |

Bounds, and why they are enough:

* `Jobs`: the interesting conflicts are between a stale actor and a current one for
  one row, so one job and two workers show them; the rows of two jobs interact only
  through the order of the queue. `MaxAttempts = 2` separates the first, a retried
  and an exhausted attempt. One crash, SIGTERM, pause or loss of the queue may
  come at any point; a second one mostly repeats the first (`JobsHalfReaped`, where
  the job must first lose its worker and then its reaper, has two).
  `JobsOneWorker` has a process and a training job, because `max_attempts` differs.
* `Submission`: of three requests one creates, one loses the race and one comes late.
* `Samples`: of three calls one publishes, one supersedes and one fails.
* `Admission` has no bounds but the three stages that the code has; its files are one per
  check, and one per diagnosis of a damaged part.
* `Publication`: two builders of one version overlap or one dies, one trainer and one request
  meet the version at any point. With one sample and three face orders, two of which list the
  same number of faces, all of it is about one id; two changes are a forced rerun that puts another
  order in its place. Several samples
  would differ only in the passes over them, which the proofs treat for any number.
  The builders are symmetric, and so are the two orders of the same faces.
* `Extraction`: every rule has a shape that it accepts, and there are shapes that two
  rules or two candidates want: a lug whose end passes for a blend, a floor with a
  hole in it, a slot whose floor is divided (the only one that makes `Claim` drop a
  candidate). Each comes with four combinations of listing and keys, one of which has
  keys that tell no two neighbours apart. With `NumPoints = 24` and `MinPoints = 2` some
  shapes have points left over for the shares and others, with twelve faces and more, do not.
  One shape has a face without triangles. One pixel is enough, since pixels do not interact.
* `Datasets`: with four samples there are chains of likeness of length three across
  four groups, families with one to four units (the rule changes at two and at
  four), and one to four families. Group mode fixes the first sample to group 1 and
  family 1, since names carry no meaning beyond their order.

`CHECK_DEADLOCK FALSE` is set where the system comes to an end: all calls, requests or
phases are done. The job system never deadlocks.

Fairness. `Jobs`: requests and main threads go on, a lease nobody refreshes expires,
rows age, the heartbeat thread beats, and a dead worker is started again
(`restart: unless-stopped` in `docker-compose.yml`); all of it weak fairness. Crashes,
signals, pauses and losses are never fair. `Submission`: a request that has not died
goes on. `Admission`: the parent's thread and clock go on, and a child does not stop
*in the middle of a message*; nothing else is assumed of it, it may hang in the
kernel for ever. Without that last assumption `recv` would block beyond the deadline
(see the hazards). `Samples`, `Extraction`, `Datasets` and
`Publication` are checked for safety only.

## 4. What the models show

Holds, in every interleaving examined: each entry of a job into `queued` is
claimed once; a stale and a current worker never hold the same attempt, and the stale
one's heartbeat does not reach the current lease; every change of a row follows the
state machine; identical submissions share one job and queue it once; a completed
sample is whole wherever it is read, and no rerun, forced or not, loses artifacts; a
timeout or native crash is never stored as the outcome of a sample; the parent of an
isolated child returns after the child is gone, and each kind of answer has its one cause; what is
stored for a file for good is that file's own verdict, whatever becomes of the children (an
exception, which a full disk causes as well, is the one exception); no repair is
completed unrecorded or out of tolerance; a dataset version appears with its labels and
stays; a recorded training run was trained on graphs with one node for each label and
answers predictions; the records of a sample do not depend
on the kernel's listing as long as the keys differ, its features share no face, and each
face can be followed through all its arrays; near-duplicates are on one side
of a split.

Does not hold (runs that expect a violation, and `findings` in `PROJECT.json`):

* `max_attempts` can be exceeded, because a reaper acts on an old select; by fewer attempts
  than there are workers (`OverrunBounded`), which is as many as it gets: three workers do
  reach `max_attempts + 2`. A job that is allowed one attempt, as every training run is, is never
  tried twice (`TriedOnce`).
* A crash between the two transactions of a requeue strands the job. The same
  happens in `received` and `validated` when the API dies in `submit_job`;
  `NobodyStranded` and `AnsweredIsQueued` say what holds as long as nobody dies: then every row
  in between is moved on, and, unless the queue is lost, every queued id is delivered.
* A crash in `put_bytes` leaves a directory that makes every later result vanish.
* The check against a "label/graph face order mismatch" (data.py:48) compares ids that are positions,
  and notices another number of faces only. If a sample is processed again, with its faces in
  another order, after its `brep.json` was labelled, a run is trained, and recorded, with labels on the
  wrong faces; so it is if the point cloud that the labels are computed from is the newer one.

Three statements of the documentation are also not kept, without a run of their own:

* "The parent only receives JSON-serialisable results, progress messages, or a structured error"
  (isolation.py:4-6): a child killed in the middle of a message makes `run_isolated` raise `OSError`.
  `IsolatedCall` has it as an answer of its own, and `Admission` leads it past the manifest
  (`CallRaises`).
* "The first held-out unit goes to val or test (alternating across families), all others to train"
  (builder.py:123-124, `assign_splits`): from four units on a second one is held out (149-150), as `Place`
  has it. `EveryFamilyIsTrained` says what the code keeps: at most one unit of a family goes to val, at most one
  to test, and one is left. Families of one unit, too, take their turn in the alternation, though they hold out
  nothing.
* "Holes as stacks of full, concave, coaxial cylindrical segments" (recognizer.py:248): a step is
  followed to any bore that it leads to, coaxial or not, as in `StepFrom`.

Also visible in the models, but without a run of their own: a worker that is being drained
sends no heartbeats and may fail its successor's attempt for good; a forced rerun that fails
replaces the manifest of a completed sample and leaves its artifacts; the
reconciler may enqueue an id that a worker has just taken (the claim then fails
harmlessly); of two forced reruns at the same time one loses its result silently;
between the two renames of a forced rerun there is no sample; a killed call leaves
its staging directory behind for good; the second of two concurrent first uploads
gets an error; overlapping builders of one version write `dataset.json` twice, with two
`created_at`, although `builder.py:13` says "an existing version is never overwritten" (what the id is the
hash of is the same; `quality`, which is not hashed, may differ too, since it looks again at which
artifacts exist); a build during a forced rerun may take `brep.json` of one result and the point cloud
of the next, and nothing compares them, unless the cloud has fewer faces; a run that
died between its checkpoint and its experiment record answers predictions with an error of
the server instead of "unfinished", for ever; no volume ever leads to
`DEGENERATE_GEOMETRY` (`extraction.py:110`), because the orientation check rejects a solid whose
volume is not positive first; a unit of group mode that spans families counts
for the family of its last sample; with fewer than three families, family mode leaves
nothing to train on or to validate with.

## 5. Proofs

All theorems are about the specifications TLC runs, for every value of the constants
that satisfies the named assumptions in the modules (`ConstantsAssumption`,
`RequestAssumption`, `CallAssumption`, `NoneAssumption`, `ExtractionAssumption`,
`FileAssumption`, `NumSamplesAssumption` and their like): finite bounds on crashes and the
like play no part in them.

* `JobsProofs`. `TypeInv` strengthens `TypeOK` by the fact that a worker in the middle of
  a job has one. `NextRowStep` reduces every action to what it does to the rows: nothing, a
  creation, a claim, or a legal move by compare-and-set; it needs `FailReadsLive` (the
  exception handler writes only to a state it has read and that is not terminal).
  `ClaimedOnce` and the refinement `LifecycleImplemented` follow from it. `DistinctAttempts`
  and `OwnHeartbeats` rest on `HandsInv`: the attempt in a worker's hands is at most the
  row's count, equal if the worker still owns the row, and different from that of
  every other holder; a claim, which counts up, is the only step that gives out an
  attempt. `NoneStranded` follows each intermediate row to the actor that moves it on,
  and each id from the hands that push it through the list to the hands that claim it
  (`NextDelivery`).
* `SubmissionProofs`. `RequestInv` says for each `pc` what the request has established;
  the insert happens only into an empty table, so the creator is unique.
* `SamplesProofs`. `Inv` joins what is known of a call from its `pc` (`CallInv`: what it has
  come to; `StagingInv`: its staging directory is complete while it promotes) with what
  is known of published directories (`DirInv`) and, for calls that neither force nor
  fail, of the one directory (`QuietInv`). The invariants TLC checks are conjuncts or
  consequences; `ArtifactsKept` is the action property.

* `JobsProofs`, second part. Three promises of the documentation are broken by workers that
  overlap (`docker-compose.yml` starts two; `JobsStaleReaper`) and kept by one that is alone, which
  may die and start again. The hypothesis `Alone` says that `Worker` has no two members.
  `SoleInv` says what overlap destroys: what the reaper or the handler has read of a row
  (`SelectedAsItIs`, `DecidedAsItIs`) is still so when it acts on it, and a row is queued only
  while it may be tried again. `SoleAttempts` and `SoleLeases` follow (`SoleAttempts` states the
  `AttemptsBounded` that `JobsStaleReaper` refutes for two workers). `SoleExhaustion` also
  assumes `NothingRaised`, a pipeline that does not raise or give up, as the promise itself
  does; its `InStep` keeps the stage of a running job and the state of its row together, so
  that no report of progress is ever an illegal move.
* `JobsProofs`, attempts with any number of workers. `OverrunsAreFew` counts *bids*: a worker bids
  for a job while what it has read lets it requeue the job though its attempts may be spent by
  then. `OverrunInv` says that attempts and open bids together stay below
  `max_attempts` plus the number of workers. A worker starts to bid only when it reads a row whose attempts are
  not spent (`NoNewBid`), and then the bids of all others cannot fill the sum; a job that is
  queued with spent attempts was requeued on a bid, which that uses up; and a worker that
  claims does not bid (`BidderCounts`). The only hypothesis is that `Worker` is
  finite. `TriedOnce` needs none: a job in flight has begun its first attempt (`OnceInv`), so
  that with one attempt allowed nothing that is ever read of it permits a retry. No run
  checks it: the job that `JobsTwoWorkers` gives its two workers is a process job.
* `ExtractionProofs`. `PartitionInv` adds to `FeaturesPartition` that nothing is claimed before
  the rules run (`WaitingInv`), that `claimed` covers every feature so far (`ClaimedInv`),
  and that the leftovers cover the rest (`EndInv`). That proof uses nothing of the rules:
  whatever candidates a rule returns, for any shape, no face ends in two features.
  `Canonically`: if keys differ, the position of an item is the rank of its key, which is the same
  under any listing, and each of the four kinds of references is translated by it (`RecordsInv`).
  `StoredTraceable`: the arrays of a stored sample are the ones its stages made (`StageInv`) of
  records that refer to each other symmetrically (`WellFormed`); each range of `Ranges` begins
  where the one before it ends, so that `Owners` puts in it just what its face owns.
  `FairAllocation` is arithmetic of the largest remainder: the floors of the shares leave fewer
  points than faces (`LeftOvers`), these go one each to as many faces (`FirstOnes`), and the
  order by remainder does not turn the order by area around (`Follows`). Shares are compared
  multiplied out, as in the model. It needs areas that do not sum to zero: `extract_child`
  turns such a shape away before anything is counted (extraction.py:109), and `IsShape` says so.
* `RecognizerProofs`. Every rule proposes features of known types with faces of the sample,
  whatever the geometry (`RulesInv`); with the arrays (`ArraysInv`) this is `ExtractionTypes`.
  `GenuineFailures` goes through the output checks one by one: ranges cover their arrays, ids
  are positions, and graph and records agree on which faces are adjacent, where the same
  seams and self loops are left out. What can fail is what the kernel did. The rules are folds
  over lists; that a fold exists as the function its definition chooses, and stays where its
  steps stay, is proved once (`FoldExists`, `FoldStays`), by induction with a *set* of numbers,
  since induction theorems that take an operator cannot be used.
* `DatasetsProofs`. The parent function of `_UF` is a forest whose links lead to smaller
  numbers (`Forest`), so roots exist (`RootUnfolds`); `UniteRoots` says that joining two
  samples merges their trees and no others. Over the fold, the trees are the components of
  the pairs joined so far, in terms of closed sets on both sides: those with one root are a
  closed set, and no closed set splits a tree (`AllUnited`). It is used twice, for clusters of
  samples and for units of groups, where a cluster is joined through its first sample only
  (`UnitsLink`). For the splits, a permutation gives the units of a family different positions
  (`OrdersNumber`), which decide where they go (`PlaceTrains`, `PlacesDiffer`); `HeldFits`
  says that of three families or more, those held out for val and for test leave some over.

* `AdmissionProofs`. `IsolationInv` is the truth about one call: what the child's state says
  of its word and the pipe (`ChildInv`), and that the reason the loop ended for is a fact
  (`ParentInv`: a result was written to its end after all progress was heard; the end of
  the pipe means that the child died of itself, and `OSError` that it did so in the middle of its
  word; the deadline has passed, a message was heard). With it every step maps to a step of
  `IsolatedCall` or a stutter. `FollowsProtocol` shows that `Admission` takes no other
  steps. `RepairInv` says for each step of the repair what has been recorded, and
  `StageInv` that nothing is extracted from a shape that was not accepted. That a list of checks
  answers "OK" only if none fails (`FirstFails`) needs the least element of a set of
  numbers, which `WFMin` of the library gives for the relation `<` as a set.
  `JudgedByTheFile` is about what is stored for good. `Verdicts` is what a file may get for what
  is in it, a function of the file alone; `VerdictInv` says why the shape is where it is in the
  repair (`CauseInv`), how far the file has got, and that the code in the pipe is one of its
  verdicts or a crash (`WordInv`). The hypothesis `ExpectationsFit`, that each author expects all
  verdicts of the file, is a table to be looked up and holds of the files of `MCAdmission`. What
  the theorem adds is that no dead child, deadline or half-written message ever stores
  anything else but `INTERNAL_ERROR`.
* `PublicationProofs`. `Inv` has a conjunct per kind of actor. `VersionInv`: a `dataset.json` has
  its labels, a row its version, and two builders that inserted the row of one version
  are one. `TrainerInv`: the graphs loaded so far have a node for each of their labels, which is all
  that the check of the code establishes; `RunInv`:
  who wrote the experiment record has done all of it. `ReaderInv`: what the request has seen is
  still there unless it is disturbed. `BuilderAlone`, `TrainerAlone` and `ReaderAlone` say once
  that a step of one actor which takes nothing from the store leaves the others' promises
  alone. `VersionsImplemented` maps `PutDataset`, `InsertRow` and `AnswerCreated` to the three steps of
  `Versions`, and every other step to a stutter.

Only model-checked: liveness (`QueuedIsServed`, `InFlightEnds`, `AnsweredIsQueued`,
`Returns`), which is beyond this prover; and `AsBuilt`, which compares what the rules find
with the way the shapes of `MCExtraction` were built and says nothing about other shapes.

## 6. Not modelled

The geometry kernel and everything numeric (reading, meshing, the position of points and
pixels, tolerances, optimisation and metrics of training, evaluation): their verdicts are
choices in the models, attributes of a file, or, for the recognizer, comparisons on a grid.
The generators of the synthetic families and the projection of labels are geometry; of the
corpus only the failure fixtures are modelled, as inputs. Schemas, configuration, logging,
metrics, migrations, benchmark scripts and the static pages have no behaviour of their own.
HTTP reads that only return what a row or a file says are not modelled.

## 7. Plan

Done, in this order: `JobStates`, `Jobs`, `JobLifecycle`; `Submission`; `Samples`;
`Isolation`; `Datasets`; `Topology`, `Recognizer`, `Extraction`; `IsolatedCall`, `Admission`;
`Versions`, `Publication`; proofs for all of them.

Left:

1. `Jobs` with the pipeline composed: the reuse of a stored sample by a retried job.
2. `Publication` with several configurations of a run, and the command line's trainer beside
   the worker's, for `experiment` records that replace each other.
