\* One process job, two workers: a crash and a drained worker, each at
\* any point.  The pipeline may end in every way.
SPECIFICATION Spec
CONSTANTS
  Job = {j1}
  TrainJobs = {}
  Worker = {w1, w2}
  None = None
  MaxAttempts = 2
  Outcomes = {"completed", "rejected", "failed_retryable", "raise"}
  MaxCrashes = 1
  MaxStops = 1
  MaxPauses = 0
  MaxLosses = 0
SYMMETRY Symmetry
INVARIANTS
  TypeOK
  ClaimedOncePerQueueing
  AttemptsAreDistinct
  HeartbeatKeepsOwnAttempt
  NobodyStranded
  OverrunBounded
PROPERTY ImplementsLifecycle
