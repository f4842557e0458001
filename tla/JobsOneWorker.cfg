\* A process job and a training job, one worker at a time: the stronger promises
\* hold when nobody else reaps or finishes while a worker is between two steps,
\* and everything that is delivered, claimed or lost is settled.
SPECIFICATION FairSpec
CONSTANTS
  Job = {j1, j2}
  TrainJobs = {j2}
  Worker = {w1}
  None = None
  MaxAttempts = 2
  Outcomes = {"completed", "timed_out"}
  MaxCrashes = 1
  MaxStops = 1
  MaxPauses = 1
  MaxLosses = 1
PROPERTIES
  OnlyExpiredLeasesAreReaped
  OnlyExhaustedJobsFail
  QueuedIsServed
  InFlightEnds
