\* A worker dies between the two transactions of a requeue.
SPECIFICATION FairSpec
CONSTANTS
  Job = {j1}
  TrainJobs = {}
  Worker = {w1, w2}
  None = None
  MaxAttempts = 2
  Outcomes = {"completed"}
  MaxCrashes = 2
  MaxStops = 0
  MaxPauses = 0
  MaxLosses = 0
PROPERTY RetryableMovesOn
