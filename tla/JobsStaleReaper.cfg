\* Two workers reap the same dead worker's job, one of them from an old select.
SPECIFICATION FairSpec
CONSTANTS
  Job = {j1}
  TrainJobs = {}
  Worker = {w1, w2}
  None = None
  MaxAttempts = 2
  Outcomes = {"completed"}
  MaxCrashes = 1
  MaxStops = 0
  MaxPauses = 0
  MaxLosses = 0
INVARIANT AttemptsBounded
