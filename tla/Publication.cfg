\* Two builds, a training call and a request for predictions over one
\* sample, which is processed again.
SPECIFICATION Spec
CHECK_DEADLOCK FALSE
CONSTANTS
  NumSamples = 1
  forward = forward
  backward = backward
  refined = refined
  Order = {forward, backward, refined}
  NumFaces <- MCNumFaces
  Builder = {b1, b2}
  Trainer = {t1}
  Reader = {r1}
  MaxChanges = 2
  MaxCrashes = 1
  None = None
  Excluded = Excluded
INVARIANTS
  TypeOK
  RecordedRunIsWhole
  FinishedRunAnswers
PROPERTY ImplementsVersions
SYMMETRY Symmetry
