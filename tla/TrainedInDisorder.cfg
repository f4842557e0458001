\* A sample is processed again between the build of a version and a training
\* run on it; both orders list as many faces.
SPECIFICATION Spec
CHECK_DEADLOCK FALSE
CONSTANTS
  NumSamples = 1
  forward = forward
  backward = backward
  refined = refined
  Order = {forward, backward, refined}
  NumFaces <- MCNumFaces
  Builder = {b1}
  Trainer = {t1}
  Reader = {}
  MaxChanges = 2
  MaxCrashes = 0
  None = None
  Excluded = Excluded
INVARIANT TrainedInOrder
