\* Three calls for one sample, of any kind and in any overlap, one of which may
\* die at any point.
SPECIFICATION Spec
CONSTANTS
  Call = {c1, c2, c3}
  None = None
  Ends = {"completed", "failed", "environment", "raise"}
  MaxCrashes = 1
SYMMETRY Symmetry
CHECK_DEADLOCK FALSE
INVARIANTS
  TypeOK
  CompletedIsWhole
  EnvironmentDoesNotPin
  SourceIsThere
  CompletedIsFound
  NoStagingLeft
PROPERTY ArtifactsAreKept
