\* Fourteen solids under four combinations of kernel order and sort keys, and one with a
\* face that got no triangles.
SPECIFICATION Spec
CONSTANTS
  Inputs <- MCInputs
  Pixel = {p1}
  MaskIds = 65536
  MinTriangles = 1
  NumPoints = 24
  MinPoints = 2
  FloorLimit = 8
  SmallRadius = 2
INVARIANTS
  TypeOK
  CanonicalRecords
  FeaturesPartition
  AsBuilt
  AllocationFair
  Traceable
  OnlyGenuineFailures
CHECK_DEADLOCK FALSE
