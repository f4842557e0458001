\* Datasets of up to four samples.
SPECIFICATION Spec
CONSTANTS
  Sample <- Samples4
  Group <- Groups4
  Family <- Families4
  Inputs <- MCInputs
CHECK_DEADLOCK FALSE
INVARIANTS
  UnitsAreComponents
  EveryFamilyIsTrained
  NoSplitIsEmpty
