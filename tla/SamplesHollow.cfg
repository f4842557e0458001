\* A call dies while it writes a failure manifest; another one completes.
SPECIFICATION Spec
CONSTANTS
  Call = {c1, c2}
  None = None
  Ends = {"completed"}
  MaxCrashes = 1
CHECK_DEADLOCK FALSE
INVARIANT AnsweredIsStored
