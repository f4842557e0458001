\* Three identical submissions, one of which may die at any point.
SPECIFICATION FairSpec
CONSTANTS
  Request = {r1, r2, r3}
  None = None
  MaxCrashes = 1
CHECK_DEADLOCK FALSE
INVARIANTS
  OneJob
  AnnouncedOnce
PROPERTY AnsweredIsQueued
