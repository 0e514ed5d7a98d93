SPECIFICATION Spec
CONSTANTS
  Home = {1, 2}
  JSize = 7
  Junk = junk
  MaxTrans = 3
  MaxCrash = 2
  TagsPerDesc = 2
  Overlap = FALSE
  Frees = TRUE
  Aborts = FALSE
  Stops = FALSE
  Faults = FALSE
INVARIANTS Recoverable QueueFillsLog SpaceReclaimed
CHECK_DEADLOCK FALSE
