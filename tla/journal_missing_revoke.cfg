SPECIFICATION Spec
CONSTANTS
  Home = {1, 2}
  JSize = 12
  Junk = junk
  MaxTrans = 3
  MaxCrash = 0
  TagsPerDesc = 2
  Overlap = TRUE
  Frees = TRUE
  Aborts = FALSE
  Stops = FALSE
  Faults = FALSE
INVARIANTS Recoverable
CHECK_DEADLOCK FALSE
