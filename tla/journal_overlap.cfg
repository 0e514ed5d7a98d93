SPECIFICATION Spec
CONSTANTS
  Home = {1, 2}
  JSize = 12
  Junk = junk
  MaxTrans = 3
  MaxCrash = 2
  TagsPerDesc = 1
  Overlap = TRUE
  Frees = FALSE
  Aborts = TRUE
  Stops = FALSE
  Faults = FALSE
INVARIANTS Recoverable ReadsLatest RecordsLinked
CHECK_DEADLOCK FALSE
