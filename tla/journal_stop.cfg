SPECIFICATION FairSpec
CONSTANTS
  Home = {1, 2}
  JSize = 7
  Junk = junk
  MaxTrans = 3
  MaxCrash = 0
  TagsPerDesc = 2
  Overlap = TRUE
  Frees = FALSE
  Aborts = TRUE
  Stops = TRUE
  Faults = FALSE
INVARIANTS SettledWithoutJournal
PROPERTIES CallsReturn
CHECK_DEADLOCK FALSE
