SPECIFICATION Spec
CONSTANTS
  BSize = 4
  Names = {"a", "b", "c", "d", "e", "f", "g", "h"}
  RecLen <- Lens
  Hash <- Hashes
  RootLimit = 2
  NodeLimit = 3
  Images <- Start
  MaxCalls = 4
  Quotas = {0, 1, 9}
  Avoid = {"sparse", "lost", "moved"}
INVARIANTS EntriesMatchSearch ReadsEachOnce
PROPERTIES DirSpec
CHECK_DEADLOCK FALSE
