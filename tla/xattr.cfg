SPECIFICATION Spec
CONSTANTS
  Names = {"a", "b", "c", "d"}
  EntryLen <- EntryLens
  Values = {"zero", "short", "mid", "long"}
  ValueLen <- ValueLens
  Cap <- Caps
  Pool = {1, 2}
  Images <- Start
  MaxCalls = 4
  Avoid = {"zero", "exact", "ibody", "grown", "full", "shared"}
INVARIANTS RefsMatch AreasSound
PROPERTIES AttrSpec OthersUntouched
CHECK_DEADLOCK FALSE
