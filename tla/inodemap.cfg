SPECIFICATION Spec
CONSTANTS
  RootMax = 2
  BlkMax = 3
  InodeGoal = 0
  DirectCount = 1
  PerBlock = 2
  TableGoal = 9
  NBlk = 8
  Pool <- Blocks
  Images <- AllImages
  MaxCalls = 4
  Targets <- AllTargets
  Quotas = {0, 1, 2, 3, 9}
  Avoid = {"prepend", "hole_cut", "restore", "half", "three"}
INVARIANTS BlocksAccounted TreeShaped
PROPERTIES MapSpec
CHECK_DEADLOCK FALSE
