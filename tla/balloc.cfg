SPECIFICATION Spec
CONSTANTS
  DeviceLen = 48
  BlocksPerGroup = 16
  BitsPerBlock = 16
  FirstDataBlock = 0
  InodesPerGroup = 10
  InodesPerBlock = 1
  DescPerBlock = 8
  SparseSuper = TRUE
  Word = 1024
  Inode = {i1}
  Goals = {0, 2, 9, 15, 18, 31, 33, 46, 48, 6200}
  Near = 8
  Faults = TRUE
INVARIANTS NoSharing NoLeak CountsMatch NoSpaceMeansFull
PROPERTIES NearestFirst
CHECK_DEADLOCK FALSE
