SPECIFICATION Spec
CONSTANTS
  DeviceLen = 24
  BlocksPerGroup = 8
  BitsPerBlock = 8
  FirstDataBlock = 0
  InodesPerGroup = 2
  InodesPerBlock = 1
  DescPerBlock = 8
  SparseSuper = TRUE
  Word = 1024
  Faults = TRUE
INVARIANTS OwnedIsMarked CountsMatch SearchEnds NoSpaceMeansFull
