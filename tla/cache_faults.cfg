SPECIFICATION Spec
CONSTANTS
  Lba = {1, 2}
  Data = {a, b}
  JLba = {2}
  CacheSize = 2
  MaxRef = 2
  MaxWriteBack = 1
  Faults = TRUE
INVARIANTS CleanMatchesDisk FlushListFlushable
PROPERTIES StoreSpec
