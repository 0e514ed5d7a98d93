SPECIFICATION Spec
CONSTANTS
  Lba = {1, 2, 3}
  Data = {a, b}
  JLba = {3}
  CacheSize = 2
  MaxRef = 1
  MaxWriteBack = 1
  Faults = FALSE
INVARIANTS TypeOK LruTotal DirtyTracked DurableWhenPut
PROPERTIES StoreSpec CacheBound EvictionSaves
