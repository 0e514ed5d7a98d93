SPECIFICATION Spec
CONSTANTS
  Names = {"a", "b"}
  Inodes = {1, 2, 3, 4}
  LinkMax = 4
  Systems <- Some
  MaxDepth = 3
  MaxSize = 2
  Avoid = {"hardlink", "cycle", "orphan", "halfway", "many"}
INVARIANTS LinksMatch NoOrphans
PROPERTIES TreeSpec
