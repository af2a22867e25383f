SPECIFICATION Spec
CONSTANTS
  Width = 4
  MaxSize = 40
  BlockSize = 2
CHECK_DEADLOCK FALSE
INVARIANTS
  BytesInPlace
  StoredIsWhole
  CompletableSizes
