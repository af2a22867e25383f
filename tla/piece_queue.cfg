SPECIFICATION Spec
CONSTANTS
  a = a
  b = b
  c = c
  Pieces <- ThreePieces
  Levels <- AnyLevel
  DiskFails = TRUE
  Destroyed = Destroyed
INVARIANTS
  TypeOK
  PopAlone
  LossHasCause
PROPERTIES
  FifoSpec
  WriterEnds
