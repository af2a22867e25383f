SPECIFICATION Spec
CONSTANTS
  PiecesNum = 3
  Sessions = {s1, s2, s3}
  MaxReceived = 5
INVARIANTS
  TypeOK
  NothingAbandoned
  ExitAwaitsWriter
PROPERTIES
  ProcessExits
