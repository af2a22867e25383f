SPECIFICATION Spec
CONSTANTS
  PiecesNum = 2
  Sessions = {s1}
  MaxReceived = 2
INVARIANTS
  PrintedIsStored
