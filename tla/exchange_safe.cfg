SPECIFICATION Spec
CONSTANTS
  a = a
  b = b
  Peers <- TwoPeers
  Length = 3
  PieceLength = 2
  BlockSize = 1
  ParallelReqsNum = 1
  Bitfields <- SomeBitfields
  ByteBits = 2
  MaxChokes = 1
  LateAnswers = FALSE
  Corruption = FALSE
SYMMETRY Symmetry
INVARIANTS
  TypeOK
  ClaimsExclusive
  CompletionSound
  CompletionNoticed
  FileComplete
  RequestsAnnounced
PROPERTIES
  StatusFinal
  VerifiedStays
  LedgerSpec
