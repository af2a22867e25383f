SPECIFICATION ClientSpec
CONSTANTS
  a = a
  b = b
  Peers <- TwoPeers
  Length = 4
  PieceLength = 3
  BlockSize = 1
  ParallelReqsNum = 2
  Bitfields <- FullBitfield
  ByteBits = 2
  MaxChokes = 0
  LateAnswers = TRUE
  Corruption = FALSE
INVARIANTS
  RequestsBounded
PROPERTIES
  DownloadEnds
  EventuallyStored
