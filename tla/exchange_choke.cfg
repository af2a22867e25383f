SPECIFICATION Spec
CONSTANTS
  a = a
  b = b
  Peers <- TwoPeers
  Length = 3
  PieceLength = 2
  BlockSize = 1
  ParallelReqsNum = 2
  Bitfields <- FullBitfield
  ByteBits = 2
  MaxChokes = 1
  LateAnswers = TRUE
  Corruption = TRUE
SYMMETRY Symmetry
INVARIANTS
  Conservation
  ClaimHasOwner
PROPERTIES
  VerifiedKept
  DiscoverySpec
