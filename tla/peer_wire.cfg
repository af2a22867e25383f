SPECIFICATION Spec
CONSTANTS
  ByteValues = 10
  HandshakeBytes = 2
  PeerMessages <- AnyMessage
  Asks <- TwoAsks
  BlockSize = 1
  Cuts = {3}
  MaxSent = 4
  MaxAsked = 2
CHECK_DEADLOCK FALSE
INVARIANTS
  KeepAliveIsChoke
  RequestsIntact
PROPERTIES
  FramingSpec
  ReadsReturn
