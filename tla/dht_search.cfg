SPECIFICATION Spec
CONSTANTS
  a = a
  b = b
  n = n
  root = root
  Addresses <- TwoAddresses
  Nodes <- OneNode
  Bootstrap = root
  MaxPeers = 2
  MaxNodes = 2
  MaxStack = 2
INVARIANTS
  TypeOK
  OneSessionPerAddress
PROPERTIES
  PeersServed
  DiscoverySpec
  SearchStops
  WaitEnds
