SPECIFICATION Spec
CONSTANTS
  Peers = {p1, p2}
  PingInterval = 1
  RxTimeout = 2
  MaxSock = 1
  MaxMqtt = 1
INVARIANTS
  TypeOK
  OneEspPerPeer
  PeersFollow
  AllSyncedTogether
  CollectorKeepsUp
  WalkMissesOnlySuccessors
PROPERTIES
  ImplementsSession
SYMMETRY PeerSymmetry
