SPECIFICATION FairSpec
CONSTANTS
  Peers = {p1, p2}
  PingInterval = 1
  RxTimeout = 2
  MaxSock = 1
  MaxMqtt = 0
PROPERTIES
  SilentPeersAreDropped
  QueueIsSent
