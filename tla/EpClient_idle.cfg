SPECIFICATION FairSpec
CONSTANTS
  Devices = {d1}
  ClockMod = 8
  SyncMod = 2
  PingInterval = 1
  AssocInterval = 3
  RxTimeout = 3
  MaxGap = 1
  EP_LOG_LEVEL = 3
PROPERTIES
  IdleTriesToConnect
