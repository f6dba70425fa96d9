SPECIFICATION FairSpec
CONSTANTS
  Devices = {d1}
  PingInterval = 1
  AssocInterval = 3
  RxTimeout = 3
  MaxGap = 1
  Faults = {"loss"}
  MaxEvents = 1
PROPERTIES
  SyncedIsAvailable
