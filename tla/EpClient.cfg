SPECIFICATION FairSpec
CONSTANTS
  Devices = {d1}
  ClockMod = 6
  SyncMod = 3
  PingInterval = 1
  AssocInterval = 2
  RxTimeout = 3
  MaxGap = 1
  EP_LOG_LEVEL = 3
INVARIANTS
  TypeOK
  SilenceIsNoticed
  TimestampIsTimeSinceSync
  CameraOnMeansSending
PROPERTIES
  TimeoutIsGenuine
  PollKeepsTalking
  NoSessionDuringUpdate
  ConnectionNeverHangs
  ImplementsSession
