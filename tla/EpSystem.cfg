SPECIFICATION FairSpec
CONSTANTS
  Devices = {d1}
  PingInterval = 1
  AssocInterval = 3
  RxTimeout = 3
  MaxGap = 1
  Faults = {"loss", "duplicate", "crash"}
  MaxEvents = 4
INVARIANTS
  InStepUnlessMissed
PROPERTIES
  TimeoutMeansFault
  BothEndsAgree
