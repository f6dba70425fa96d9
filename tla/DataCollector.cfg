SPECIFICATION FairSpec
CONSTANTS
  Addrs = {a1}
  Timestamps = {t1}
  FragMod = 3
  MaxFrag = 4
  Expiry = 1
  MaxImages = 3
  None = None
INVARIANTS
  TypeOK
  PublishedIsWhole
  NothingCompleteWaits
PROPERTIES
  FinishedBucketsGo
