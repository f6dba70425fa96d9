SPECIFICATION Spec
CONSTANTS
  Addrs = {a1}
  Timestamps = {t1}
  FragMod = 3
  MaxFrag = 3
  Expiry = 1
  MaxImages = 2
  None = None
INVARIANTS
  OneImageAtATime
