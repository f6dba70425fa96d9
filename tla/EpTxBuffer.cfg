SPECIFICATION Spec
CONSTANTS
  Timestamps = {0, 1023}
  Garbage = {0, 17, 46, 98, 255}
  GarbageWords = {0, 65535}
  MaxFrag = 3
  None = None
INVARIANTS
  TypeOK
  HeadersAreKnown
  FragmentsAreWhole
  LastIsLast
CHECK_DEADLOCK FALSE
