SPECIFICATION Spec
CONSTANTS
  ClockMod = 16
  IntRange = 64
  PerSecond = 10
  PerMilli = 3
  MaxTime = 250
INVARIANTS
  TypeOK
PROPERTIES
  DifferenceIsTime
