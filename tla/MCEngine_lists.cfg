\* Lists of both tables, shorter and longer than the trim asks for.
SPECIFICATION Spec
CONSTANTS
  Table <- MCTables
  MinSamples = 4
  TrimFloor = 8
  MinVolume = 8
  MinSources = 3
  MaxAge = 2
  HalfLives = 2
CHECK_DEADLOCK FALSE
INVARIANTS
  OnlyFreshnessAges
  OrderFreeWhenClose
  RangeWithinBand
  RangeHoldsTheMiddle
