SPECIFICATION Spec
CONSTANTS
  TicMod = 24
  FracMod = 2
  TicsPerSecond = 2
  YearStart <- McYearStart
  SecondsPerDay = 2
  Zones <- McZones
  MaxTime = 10
  Skew = 1
  Senders = {float}
INVARIANTS
  TypeOK
  ArithmeticExact
PROPERTIES
  TagDenotesStamp
CHECK_DEADLOCK FALSE
