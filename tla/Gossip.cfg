CONSTANTS
  MaxStarts = 4
  PingSlots = {p1, p2}
SPECIFICATION FairSpec
INVARIANTS
  TypeOK
  OnePing
PROPERTIES
  PeriodsRecur
  StoppedDiesOut
