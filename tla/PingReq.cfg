CONSTANTS
  Addr = {t, p1, p2, p3}
  Target = t
  PingReqSize = 3
  MaxInc = 3
SPECIFICATION FairSpec
INVARIANTS
  TypeOK
  CalledBackOnce
  VerdictFits
PROPERTIES
  OnlyAliveIsSuspected
  Concludes
