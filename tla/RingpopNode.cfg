CONSTANTS
  Addr = {s, p}
  Self = s
  Peer = p
  PiggybackFactor = 2
  MaxTime = 3
  Batches <- MCBatches
SPECIFICATION FairSpec
INVARIANTS
  TypeOK
  LocalView
  TimersGuardSuspects
  RingFollowsMembership
  RumoursAreCurrent
  DestroyedIsQuiet
PROPERTIES
  SuspectPeriodEnds
  SuspectPeriodKept
  ImplementsDetection
