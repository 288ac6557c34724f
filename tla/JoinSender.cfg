CONSTANTS
  Hosts = {a, b, c, d, e, f}
  Preferred = {a, b, c}
  WantedSize = 2
  Factor = 2
  MaxJoinAttempts = 9
  Null = Null
SPECIFICATION FairSpec
INVARIANTS
  TypeOK
  JoinedOnce
  AskedInTurns
PROPERTIES
  DestroyedDoesNotJoin
  JoinEnds
CHECK_DEADLOCK FALSE
