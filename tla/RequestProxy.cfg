CONSTANTS
  s = s
  n1 = n1
  n2 = n2
  k1 = k1
  k2 = k2
  Nodes <- MCNodes
  Self = s
  Keys <- MCKeys
  Points <- MCPoints
  PointsOf <- MCPointsOf
  First <- MCFirst
  MaxRetries = 1
  Enforce = TRUE
  MaxChanges = 2
SPECIFICATION FairSpec
INVARIANTS
  TypeOK
  AnsweredOnce
  AttemptsBounded
  OwnerIfSettled
PROPERTIES
  Concludes
CHECK_DEADLOCK FALSE
