CONSTANTS
  Addr = {1, 2, 3, 4}
  Local = 2
  Initial = {1, 2, 3}
  MaxReorders = 1
  None = None
SPECIFICATION FairSpec
INVARIANTS
  TypeOK
PROPERTIES
  RoundIsComplete
  ServedAgain
