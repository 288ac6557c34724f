CONSTANTS
  Addr = {a, b, c}
  PiggybackFactor = 1
  JoinSize = 2
  MaxWire = 1
  MaxLate = 0
  Troubles = {"failure", "crash", "restart", "leave"}
  Troubled = {a}
  MaxTrouble = 1
SPECIFICATION Spec
INVARIANTS
  TypeOK
  IncarnationsOwned
PROPERTIES
  ImplementsViews
SYMMETRY Symmetry
