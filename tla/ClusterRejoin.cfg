CONSTANTS
  Addr = {a, b, c}
  PiggybackFactor = 1
  JoinSize = 2
  MaxWire = 1
  MaxLate = 0
  Troubles = {"leave"}
  Troubled = {a}
  MaxTrouble = 2
SPECIFICATION FairSpec
PROPERTIES ConvergesToOne
