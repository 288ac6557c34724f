CONSTANTS
  Addr = {a, b, c}
  PiggybackFactor = 1
  JoinSize = 2
  MaxWire = 1
  MaxLate = 1
  Troubles = {"failure", "crash", "leave"}
  Troubled = {a}
  MaxTrouble = 1
SPECIFICATION FairSpec
PROPERTIES Converges
