CONSTANTS
  Addr = {s, p}
  Self = s
  Peer = p
  PiggybackFactor = 2
  MaxTime = 2
  Batches <- MCBatches
SPECIFICATION FairSpec
PROPERTIES
  SuspectBecomesFaulty
