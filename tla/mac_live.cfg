SPECIFICATION FairSpec
CONSTANTS
  a = a
  b = b
  Nodes = {a, b}
  Ids = {i1, i2}
  NoPDU = NoPDU
  MaxRetries = 0
  RingSize = 2
  MaxBebRetry = 1
  BebWrap = 1
  UniqueIds = TRUE
  MaxSends <- OnlyA
  MaxRxQueue = 1
  MaxHandedUp = 2
  MaxRestarts = 1
INVARIANT NoFalseSuccess
PROPERTIES EveryFrameSettles RadioRecovers
CHECK_DEADLOCK FALSE
