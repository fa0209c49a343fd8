SPECIFICATION Spec
CONSTANTS
  a = a
  b = b
  Nodes = {a, b}
  Ids = {i1, i2}
  NoPDU = NoPDU
  MaxRetries = 1
  RingSize = 1
  MaxBebRetry = 1
  BebWrap = 2
  UniqueIds = TRUE
  MaxSends <- TwoEach
  MaxRxQueue = 1
  MaxHandedUp = 3
  MaxRestarts = 0
SYMMETRY NodeIdSymmetry
INVARIANTS TypeOK OneTimeout NoLostWakeup IdleListens RetryAccounting OneOutcomeInOrder NoEarlyRepeat
PROPERTIES ImplementsService
CHECK_DEADLOCK FALSE
