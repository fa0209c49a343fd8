SPECIFICATION Spec
CONSTANTS
  a = a
  b = b
  c = c
  Nodes = {a, b}
  Gateway = Gateway
  WanNodes = {}
  Uplinks = {}
  IDs = {i1, i2}
  Ports = {p}
  MaxRetries = 1
  RingSize = 1
  RoutesMayMiss = TRUE
  Senders = {a}
  MaxOutstanding = 2
  MaxRelays = 1
  MaxUplinks = 1
  MaxHandedUp = 4
  MaxFrames = 3
SYMMETRY IDSymmetry
INVARIANTS OneResult NoneForgotten NoFalseSuccess RetryBound NoEarlyRepeat
CHECK_DEADLOCK FALSE
