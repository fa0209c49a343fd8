SPECIFICATION Spec
CONSTANTS
  a = a
  b = b
  c = c
  Nodes = {a, b}
  Gateway = Gateway
  WanNodes = {b}
  Uplinks <- GatewayUplinks
  IDs = {i1, i2}
  Ports = {p}
  MaxRetries = 1
  RingSize = 2
  RoutesMayMiss = FALSE
  Senders = {a, b}
  MaxOutstanding = 1
  MaxRelays = 1
  MaxUplinks = 1
  MaxHandedUp = 4
  MaxFrames = 2
SYMMETRY IDSymmetry
INVARIANTS OneResult NoStuckSegment
CHECK_DEADLOCK FALSE
