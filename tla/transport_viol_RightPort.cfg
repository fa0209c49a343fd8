SPECIFICATION Spec
CONSTANTS
  a = a
  b = b
  c = c
  Nodes = {a, b}
  Gateway = Gateway
  WanNodes = {}
  Uplinks = {}
  IDs = {i1, i2}
  Ports = {p, q}
  MaxRetries = 1
  RingSize = 2
  RoutesMayMiss = FALSE
  Senders = {a}
  MaxOutstanding = 2
  MaxRelays = 1
  MaxUplinks = 1
  MaxHandedUp = 4
  MaxFrames = 3
INVARIANT RightPort
CHECK_DEADLOCK FALSE
