SPECIFICATION FairSpec
CONSTANTS
  a = a
  b = b
  c = c
  Nodes = {a, b, c}
  Gateway = Gateway
  WanNodes = {b}
  Uplinks <- DetourUplinks
  IDs = {i1}
  Ports = {p}
  MaxRetries = 1
  RingSize = 2
  RoutesMayMiss = FALSE
  Senders = {a, b}
  MaxOutstanding = 1
  MaxRelays = 1
  MaxUplinks = 1
  MaxHandedUp = 4
  MaxFrames = 2
INVARIANT SuccessIsAnswered
PROPERTY EverySegmentSettles
CHECK_DEADLOCK FALSE
