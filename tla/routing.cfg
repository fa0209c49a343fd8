SPECIFICATION FairSpec
CONSTANTS
  a = a
  b = b
  g = g
  Nodes = {a, b, g}
  WanNodes = {g}
  Gateway = Gateway
  NoRoute = NoRoute
  NoDownlink = NoDownlink
  MaxTTL = 3
  TtlWrap = 6
  Ids = {1, 2, 3, 4}
  p = p
  q = q
  r = r
  s = s
  Packets = {p, q, r, s}
  AnswerTTLs = {0}
  Answers = {r, s}
  Traffic <- SomeTraffic
  Updates <- SomeUpdates
  InitialRoutes <- Lines
  MaxChanges = 1
  MaxReinits = 1
INVARIANTS TypeOK OwnFramesListed TtlNeverWraps HopsBounded
PROPERTIES ImplementsNetwork EveryPacketEnds
CHECK_DEADLOCK FALSE
