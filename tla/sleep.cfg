SPECIFICATION FairSpec
CONSTANTS
  N = 3
  Cycle = 20
  Extra = 1
  Airtime = 1
  MaxSend = 2
  MaxData = 2
  Drift <- Late
  Losses = TRUE
  MaxFaults = 1
INVARIANTS AwakeUnlessLost DataIsChain NoneMissing
PROPERTIES SleepsAgain Rejoins
