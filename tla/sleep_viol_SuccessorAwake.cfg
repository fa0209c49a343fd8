SPECIFICATION Spec
CONSTANTS
  N = 3
  Cycle = 20
  Extra = 1
  Airtime = 1
  MaxSend = 2
  MaxData = 2
  Drift <- Exact
  Losses = TRUE
  MaxFaults = 0
INVARIANT SuccessorAwake
