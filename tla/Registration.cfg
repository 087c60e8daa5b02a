SPECIFICATION RegFairSpec
CONSTANTS
  Margin = 3
  Retry = 1
  Grants <- MCGrants
  Timeout = 2
  Lag = 1
  MaxGen = 2
INVARIANTS ShownIsBound
PROPERTIES BoardForward BoardCatchesUp StaysRegistered ContactFades
