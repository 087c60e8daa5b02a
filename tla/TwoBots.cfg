SPECIFICATION FairSpec
CONSTANTS
  Configs <- MCConfigs
  CancelProb = 30
  Draws <- MCDraws
  Timer = FALSE
  Endless = TRUE
  MaxEvents = 2
  MaxStops = 1
INVARIANT CallerEndKnown
PROPERTIES CallerEndsCallee CalleeEndsCaller CalleeEndKnown
CHECK_DEADLOCK FALSE
