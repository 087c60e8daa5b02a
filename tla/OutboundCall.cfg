SPECIFICATION FairSpec
CONSTANTS
  Total = 2
  CancelProb = 30
  Draws <- MCLowDraws
  Timer = FALSE
  Endless = TRUE
  MaxEvents = 1
INVARIANTS NobodyLeft
PROPERTIES ServiceSpec StopEnds PeerByeEnds
CHECK_DEADLOCK FALSE
