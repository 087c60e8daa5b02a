SPECIFICATION Spec
CONSTANTS
  SeqMod = 8
  TsMod = 16
  Ticks <- MCTicks
  Reasonable = 3
  Tolerance = 1
  Base = 6
  BaseTs = 14
  MaxPackets = 4
  MaxEvents = 1
  MaxJumps = 1
  Window = 2
INVARIANTS LossAccounted QuietMeansSmooth EchoContinuous
CHECK_DEADLOCK FALSE
