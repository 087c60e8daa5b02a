SPECIFICATION RxFairSpec
CONSTANTS
  Mids = {m1}
  Agents = {a1, a2}
  Echo = echo
  Jitter = FALSE
  MaxFrames = 4
INVARIANTS HandledOnce RecordYields
PROPERTIES StopEndsLoops
CHECK_DEADLOCK FALSE
