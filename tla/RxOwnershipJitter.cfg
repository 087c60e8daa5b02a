SPECIFICATION RxSpec
CONSTANTS
  Mids = {m1}
  Agents = {a1, a2}
  Echo = echo
  Jitter = TRUE
  MaxFrames = 2
INVARIANT RecordYields
SYMMETRY Symmetry
CHECK_DEADLOCK FALSE
