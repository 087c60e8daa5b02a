SPECIFICATION Spec
CONSTANTS
  Calls = {1, 2}
  Flow <- TwoFlows
  Jump <- BothJump
INVARIANT AloneAgrees
CHECK_DEADLOCK FALSE
