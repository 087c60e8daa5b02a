SPECIFICATION Spec
CONSTANTS
  Calls = {c1}
  Configs <- MCRejectConfigs
INVARIANT FinishedFlushed
CHECK_DEADLOCK FALSE
