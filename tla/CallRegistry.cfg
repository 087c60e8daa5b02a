SPECIFICATION Spec
CONSTANTS
  i1 = i1
  i2 = i2
  CallIds = {i1, i2}
  Inbound = {i1}
  Workers = {w1}
  Messages <- MCMessages
  Traffic <- MCTraffic
  MaxCalls = 1
  LoadLimit = 2
  TaskStates = {"Rejected", "Failed", "Terminated"}
  ShortIds = {}
  Covers <- MCCovers
  MaxBirths = 2
  MaxTimers = 2
INVARIANTS UniqueIds WriteOnce FilesFinished GoneStaysGone FlushPending EndedStaysEnded
PROPERTIES TrimRestoresCap
