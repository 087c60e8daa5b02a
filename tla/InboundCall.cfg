SPECIFICATION FairSpec
CONSTANTS
  Calls = {c1}
  Configs <- MCConfigs
INVARIANTS SessionsReleased RecordEnds ByeBeforeClose
PROPERTIES EndReleases HangupEnds StopEnds
CHECK_DEADLOCK FALSE
