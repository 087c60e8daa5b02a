SPECIFICATION FairSpec
CONSTANTS
  Total = 3
  Automatic = {1, 3}
  FixedPort <- MCFixedPort
  Tries = 7
  Settings = {1}
  Handlers = {h1, h2}
  MaxEdits = 2
INVARIANTS BotsFollowConfig AutoBinds
PROPERTIES AutoComesBack
CHECK_DEADLOCK FALSE
