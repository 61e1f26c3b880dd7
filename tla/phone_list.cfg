\* A terminal is opened over the relay.
SPECIFICATION FairPageSpec
CONSTANTS
  Null = Null
  Modes = {"relay"}
  Names = {"bash"}
  MaxOpen = 1
PROPERTIES ListFollows
CHECK_DEADLOCK FALSE
