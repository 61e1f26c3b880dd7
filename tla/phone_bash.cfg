\* A terminal named bash is open.
SPECIFICATION PageSpec
CONSTANTS
  Null = Null
  Modes = {"local"}
  Names = {"bash"}
  MaxOpen = 1
INVARIANTS PageTypeOK TargetIsOffered
CHECK_DEADLOCK FALSE
