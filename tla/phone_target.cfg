\* The page is loaded again.
SPECIFICATION PageSpec
CONSTANTS
  Null = Null
  Modes = {"local"}
  Names = {"DevBridge 1"}
  MaxOpen = 1
INVARIANTS PageTypeOK TargetIsKept
CHECK_DEADLOCK FALSE
