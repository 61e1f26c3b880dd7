\* Two messages are relayed within one millisecond.
SPECIFICATION Spec
CONSTANTS
  Sessions = {s1}
  Workspaces = {a}
  None = None
  Limit = 3
  Retention = 2
  Ttl = 3
  MaxTime = 2
  MaxAppends = 3
INVARIANT ReplayInOrder
CHECK_DEADLOCK FALSE
