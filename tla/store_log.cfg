\* Messages may share a millisecond; the clock only moves forward.  The rows
\* of one session are enough: every statement names its session.
SPECIFICATION Spec
CONSTANTS
  Sessions = {s1}
  Workspaces = {a, b}
  None = None
  Limit = 2
  Retention = 1
  Ttl = 3
  MaxTime = 4
  MaxAppends = 4
INVARIANTS TablesAgree
PROPERTIES RefinesBoundedLog
CHECK_DEADLOCK FALSE
