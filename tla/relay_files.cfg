\* File requests of a phone, their timers, and what eventually happens.
SPECIFICATION FilesSpec
CONSTANTS
  Sessions = {s1}
  Sockets = {k1, k2}
  Workspaces = {a}
  Requests = {r1, r2}
  Files = {f1}
  MaxOpen = 2
  None = None
INVARIANTS
  WaitingIsPending
PROPERTY SpinnerEnds
