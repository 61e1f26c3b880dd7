\* An agent reconnects before the relay notices that its old socket is gone.
SPECIFICATION Spec
CONSTANTS
  Sessions = {s1}
  Sockets = {k1, k2}
  Workspaces = {a}
  Requests = {}
  None = None
INVARIANTS AgentReachable
