\* Two sessions share the process; their agents and phones overlap.
SPECIFICATION Spec
CONSTANTS
  Sessions = {s1, s2}
  Sockets = {k1, k2, k3}
  Workspaces = {a, b}
  Requests = {}
  None = None
SYMMETRY Symmetry
INVARIANTS TypeOK RoutingTableSound ActiveIsConnected PeerStatusCurrent NoPeerEntryLeak
PROPERTIES PhoneKeepsItsPlace AgentKeepsItsPlace
