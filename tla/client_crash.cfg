\* The socket and the session a handler reads are not the ones it was made for.
SPECIFICATION Spec
CONSTANTS
  Sockets = {k1, k2, k3, k4}
  Tasks = {t1, t2}
  MaxSession = 2
  MaxRestarts = 0
  None = None
SYMMETRY Symmetry
INVARIANT KeepsRunning
CHECK_DEADLOCK FALSE
