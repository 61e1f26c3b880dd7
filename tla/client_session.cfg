\* Rotations, refused refreshes, reconnects and a restart of the agent.
SPECIFICATION Spec
CONSTANTS
  Sockets = {k1, k2, k3, k4}
  Tasks = {t1, t2}
  MaxSession = 2
  MaxRestarts = 1
  None = None
SYMMETRY Symmetry
INVARIANTS NeverStranded SessionIsTimed FileNamesSession
CHECK_DEADLOCK FALSE
