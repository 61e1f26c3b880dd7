\* Three messages of one socket, or two that two sockets bring.
SPECIFICATION BoundedSpec
CONSTANTS
  w1 = w1
  Nothing = Nothing
  Editors = {w1}
  Sockets <- TwoSockets
  Targets = {"bash", "terminal:DevBridge 1", "codex"}
  MaxMessages = 3
  MaxTerminals = 2
INVARIANTS
  LaunchComesFirst
  OnlyTheFirstWaits
  OncePerSocket
PROPERTIES
  EveryTextEntered
CHECK_DEADLOCK FALSE
