\* Everything a user does, with the agent and with the relay.
SPECIFICATION Spec
CONSTANTS
  Tokens = {t1, t2, t3}
  RelayTokens = {t2, t3}
  Sockets = {k1, k2}
  Calls = {c1}
  MaxStray = 1
  Acts = {"reload", "pair", "scan", "clear", "switch"}
  None = None
SYMMETRY Symmetry
INVARIANTS RightToken ConnectedIsWelcome
