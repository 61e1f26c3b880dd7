\* The relay refuses the phone's token.
SPECIFICATION Spec
CONSTANTS
  Tokens = {t1}
  RelayTokens = {t1}
  Sockets = {k1, k2}
  Calls = {c1}
  MaxStray = 1
  Acts = {"reload"}
  None = None
INVARIANT RefusalRests
