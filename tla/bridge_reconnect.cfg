\* A phone with a stored token; the servers come and go.
SPECIFICATION FairSpec
CONSTANTS
  Tokens = {t1, t2}
  RelayTokens = {t2}
  Sockets = {k1, k2}
  Calls = {c1}
  MaxStray = 1
  Acts = {"reload"}
  None = None
INVARIANTS AuthIsOffered OneSocket AgentRefusalRests
PROPERTY Recovers
