\* A QR code is scanned on a page that has no connection; one socket at a time.
SPECIFICATION Spec
CONSTANTS
  Tokens = {t1}
  RelayTokens = {}
  Sockets = {k1}
  Calls = {c1}
  MaxStray = 1
  Acts = {"scan"}
  None = None
INVARIANT NeverStranded
