SPECIFICATION FairSpec
CONSTANTS
  None = None
  Installed = {"codex-cli", "claude-cli"}
  Pipe = {}
  Urls = {u1, u2}
  MaxMessages = 2
  MaxRuns = 2
  MaxPrints = 0
PROPERTY PendingIsTypedWhileAlive
CHECK_DEADLOCK FALSE
