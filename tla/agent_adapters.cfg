SPECIFICATION FairSpec
CONSTANTS
  None = None
  Installed = {"codex-cli", "claude-cli"}
  Pipe = {p1}
  Urls = {u1}
  MaxMessages = 4
  MaxRuns = 2
  MaxPrints = 1
INVARIANTS
  MessagesInOrder
PROPERTIES
  PendingIsTyped
CHECK_DEADLOCK FALSE
