SPECIFICATION FairSpec
CONSTANTS
  w1 = w1
  w2 = w2
  Windows <- MCWindows
  Pipe <- MCPipe
  MaxStray = 1
  Installed = {"codex-cli"}
  None = None
INVARIANTS ActiveIsRegistered EditorAdapterIsLive EditorIsDescribed NeverStranded

PROPERTY WindowReturns
