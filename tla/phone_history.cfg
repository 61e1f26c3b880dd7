SPECIFICATION ChatSpec
CONSTANTS
  a = a
  b = b
  Session = Session
  Nothing = Nothing
  Workspaces = {a, b}
  MaxMessages = 1
INVARIANTS
  ChatTypeOK
  HistoryIsNeverMixed
