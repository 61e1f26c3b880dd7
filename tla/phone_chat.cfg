SPECIFICATION FairChatSpec
CONSTANTS
  a = a
  b = b
  Session = Session
  Nothing = Nothing
  Workspaces = {a, b}
  MaxMessages = 2
INVARIANTS
  ScreenIsSaved
  HistoryIsOfItsWorkspace
PROPERTIES
  TypingEnds
  ChosenWorkspaceStays
