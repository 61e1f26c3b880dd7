\* The chat target and the launches, with the agent and over the relay.
SPECIFICATION PageSpec
CONSTANTS
  Null = Null
  Modes = {"local", "relay"}
  Names = {"DevBridge 1", "DevBridge Codex CLI"}
  MaxOpen = 1
INVARIANTS ChosenIsOffered LaunchingIsTimed
CHECK_DEADLOCK FALSE
