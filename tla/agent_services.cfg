SPECIFICATION Spec
CONSTANTS
  None = None
  Customs = {"custom-a"}
  Local = {}
  Host = {"codex"}
  MaxScans = 2
  Phones = {ph1}
  MaxEndpoints = 2
  MaxSends = 1
  MaxRequests = 4
INVARIANTS
  ChoiceIsKept
  LiveStaysSubscribed
CHECK_DEADLOCK FALSE
