SPECIFICATION DSpecSilentEngine
CONSTANTS
  None = None
  Verbs <- AllVerbs
  MaxRequests = 6
  MaxPulses = 1
  MaxScans = 1
  MaxExpansions = 0
PROPERTY CancelIsBounded
CHECK_DEADLOCK FALSE
