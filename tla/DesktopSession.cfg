SPECIFICATION DSpec
CONSTANTS
  None = None
  Verbs <- AllVerbs
  MaxRequests = 12
  MaxPulses = 1
  MaxScans = 2
  MaxExpansions = 1
INVARIANTS CompletedIsTrue LastProgressShown RowsAreOwn
PROPERTY ScanCommandEnds
CHECK_DEADLOCK FALSE
