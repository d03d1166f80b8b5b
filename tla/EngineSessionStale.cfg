SPECIFICATION ESpec
CONSTANTS
  None = None
  Verbs <- ScanAndPing
  MaxRequests = 3
  MaxPulses = 1
INVARIANT UsableAfterCancelledScan
CHECK_DEADLOCK FALSE
