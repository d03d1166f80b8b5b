SPECIFICATION XSpec
CONSTANTS
  None = None
  Verbs <- CommandLineVerbs
  MaxRequests = 3
  MaxPulses = 1
INVARIANT GapsMeanFinished
CHECK_DEADLOCK FALSE
