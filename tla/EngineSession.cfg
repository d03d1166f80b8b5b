SPECIFICATION ESpec
CONSTANTS
  None = None
  Verbs <- AllVerbs
  MaxRequests = 3
  MaxPulses = 2
INVARIANTS InOrderAnswers ScanCallSound
PROPERTY CallsReturn
CHECK_DEADLOCK FALSE
