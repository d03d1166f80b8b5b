SPECIFICATION XSpec
CONSTANTS
  None = None
  Verbs <- CommandLineVerbs
  MaxRequests = 3
  MaxPulses = 2
INVARIANTS RunsContained PeersAgree StdoutContract ExitJustified
PROPERTY InvocationEnds
CHECK_DEADLOCK FALSE
