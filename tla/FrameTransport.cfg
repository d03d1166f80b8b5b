SPECIFICATION FSpec
CONSTANTS
  None = None
  Payloads <- TransportPayloads
  MAX_PAYLOAD_SIZE = 2
  PartialLimit = 2
INVARIANTS DeliveredWhole EndsForCause
PROPERTIES PatientNotForever ExitCompletes
CHECK_DEADLOCK FALSE
