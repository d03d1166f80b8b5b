SPECIFICATION SSpec
CONSTANTS
  None = None
  Verbs <- AllVerbs
  MaxRequests = 3
  MaxPulses = 2
INVARIANTS AnsweredExactlyOnce ProgressOrdered CancelledWhenAsked PagesAreCurrent
PROPERTY ReturnsOrLeaves
CHECK_DEADLOCK FALSE
