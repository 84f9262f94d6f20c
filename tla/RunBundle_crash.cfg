CHECK_DEADLOCK FALSE
SPECIFICATION Spec
CONSTANTS
  Purpose = {"debug", "duplicate"}
  MaxRuns = 3
  MaxEvents = 3
  MaxPayloads = 2
INVARIANTS
  EventLogSound
  SealedIsWhole
PROPERTIES
  ImplementsContract
