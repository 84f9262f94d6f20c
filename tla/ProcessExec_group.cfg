CHECK_DEADLOCK FALSE
SPECIFICATION Spec
CONSTANTS
  c1 = c1
  c2 = c2
  Cmd <- OneCommand
  ExitCode <- SuccessOrFailure
  Unkillable = {}
INVARIANTS
  TimeoutEndsGroup
