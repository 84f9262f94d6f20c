CHECK_DEADLOCK FALSE
SPECIFICATION ShellSpec
CONSTANTS
  c1 = c1
  c2 = c2
  Cmd <- TwoCommands
  ExitCode <- SuccessOrFailure
  Unkillable = {c2}
INVARIANTS
  SessionIdHonoured
  RepliesAreTrue
PROPERTIES
  NoSignalAfterReap
  LateCallEndsSession
