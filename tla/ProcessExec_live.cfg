\* One command, which may be signalled (c1) or not (c2).
CHECK_DEADLOCK FALSE
SPECIFICATION FairSpec
CONSTANTS
  c1 = c1
  c2 = c2
  Cmd <- TwoCommands
  ExitCode <- SuccessOrFailure
  Unkillable = {c2}
CONSTRAINT
  OneStarts
PROPERTIES
  BackgroundSettles
  
