SPECIFICATION TaskSpec
CONSTANTS
  ToolNames <- SmallStack
  Registered <- SmallStack
  MaxTurns = 3
  MaxCalls = 2
  MaxValidationAttempts = 2
  MaxRevisionAttempts = 2
  MaxFinishDeferrals = 2
INVARIANTS
  EvidenceIsFresh
