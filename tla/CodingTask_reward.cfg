SPECIFICATION FairTaskSpec
CONSTANTS
  ToolNames <- SmallStack
  Registered <- SmallStack
  MaxTurns = 3
  MaxCalls = 2
  MaxValidationAttempts = 1
  MaxRevisionAttempts = 1
  MaxFinishDeferrals = 1
INVARIANTS
  CompletionGate
  BudgetsHeld
  FinishAnswerStands
  GateAndAdviceAgree
  OutcomeConsistent
  FullRewardIsEarned
PROPERTIES
  OnlyAPassResolves
  TaskReturns
