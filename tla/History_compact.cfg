CHECK_DEADLOCK FALSE
SPECIFICATION Spec
CONSTANTS
  NoLimit = NoLimit
  Reserve = 1
  SummaryHeader = 1
  SummaryLine = 1
  Policies = {"full_history", "tail_window", "deterministic_compaction", "model_backed_compaction"}
  MessageLimits = {NoLimit, 4}
  TokenLimits = {NoLimit, 8}
  Sizes = {1, 3}
  MaxCalls = 1
  MaxTurns = 3
INVARIANTS
  CompactionKeepsHistory
  WholeTurns
  BudgetIsReported
  LineageHolds
  FirstCompactionVerifies
