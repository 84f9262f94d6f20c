\* Two runs with two calls between them, under each set of configured modes.
CONSTANTS
  Tools <- MCTools
  Variants <- MCVariants
  HashInt <- MCHashInt
  Calls <- MCCalls
  Results <- MCResults
  Predictions <- MCPredictions
  Intents <- MCIntents
  ModeSets <- MCModeSets
  Seeds = {3}
  LastSeed = 5
  MaxRuns = 2
  MaxCalls = 2
  MaxScored = 1
SPECIFICATION SchemaSpec
CHECK_DEADLOCK FALSE
INVARIANTS
  ExportedIsExecuted
  VerdictIsRuntime
  ReconciledIsOneCall
