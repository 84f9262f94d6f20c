CHECK_DEADLOCK FALSE
SPECIFICATION Spec
CONSTANTS
  Wrap = 1
  Dirs = {1, 2}
  Trajectories <- MCTrajectories
  Layouts = {"batch", "campaign"}
  Filters <- MCFilters
  MaxLengths = {2, 5}
  CharsPerToken = 3
  MaxCommands = 2
INVARIANTS
  TrainedTokensAreCalls
  VerifiedBundleIsOneBuild
  OutcomeMatchesManifest
  AcceptedIsConsumable
PROPERTY
  VerifyAgrees
