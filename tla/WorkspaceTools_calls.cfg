CHECK_DEADLOCK FALSE
SPECIFICATION Spec
CONSTANTS
  Families = {"claude", "codex"}
  Paths = {"p", "q", "g"}
  Forbidden = {}
  Protected = {"g"}
  Initial <- MCInitial
  Contents <- MCContents
  Strings = {"a", "c"}
  Patches <- MCPatches
  MaxClock = 2
  MaxCalls <- MCCalls
  MaxOutside = 1
INVARIANT
  DiffLandsWhereMade
PROPERTIES
  NoBlindOverwrite
  PatchIsPrefix
