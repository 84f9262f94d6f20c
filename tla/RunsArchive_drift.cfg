CHECK_DEADLOCK FALSE
SPECIFICATION Spec
CONSTANTS
  Group = {"g1", "g2"}
  Purposes = {"debug", "superseded"}
  Days = {0, 119, 120}
  Dests = {"d1", "d2"}
  MaxWrites = 1
  MaxCommands = 3
INVARIANTS
  VerifiedIsFaithful
  DestinationIsWhole
  DeletionWaits
