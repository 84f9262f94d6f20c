SPECIFICATION FairSpec
CONSTANTS
  Campaigns = 2
  Cases = 1
  Specs = {"a", "b"}
  Status = {"completed", "failed"}
  MaxFaults = 3
INVARIANTS
  RecordIsEvidence
  ManifestHonest
PROPERTIES
  NoRerunOfComplete
  CampaignFinishes
