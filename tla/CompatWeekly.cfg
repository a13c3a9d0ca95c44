SPECIFICATION FairSpec
CONSTANTS
  N = 2
  Digests = {"d1"}
  NoDigest = NoDigest
  Rows = {"lambda", "s3"}
  CompatSite = 2
  TriggerSites = {1}
  BranchTrees <- MCLostDigest
INVARIANTS
  TypeOK
PROPERTIES
  DriftGetsIssue
