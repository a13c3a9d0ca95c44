SPECIFICATION Spec
CONSTANTS
  N = 2
  Digests = {"d1", "d2"}
  NoDigest = NoDigest
  Rows = {"lambda"}
  CompatSite = 2
  TriggerSites = {1}
  BranchTrees <- MCHalfBumped
INVARIANTS
  JudgedIsPinned
  OneDriftIssue
  DriftIsWhatIsFiled
PROPERTIES
  GreenMeansHeld
