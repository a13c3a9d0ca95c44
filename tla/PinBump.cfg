SPECIFICATION Spec
CONSTANTS
  N = 3
  Digests = {"d1", "d2", "d3"}
  NoDigest = NoDigest
  First = "d1"
INVARIANTS
  TypeOK
PROPERTIES
  OkMeansLanded
  AgreeingTreeBumps
