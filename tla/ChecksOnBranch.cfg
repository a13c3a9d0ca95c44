SPECIFICATION FairSpec
CONSTANTS
  Ids <- MCIds
  CveIds <- MCCveIds
  GhsaIds <- MCGhsaIds
  NoId = NoId
  Purls <- MCPurls
  Paths = {"p1"}
  Docs <- MCDocsScans
  Advisories <- MCAdvisories
  HandRows = {}
  InitLedger <- MCInitLedger
  RequiredChecks = {"npm", "grype", "osv", "drift", "revisit"}
  Reports = {"complete", "missing", "error"}
  MaxDay = 3
PROPERTIES
  TimeNeverGreens
  NewsNeverGreens
  DatedReReds
