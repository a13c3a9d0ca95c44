SPECIFICATION Spec
CONSTANTS
  Ids <- MCIds
  CveIds <- MCCveIds
  GhsaIds <- MCGhsaIds
  NoId = NoId
  Purls <- MCPurls
  Paths = {"p1", "p2"}
  Docs <- MCDocsMain
  Advisories = {}
  HandRows <- MCHandRows
  InitLedger <- MCInitLedger
  RequiredChecks = {"drift", "revisit"}
  Reports = {"complete"}
  MaxDay = 3
INVARIANTS
  TypeOK
  MainDialectsFresh
  MainLedgerReviewed
  OsvIgnoreIsBacked
