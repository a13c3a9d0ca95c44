SPECIFICATION Spec
CONSTANTS
  OtherScanners = {}
  Findings <- MCFindingsTrivy
  CveIds <- MCCveIds
  Purls <- MCPurls
  Trees <- MCTreesTrivy
  Starts = 2
INVARIANTS StaleRecordIsUnused
CHECK_DEADLOCK FALSE
