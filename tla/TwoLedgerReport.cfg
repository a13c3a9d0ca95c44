SPECIFICATION Spec
CONSTANTS
  OtherScanners = {}
  Findings <- MCFindings
  CveIds <- MCCveIds
  Purls <- MCPurls
  Trees <- MCTrees
  Starts = 3
INVARIANTS TypeOK DismissalIsHuman DriftIsReconciled
PROPERTIES RedGateIsShown
CHECK_DEADLOCK FALSE
