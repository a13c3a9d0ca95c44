SPECIFICATION FairSpec
CONSTANTS
  Packages = {"p"}
  Jobs = {"pr1"}
  ListLimit = 2
  EscalateAfter = 1
  HeartbeatGap = 1
  People = {"prioritise", "mislabel"}
  Hiccups = {"search", "fetch", "act", "timeout"}
  MaxIssues = 2
  MaxDay = 1
PROPERTIES
  AcceptableGetsClosed
  UnacceptableKeepsRed
  AgedIsRaised
