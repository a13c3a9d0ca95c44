SPECIFICATION Spec
CONSTANTS
  Packages = {"p", "q"}
  Jobs = {"pr1"}
  ListLimit = 2
  EscalateAfter = 1
  HeartbeatGap = 1
  People = {"close", "prioritise"}
  Hiccups = {"view", "verdict", "act", "timeout"}
  MaxIssues = 2
  MaxDay = 1
INVARIANTS
  TypeOK
  ClosedMeansAcceptable
PROPERTY ImplementsReviewQueue
