SPECIFICATION FairSpec

CONSTANTS
  Verticals = {"lambda", "dynamodb", "s3"}
  StatesOf <- MCStatesOf
  Faults = 2

INVARIANT TypeOK

PROPERTIES
  GreenIsOurs
  LeftoversAreRepaired
