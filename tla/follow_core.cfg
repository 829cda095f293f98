SPECIFICATION FairSpec
CONSTANTS
  N = 2
  Capacity = 1
  MaxLines = 1
  MaxDisturbances = 2
CHECK_DEADLOCK FALSE
INVARIANTS SignalsOwned NothingLeft ExitHonest
PROPERTIES ImplementsMerge AlwaysReturns
