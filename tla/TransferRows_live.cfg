SPECIFICATION FairSpec
CONSTANTS
  Files = 2
  Batch = 2
  Capacity = 2
  MaxAsks = 1
CHECK_DEADLOCK FALSE
PROPERTIES
  PlanEnds
  CancellingSettles
