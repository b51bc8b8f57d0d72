SPECIFICATION FairSpec
CONSTANTS
  Files = 2
  Batch = 2
  Capacity = 2
  MaxAsks = 2
CHECK_DEADLOCK FALSE
INVARIANTS
  RowsTellTheOutcome
  ConflictsAreLive
  PlanningCancelWins
PROPERTIES
  ImplementsLifecycle
