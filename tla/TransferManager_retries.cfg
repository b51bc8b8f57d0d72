CONSTANTS
  Plan <- OnePlan
  Id <- OneIds
  PlanOf <- OnePlanOf
  Row <- OneRow
  First <- OneFirst
  Download = {"a"}
  InitPolicy <- OneOverwrite
  MaxConcurrent = 2
  MaxPerPlan = 2
  MaxChannels = 2
  MaxIdle = 2
  MaxPendingCancels = 4
  MaxConn = 1
  MaxBrowse = 0
  MaxRetries = 2
  MaxCancels = 1
SPECIFICATION Spec
INVARIANTS CountersAgree OwnedOnce RootRunsAlone ClearsOnlyUntouchedTree IdlePlanKeepsNothing
PROPERTIES CancelledJobNeverStarts OneOutcomePerAttempt
CHECK_DEADLOCK FALSE
