CONSTANTS
  Plan <- OnePlan
  Id <- TwoIds
  PlanOf <- TwoPlanOf
  Row <- OneRow
  First <- OneFirst
  Download = {}
  InitPolicy <- OneAsk
  MaxConcurrent = 2
  MaxPerPlan = 2
  MaxChannels = 2
  MaxIdle = 1
  MaxPendingCancels = 4
  MaxConn = 2
  MaxBrowse = 2
  MaxRetries = 0
  MaxCancels = 0
SPECIFICATION FairSpec
INVARIANT WaitersMatchPrompts
PROPERTIES QueuedJobLeaves CancelledJobEnds
CHECK_DEADLOCK FALSE
