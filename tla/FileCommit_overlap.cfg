SPECIFICATION Spec
CONSTANTS
  sent = sent
  fetched = fetched
  Job = {sent, fetched}
  Upload = {sent}
  Overlap = TRUE
  Capacity = 2
  MaxTries = 2
  MaxFaults = 2
CHECK_DEADLOCK FALSE
INVARIANT
  TempSurvives
