SPECIFICATION FairSpec
CONSTANTS
  sent = sent
  fetched = fetched
  Job = {sent, fetched}
  Upload = {sent}
  Overlap = FALSE
  Capacity = 2
  MaxTries = 2
  MaxFaults = 3
CHECK_DEADLOCK FALSE
INVARIANTS
  LeftoversOnRecord
  DestinationWhole
PROPERTIES
  OldKeptUntilReplaceable
  LeftoversReclaimed
