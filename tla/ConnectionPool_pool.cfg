SPECIFICATION FairSpec
CONSTANTS
  Tabs = {t1, t2}
  NoTab = NoTab
  MaxAttempts = 2
  MaxEpochs = 1
  Hops = 1
  Panics = TRUE
INVARIANTS SingleFlight EntryIsTended PromptsAwaited
PROPERTIES TabStopsWaiting LostConnectionLeaves
CHECK_DEADLOCK FALSE
