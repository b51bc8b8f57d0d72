SPECIFICATION FairSpec
CONSTANTS
  tab1 = tab1
  tab2 = tab2
  home = home
  other = other
  NoTab = NoTab
  Tabs = {tab1, tab2}
  ManualTabs = {tab1}
  Servers = {home}
  Paths <- FilePaths
  Targets <- FileTargets
  MaxSess = 2
  MaxStamp = 3
  MaxEpoch = 2
  MaxCheck = 2
  MaxFailed = 1
  MaxWork = 6
INVARIANT UploadAuthorised
PROPERTIES EditsNotLost CheckEnds
CHECK_DEADLOCK FALSE
