SPECIFICATION PanesSpec
CONSTANTS
    Server = {s1, s2}
    Dir = {d1, d2}
    Root = d1
    Shared <- OneShared
    DebugBuild = TRUE
    MaxEpoch = 2
    MaxChanges = 1
    MaxMoves = 3
    CommandCap = 2
    MailboxCap = 1
    HistoryCap = 1
    None = None
    MaxVersion = 0
    MaxActs = 0
INVARIANT PaneShowsItsPlace
PROPERTY LoadingEnds OwnChangesShow
CHECK_DEADLOCK FALSE
