SPECIFICATION PanesSpec
CONSTANTS
    Dir = {d1, d2}
    MaxVersion = 2
    MaxActs = 4
    HistoryCap = 1
    None = None
    Server = {s1}
    Root = d1
    Shared = {}
    DebugBuild = TRUE
    MaxEpoch = 0
    MaxChanges = 0
    MaxMoves = 0
    CommandCap = 1
    MailboxCap = 1
INVARIANT PaneSettles
CHECK_DEADLOCK FALSE
