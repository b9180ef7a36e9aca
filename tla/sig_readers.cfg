SPECIFICATION Spec
CONSTANTS
    Evaluators = {v1, v2}
    v1 = v1
    v2 = v2
    Clients = {k1}
    RecentCap = 2
    RecentDefault = 1
    HistoryCap = 2
    HistoryDefault = 1
    NoLimit = NoLimit
    Limits <- LimitsDef
    MaxTime = 2
    MaxRuns = 3
    MaxLosses = 1
SYMMETRY Symmetry
INVARIANTS TypeOK RecentIsLatest SignalsPersisted Reconciled CaughtUp HistoryReplays
