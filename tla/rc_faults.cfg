SPECIFICATION Spec
CONSTANTS
    p1 = p1
    p2 = p2
    s1 = s1
    s2 = s2
    Free = Free
    Orphan = Orphan
    NoToken = NoToken
    NoProc = NoProc
    Procs <- OneProcess
    Slots <- TwoSlots
    Events = {1}
    Segments = {1}
    InitialSegments = {1}
    Invalid = {}
    Requests = {1}
    EventChunk = 1
    RedisAtStart = TRUE
    Faults = {"crash", "outage", "lost reply", "slow run", "same ms", "db error", "rollback"}
INVARIANTS ProcessedCovered
PROPERTIES SettledOnce ImplementsEventLedger
SYMMETRY SlotSymmetry
