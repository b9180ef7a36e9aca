SPECIFICATION Spec
CONSTANTS
    p1 = p1
    p2 = p2
    s1 = s1
    s2 = s2
    Free = Free
    Orphan = Orphan
    NoToken = NoToken
    NoProc = NoProc
    Procs <- OneProcess
    Slots <- OneSlot
    Events = {1}
    Segments = {1, 2}
    InitialSegments = {1, 2}
    Invalid = {1}
    Requests = {}
    EventChunk = 1
    RedisAtStart = TRUE
    Faults = {}
INVARIANT SettledReflected
