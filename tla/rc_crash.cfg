SPECIFICATION Spec
CONSTANTS
    p1 = p1
    p2 = p2
    s1 = s1
    s2 = s2
    Free = Free
    Orphan = Orphan
    NoToken = NoToken
    NoProc = NoProc
    Procs <- TwoProcesses
    Slots <- OneSlot
    Events = {1, 2}
    Segments = {1}
    InitialSegments = {}
    Invalid = {}
    Requests = {}
    EventChunk = 1
    RedisAtStart = TRUE
    Faults = {"crash"}
INVARIANTS TypeOK SingleWorker ProcessedReflected
SYMMETRY ProcSymmetry
