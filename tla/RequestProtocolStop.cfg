SPECIFICATION Spec
CONSTANTS
    Requests = {r1, r2}
    Buffered = {r1}
    MayBeMalformed = {}
    MayTimeOut = {r1}
    MayBeRefused = {}
    MainResources = {r1}
    MayDie = FALSE
    LongBodies = {r2}
    MaxChunks = 2
    PipeSize = 1
    MaxPreconnects = 1
    None = None
INVARIANTS AssertionsHold
CHECK_DEADLOCK FALSE
