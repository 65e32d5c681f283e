SPECIFICATION Spec
CONSTANTS
    Requests = {r1, r2}
    Buffered = {r1}
    MayBeMalformed = {r2}
    MayTimeOut = {r1}
    MayBeRefused = {r1}
    MainResources = {r1}
    MayDie = TRUE
    LongBodies = {r2}
    MaxChunks = 2
    PipeSize = 1
    MaxPreconnects = 1
    None = None
CHECK_DEADLOCK FALSE
INVARIANTS LoadsAccounted StopReleases
PROPERTIES LoadsEnd
