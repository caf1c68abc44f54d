\* One worker, one segment, one cache worker and two requests in a row: the
\* second shm_create may wipe out the semW post of the first request.
SPECIFICATION FairSpec
CONSTANTS
    Workers = {w1}
    CacheWorkers = {c1}
    NumSegments = 1
    Files = {"two"}
    Cached = {"two"}
    FileSize <- MCFileSize
    ChunkSize = 2
    MaxMsg = 1
    MaxRequests = 2
    SizeModulus = 16
    SendMayFail = FALSE
    StalePosts = 0
PROPERTY EveryRequestAnswered
CHECK_DEADLOCK FALSE
