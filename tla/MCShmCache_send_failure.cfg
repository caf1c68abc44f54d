\* Two proxy workers on one segment; gfs_send may fail.
SPECIFICATION Spec
CONSTANTS
    Workers = {w1, w2}
    CacheWorkers = {c1, c2}
    NumSegments = 1
    Files = {"two", "one", "miss"}
    Cached = {"two", "one"}
    FileSize <- MCFileSize
    ChunkSize = 2
    MaxMsg = 1
    MaxRequests = 3
    SizeModulus = 16
    SendMayFail = TRUE
    StalePosts = 0
CHECK_DEADLOCK FALSE
INVARIANT ReplyIntegrity
