\* Two proxy workers on one segment, so that one of them always sleeps; every
\* kind of path (two chunks, one, none, not cached); fair threads.
SPECIFICATION FairSpec
CONSTANTS
    Workers = {w1, w2}
    CacheWorkers = {c1, c2}
    NumSegments = 1
    Files = {"two", "one", "empty", "miss"}
    Cached = {"two", "one", "empty"}
    FileSize <- MCFileSize
    ChunkSize = 2
    MaxMsg = 1
    MaxRequests = 3
    SizeModulus = 16
    SendMayFail = FALSE
    StalePosts = 0
PROPERTY AnsweredUnlessStale
CHECK_DEADLOCK FALSE
