\* As MCShmCache_safety, but gfs_send may fail and the semaphore /CACHE holds
\* one post too many, so that the cache may exit in the middle of requests.
SPECIFICATION Spec
CONSTANTS
    Workers = {w1, w2, w3}
    CacheWorkers = {c1, c2}
    NumSegments = 2
    Files = {"two", "miss"}
    Cached = {"two"}
    FileSize <- MCFileSize
    ChunkSize = 2
    MaxMsg = 1
    MaxRequests = 3
    SizeModulus = 16
    SendMayFail = TRUE
    StalePosts = 1
SYMMETRY WorkerSymmetry
INVARIANTS SegmentOwnership OneAnswerPerRequest HeaderTruthful
CHECK_DEADLOCK FALSE
