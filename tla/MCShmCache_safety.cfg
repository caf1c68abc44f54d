\* Three proxy workers on two segments, two cache workers and three
\* requests: a worker may have to sleep for a segment, and a segment is used
\* again while a cache worker may still wait on it.  The processes may stop:
\* the clients make three requests only, and a lost post stops them earlier.
SPECIFICATION Spec
CONSTANTS
    Workers = {w1, w2, w3}
    CacheWorkers = {c1, c2}
    NumSegments = 2
    Files = {"two", "one", "miss"}
    Cached = {"two", "one"}
    FileSize <- MCFileSize
    ChunkSize = 2
    MaxMsg = 1
    MaxRequests = 3
    SizeModulus = 16
    SendMayFail = FALSE
    StalePosts = 0
SYMMETRY WorkerSymmetry
INVARIANTS TypeOK ReplyIntegrity NoOverwrite CacheSurvives
PROPERTY ServiceRefined
CHECK_DEADLOCK FALSE
