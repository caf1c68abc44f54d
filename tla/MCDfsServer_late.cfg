\* Two clients, three server threads, so that a handler outlives its client's
\* patience.
SPECIFICATION Spec
CONSTANTS
    Clients = {c1, c2}
    Threads = {h1, h2, h3}
    Files = {"f"}
    Versions <- MCVersions
    Absent = absent
    NumInodes = 4
    MaxCalls = 4
    MayTimeOut = TRUE
    MayDie = FALSE
SYMMETRY CallSymmetry
INVARIANT OneWriter
CHECK_DEADLOCK FALSE
