\* Two clients and two server threads on one file; a client may die in the
\* middle of a call, and a deadline may pass before the answer.  The clients
\* make a bounded number of calls, after which the system rests.
SPECIFICATION Spec
CONSTANTS
    Clients = {c1, c2}
    Threads = {h1, h2}
    Files = {"f"}
    Versions <- MCVersions
    Absent = absent
    NumInodes = 3
    MaxCalls = 4
    MayTimeOut = TRUE
    MayDie = TRUE
SYMMETRY CallSymmetry
INVARIANTS TypeOK StoresExclude LockHasOwner ServerFileWhole
PROPERTY FetchFaithful
CHECK_DEADLOCK FALSE
