SPECIFICATION Spec
CONSTANTS
    A = A
    B = B
    Clients = {A, B}
    Files = {f}
    Versions <- MCVersions
    Absent = Absent
    Hole = Hole
    Failed = Failed
    MaxQueue = 2
    Scenarios <- OneCreation
PROPERTIES
    DeletedByUsers
