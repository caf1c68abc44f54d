SPECIFICATION Spec
CONSTANTS
    ParameterSets <- MCParameterSets
    CrcMessages <- MCMessages
    CheckMessage <- Digits
    Contents <- MCContents
    Missing = Missing
    BufferSize = 4
    MaxChanges = 1
    Threads = {1, 2}
    Clients = {c1, c2}
    Tags = {1, 2, 3, 4, 5, 6}
    MaxCalls = 3
    Segments = {0, 1}
    Extra = 2
    MaxMsg = 2
    MaxStarts = 2
    MaxSignals = 4
    MaxRequests = 2
    Keys = {0, 1, 2, 3, 4, 5, 6}
    Lists <- MCLists
    FirstCapacity = 2
    Handlers = {h1, h2}
    Versions <- MCVersions
    Absent = Absent
    MaxTransfers = 2
    MaxSaves = 1
    Sizes = {0, 1, 2, 3, 4, 5}
    BufSize = 2
    MaxSends = 5
    Texts <- MCTexts
    EndOfLine = "n"
    LineSize = 3
    EchoMessages <- MCEchoMessages
    EchoSize = 2
    EchoAddresses <- MCEchoAddresses
    MaxPending = 3
    Requests <- MCRequests
    AddressLists <- MCAddressLists
    MaxClients = 2
    Workloads <- MCWorkloads
    NoList <- MCNoList
    Disks <- MCDisks
    NRequests = 3
INVARIANTS
    TypeOK
    CheckValue
    FormsAgree
    BufferWritten
    CrcOfPieces
    ListenersStay
    TagsLive
    StartsInAnyOrder
    NothingLeft
    LookupRight
    StoreTruthful
    FetchTruthful
    BodyTruthful
    SavedWhole
    EchoTruthful
    PathWhole
    DownloadsKept
PROPERTIES
    EveryCallAnswered
    TheyMeet
CHECK_DEADLOCK FALSE
