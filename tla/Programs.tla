------------------------------- MODULE Programs -------------------------------
(***************************************************************************)
(* The parts of the repository that run without each other.  A behaviour   *)
(* is one of one of them: the variable program names it, the pool s1 .. s8 *)
(* holds its variables, and what a program does not use of the pool is     *)
(* NoValue.                                                                *)
(***************************************************************************)
EXTENDS Integers, Sequences, FiniteSets

\* Each program's constants, under the names they have in its module where no
\* other program has the same name.
CONSTANTS
    ParameterSets, CrcMessages, CheckMessage,                    \* CrcMessage
    Contents, Missing, BufferSize, MaxChanges,                   \* FileChecksum
    Threads, Clients, Tags, MaxCalls,                            \* CallbackServer
    Segments, Extra, MaxMsg, MaxStarts, MaxSignals, MaxRequests, \* CacheLifecycle
    Keys, Lists, FirstCapacity,                                  \* SimpleCache
    Handlers, Versions, Absent, MaxTransfers, MaxSaves,          \* DfsTransfer
    Sizes, BufSize, MaxSends,                                    \* DirectHandlers
    Texts, EndOfLine, LineSize,                                  \* FileTransfer
    EchoMessages, EchoSize, EchoAddresses, MaxPending,           \* Echo
    Requests, AddressLists, MaxClients,                          \* GfServer
    Workloads, NoList, Disks, NRequests                          \* GfDownload

VARIABLES program, s1, s2, s3, s4, s5, s6, s7, s8

vars == <<program, s1, s2, s3, s4, s5, s6, s7, s8>>

NoValue == 0
-----------------------------------------------------------------------------
(* The programs.                                                            *)

Crc == INSTANCE CrcMessage WITH
    Messages <- CrcMessages,
    parameters <- s1, message <- s2, taken <- s3, remainder <- s4, tableRemainder <- s5,
    partRemainder <- s6

ASSUME CrcAssumption ==
    (\A p \in ParameterSets : Crc!WellFormed(p)) /\ CrcMessages \subseteq Seq(0 .. 255)

Checksum == INSTANCE FileChecksum WITH
    file <- s1, changes <- s2, pc <- s3, size <- s4, buffer <- s5, chunks <- s6,
    position <- s7, crc <- s8

Callbacks == INSTANCE CallbackServer WITH
    status <- s1, owner <- s2, queuedTags <- s3, listening <- s4, completions <- s5,
    thread <- s6, client <- s7, calls <- s8

ASSUME CallbackAssumption ==
    /\ IsFiniteSet(Threads) /\ IsFiniteSet(Tags)
    /\ Tags \subseteq Nat /\ Callbacks!NoTag \notin Tags
    /\ Callbacks!NoClient \notin Clients
    /\ MaxCalls \in Nat

Lifecycle == INSTANCE CacheLifecycle WITH
    proxy <- s1, cache <- s2, name <- s3, queues <- s4, segment <- s5, semaphore <- s6,
    orderly <- s7, left <- s8

ASSUME LifecycleAssumption ==
    /\ Segments \subseteq Int /\ Extra \in Int \ Segments
    /\ MaxMsg \in Nat /\ MaxStarts \in Nat

Table == INSTANCE SimpleCache WITH
    lines <- s1, items <- s2, capacity <- s3, pc <- s4, key <- s5, lo <- s6, hi <- s7,
    result <- s8

ASSUME TableAssumption ==
    /\ Keys \subseteq Int
    /\ Lists \subseteq Seq([key : Int, opens : {"whole", "short"}, eol : BOOLEAN])
    /\ FirstCapacity \in Nat \ {0}

Part1 == INSTANCE DfsTransfer WITH
    MaxCalls <- MaxTransfers,
    local <- s1, remote <- s2, call <- s3, handler <- s4, status <- s5, disturbed <- s6,
    left <- s7

ASSUME TransferAssumption ==
    /\ Versions \subseteq Seq(Part1!Blocks) /\ Absent \notin Seq(Part1!Blocks)
    /\ Part1!None \notin Handlers

ASSUME ChecksumAssumption ==
    /\ Contents \subseteq Seq(0 .. 255) /\ Missing \notin Contents
    /\ BufferSize \in Nat \ {0} /\ MaxChanges \in Nat

Direct == INSTANCE DirectHandlers WITH
    source <- s1, pc <- s2, chunk <- s3, header <- s4, sent <- s5, done <- s6, result <- s7,
    faulty <- s8

ASSUME DirectAssumption ==
    Sizes \subseteq Nat /\ BufSize \in Nat \ {0} /\ MaxSends \in Nat

Transfer == INSTANCE FileTransfer WITH
    BufSize <- LineSize,
    text <- s1, position <- s2, server <- s3, client <- s4, stream <- s5, buffer <- s6,
    saved <- s7, aligned <- s8

ASSUME TextAssumption ==
    /\ Texts \subseteq Seq(Transfer!Characters) /\ Transfer!Zero \notin Transfer!Characters
    /\ LineSize \in Nat \ {0, 1}

EchoPair == INSTANCE Echo WITH
    Messages <- EchoMessages, AddressLists <- EchoAddresses, BufSize <- EchoSize,
    addresses <- s1, server <- s2, pending <- s3, client <- s4, reply <- s5, buffer <- s6,
    got <- s7, longest <- s8

ASSUME EchoAssumption ==
    /\ EchoMessages \subseteq Seq(EchoPair!Characters) /\ EchoSize \in Nat
    /\ EchoPair!Unwritten \notin EchoPair!Characters
    /\ EchoAddresses \subseteq Seq(EchoPair!Outcomes) /\ MaxPending \in Nat \ {0}

Getfile == INSTANCE GfServer WITH
    addresses <- s1, socket <- s2, pc <- s3, request <- s4, rest <- s5, header <- s6,
    answer <- s7, clients <- s8

ASSUME RequestAssumption ==
    /\ Requests \subseteq Seq(Getfile!Parts) /\ AddressLists \subseteq Seq(Getfile!Outcomes)
    /\ MaxClients \in Nat

Download == INSTANCE GfDownload WITH
    Workloads <- Workloads \cup {NoList}, Missing <- NoList,
    file <- s1, workload <- s2, counter <- s3, made <- s4, pc <- s5, local <- s6,
    disk <- s7, ended <- s8

ASSUME WorkloadAssumption ==
    /\ NRequests \in Nat /\ Workloads \cup {NoList} \subseteq Seq(Download!Paths)
    /\ \A p \in Download!Paths :
          Download!IsSequence(p) /\ p # << >> /\ \A i \in DOMAIN p : Download!IsSequence(p[i])
-----------------------------------------------------------------------------
Init ==
    \/ program = "crc" /\ Crc!Init /\ s7 = NoValue /\ s8 = NoValue
    \/ program = "checksum" /\ Checksum!Init
    \/ program = "callbacks" /\ Callbacks!Init
    \/ program = "lifecycle" /\ Lifecycle!Init
    \/ program = "table" /\ Table!Init
    \/ program = "part1" /\ Part1!Init /\ s8 = NoValue
    \/ program = "direct" /\ Direct!Init
    \/ program = "transfer" /\ Transfer!Init
    \/ program = "echo" /\ EchoPair!Init
    \/ program = "getfile" /\ Getfile!Init
    \/ program = "download" /\ Download!Init

Next ==
    /\ \/ program = "crc" /\ Crc!Next /\ UNCHANGED <<s7, s8>>
       \/ program = "checksum" /\ Checksum!Next
       \/ program = "callbacks" /\ Callbacks!Next
       \/ program = "lifecycle" /\ Lifecycle!Next
       \/ program = "table" /\ Table!Next
       \/ program = "part1" /\ Part1!Next /\ UNCHANGED s8
       \/ program = "direct" /\ Direct!Next
       \/ program = "transfer" /\ Transfer!Next
       \/ program = "echo" /\ EchoPair!Next
       \/ program = "getfile" /\ Getfile!Next
       \/ program = "download" /\ Download!Next
    /\ UNCHANGED program

\* The fairness of the two modules that state it.
Fairness ==
    /\ WF_vars(program = "lifecycle" /\ Lifecycle!ProxyStep /\ UNCHANGED program)
    /\ WF_vars(program = "lifecycle" /\ Lifecycle!CacheStep /\ UNCHANGED program)
    /\ \A h \in Threads :
          WF_vars(program = "callbacks" /\ Callbacks!ThreadStep(h) /\ UNCHANGED program)
    /\ WF_vars(program = "callbacks" /\ Callbacks!ProcessQueuedRequests /\ UNCHANGED program)
    /\ \A c \in Clients :
          WF_vars(program = "callbacks" /\ (\E t \in Tags : Callbacks!Match(c, t))
                  /\ UNCHANGED program)

Spec == Init /\ [][Next]_vars /\ Fairness
-----------------------------------------------------------------------------
(* Properties.  Each is the one of the same name of the program's module.   *)

\* Every program's variables have their types.
TypeOK ==
    /\ program = "crc" => Crc!TypeOK
    /\ program = "checksum" => Checksum!TypeOK
    /\ program = "callbacks" => Callbacks!TypeOK
    /\ program = "lifecycle" => Lifecycle!TypeOK
    /\ program = "table" => Table!TypeOK
    /\ program = "part1" => Part1!TypeOK
    /\ program = "direct" => Direct!TypeOK
    /\ program = "transfer" => Transfer!TypeOK
    /\ program = "echo" => EchoPair!TypeOK
    /\ program = "getfile" => Getfile!TypeOK
    /\ program = "download" => Download!TypeOK

\* Every parameter set of CRC.h gives the check value of its comment.
CheckValue == program = "crc" => Crc!CheckValue

\* The forms of Calculate in CRC.h agree.
FormsAgree == program = "crc" => Crc!FormsAgree

\* dfs_file_checksum takes no CRC of memory it has not written.
BufferWritten == program = "checksum" => Checksum!BufferWritten

\* dfs_file_checksum gives the CRC of the whole file and of its buffer's stale tail.
CrcOfPieces == program = "checksum" => Checksum!CrcOfPieces

\* As many call data listen for a callback call as there are threads.
ListenersStay == program = "callbacks" => Callbacks!ListenersStay

\* No call data is used after it is deleted, nor by two.
TagsLive == program = "callbacks" => Callbacks!TagsLive

\* Every callback call is answered, unless its client dies.
EveryCallAnswered ==
    \A c \in Clients :
        program = "callbacks" /\ s7[c] \in {"asked", "waiting"}
            ~> program = "callbacks" /\ s7[c] \in {"idle", "gone", "lost"}

\* Proxy and cache of pr3 may be started in any order and do not crash.
StartsInAnyOrder == program = "lifecycle" => Lifecycle!StartsInAnyOrder

\* Stopped in order, they leave nothing in the kernel.
NothingLeft == program = "lifecycle" => Lifecycle!NothingLeft

\* Without a signal they meet at one queue.
TheyMeet ==
    program = "lifecycle"
        ~> program = "lifecycle" /\ (Lifecycle!Meeting \/ Lifecycle!Signalled)

\* A lookup in the sorted table finds the key if it is there, and only then.
LookupRight == program = "table" => Table!LookupRight

\* A store of part 1 that returns OK has stored the whole file.
StoreTruthful == program = "part1" => Part1!StoreTruthful

\* A fetch of part 1 that returns OK has fetched the whole file.
FetchTruthful == program = "part1" => Part1!FetchTruthful

\* The handlers without a cache send the page or file and nothing else.
BodyTruthful == program = "direct" => Direct!BodyTruthful

\* The transfer client saves the server's file, as long as recv is not short.
SavedWhole == program = "transfer" => Transfer!SavedWhole

\* An echo client's answer begins with its own message; what follows is stale.
EchoTruthful == program = "echo" => EchoPair!EchoTruthful

\* The getfile handler gets the path of the request.
PathWhole == program = "getfile" => Getfile!PathWhole

\* What gfclient_download has downloaded stays, and nothing else does.
DownloadsKept == program = "download" => Download!DownloadsKept
=============================================================================
