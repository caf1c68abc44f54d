----------------------------- MODULE DfsTransfer -----------------------------
(***************************************************************************)
(* Client and server of pr4-gRPC/part1, for one file: store, fetch,        *)
(* delete, and the two queries, all with a deadline and without locks.     *)
(*                                                                         *)
(* When the deadline passes the client goes on and the handler is told     *)
(* that its call is cancelled; it notices when it next looks.  Until then  *)
(* it works on the file together with the handler of the client's next     *)
(* call.  A content is a sequence of blocks, 4000 bytes each.  What        *)
(* fstream buffers is taken to reach the file with each write.             *)
(***************************************************************************)
EXTENDS Integers, Sequences

CONSTANTS
    Handlers,     \* threads of the server: bound of the model
    Versions,     \* the contents users save, sequences of blocks
    Absent,       \* in place of the content of a file that does not exist
    MaxCalls,     \* bounds of the model: calls
    MaxSaves      \* and changes by the user

VARIABLES
    local, remote,    \* the file at the client and at the server
    call,             \* what the client does
    handler,          \* what each thread of the server does
    status,           \* what the last call returned, which it was, and, as history,
                      \* what the server had before it
    disturbed,        \* history: a handler has outlived its call, or could not write
    left              \* calls and changes that are left

vars == <<local, remote, call, handler, status, disturbed, left>>

Hole == "hole"       \* a block that was skipped
Junk == "junk"       \* the rest of a buffer after a read beyond the end
None == "none"

NoCall == [op |-> None, handler |-> None, done |-> 0, reply |-> None]
NoStatus == [op |-> None, code |-> None, before |-> Absent]

\* file: "live" when what the handler reads or writes is the file of the name, "gone"
\* when it is not: of a file that was removed kept is the content.
Idle   == [op |-> None, pc |-> "read", stream |-> << >>, closed |-> FALSE,
           cancelled |-> FALSE, file |-> None, kept |-> << >>, length |-> 0, pos |-> 0]

\* pos counts from 0.
Put(content, pos, block) ==
    [i \in 1 .. (IF pos < Len(content) THEN Len(content) ELSE pos + 1) |->
        IF i = pos + 1 THEN block
        ELSE IF i <= Len(content) THEN content[i] ELSE Hole]

Init ==
    /\ local \in Versions \cup {Absent}
    /\ remote \in Versions \cup {Absent}
    /\ call = NoCall
    /\ handler = [h \in Handlers |-> Idle]
    /\ status = NoStatus
    /\ disturbed = FALSE
    /\ left = [calls |-> MaxCalls, saves |-> MaxSaves]

Save ==
    /\ call = NoCall
    /\ left.saves > 0
    /\ left' = [left EXCEPT !.saves = @ - 1]
    /\ local' \in Versions \cup {Absent}
    /\ status' = NoStatus
    /\ UNCHANGED <<remote, call, handler, disturbed>>

\* A call reaches a thread of the server.
Begin(op) ==
    /\ call = NoCall
    /\ left.calls > 0
    /\ left' = [left EXCEPT !.calls = @ - 1]
    /\ \E h \in Handlers :
          /\ handler[h] = Idle
          /\ handler' = [handler EXCEPT ![h].op = op]
          /\ call' = [NoCall EXCEPT !.op = op, !.handler = h]
    /\ status' = [op |-> op, code |-> None, before |-> remote]
    /\ disturbed' = (disturbed \/ \E h \in Handlers : handler[h] # Idle)

\* A client that has no file has no call either.
Store == local # Absent /\ Begin("store") /\ UNCHANGED <<local, remote>>

\* Variant for mutation: the file is opened for update and keeps its length.
FetchIntoOld ==
    /\ Begin("fetch")
    /\ local' = IF local = Absent THEN << >> ELSE local
    /\ UNCHANGED remote

\* The client's file is cut to length 0 before the server is asked.
Fetch == Begin("fetch") /\ local' = << >> /\ UNCHANGED remote

Delete == Begin("delete") /\ UNCHANGED <<local, remote>>
Stat   == Begin("stat") /\ UNCHANGED <<local, remote>>
List   == Begin("list") /\ UNCHANGED <<local, remote>>
-----------------------------------------------------------------------------
(* The client during a call.                                                *)

Mine == call.handler

SendBlock ==
    /\ call.op = "store"
    /\ call.done < Len(local)
    /\ handler' = [handler EXCEPT ![Mine].stream = Append(@, local[call.done + 1])]
    /\ call' = [call EXCEPT !.done = @ + 1]
    /\ UNCHANGED <<local, remote, status, disturbed, left>>

WritesDone ==
    /\ call.op = "store"
    /\ call.done = Len(local)
    /\ ~handler[Mine].closed
    /\ call.reply = None
    /\ handler' = [handler EXCEPT ![Mine].closed = TRUE]
    /\ UNCHANGED <<local, remote, call, status, disturbed, left>>

ReceiveBlock ==
    /\ call.op = "fetch"
    /\ handler[Mine].stream # << >>
    /\ local' = Put(local, call.done, Head(handler[Mine].stream))
    /\ handler' = [handler EXCEPT ![Mine].stream = Tail(@)]
    /\ call' = [call EXCEPT !.done = @ + 1]
    /\ UNCHANGED <<remote, status, disturbed, left>>

\* After a fetch of a file that is not there the client's own is removed.
Finish ==
    /\ call.reply # None
    /\ call.op = "fetch" => handler[Mine].stream = << >>
    /\ status' = [status EXCEPT !.code = call.reply]
    /\ local' = IF call.op = "fetch" /\ call.reply = "not found" THEN Absent ELSE local
    /\ handler' = [handler EXCEPT ![Mine] = Idle]
    /\ call' = NoCall
    /\ UNCHANGED <<remote, disturbed, left>>

\* The deadline passes, or the client's process is interrupted.
TimeOut ==
    /\ call # NoCall
    /\ status' = [status EXCEPT !.code = "deadline exceeded"]
    /\ handler' = [handler EXCEPT ![Mine] =
          IF call.reply # None THEN Idle ELSE [@ EXCEPT !.cancelled = TRUE]]
    /\ call' = NoCall
    /\ UNCHANGED <<local, remote, disturbed, left>>
-----------------------------------------------------------------------------
(* The handlers.                                                            *)

\* The handler of a cancelled call returns to nobody.  The others wait for the
\* client to take the reply.
Return(h, code) ==
    IF handler[h].cancelled
    THEN handler' = [handler EXCEPT ![h] = Idle] /\ UNCHANGED call
    ELSE /\ handler' = [handler EXCEPT ![h].pc = "returned"]
         /\ call' = [call EXCEPT !.reply = code]

\* uploadFile: Read, and the look at IsCancelled.
UploadRead(h) ==
    LET k == handler[h] IN
    /\ k.op = "store" /\ k.pc = "read"
    /\ \/ /\ k.stream # << >> /\ ~k.cancelled
          /\ handler' = [handler EXCEPT ![h].pc = "write"]
          /\ UNCHANGED call
       \/ /\ k.cancelled \/ (k.stream = << >> /\ k.closed)
          /\ Return(h, "ok")
    /\ UNCHANGED <<local, remote, status, disturbed, left>>

Opened(h) ==
    IF handler[h].file # None THEN handler[h].file ELSE "live"

\* Variant for mutation: the server's file keeps its length when it is opened.
UploadWriteIntoOld(h) ==
    LET k == handler[h] IN
    /\ k.op = "store" /\ k.pc = "write"
    /\ handler' = [handler EXCEPT ![h].pc = "read", ![h].file = Opened(h),
                                  ![h].stream = Tail(@), ![h].pos = @ + 1]
    /\ remote' = IF Opened(h) = "live"
                 THEN Put(IF remote = Absent THEN << >> ELSE remote, k.pos, Head(k.stream))
                 ELSE remote
    /\ UNCHANGED <<local, call, status, disturbed, left>>

\* The first block opens the file, which cuts it to length 0.
UploadWrite(h) ==
    LET k == handler[h] IN
    /\ k.op = "store" /\ k.pc = "write"
    /\ handler' = [handler EXCEPT ![h].pc = "read", ![h].file = Opened(h),
                                  ![h].stream = Tail(@), ![h].pos = @ + 1]
    /\ remote' = IF Opened(h) = "live"
                 THEN Put(IF k.file = None THEN << >> ELSE remote, k.pos, Head(k.stream))
                 ELSE remote
    /\ UNCHANGED <<local, call, status, disturbed, left>>

\* The file does not open, or the write fails: the stream writes no more, nobody
\* looks at it, and the call goes on.
UploadFails(h) ==
    LET k == handler[h] IN
    /\ k.op = "store" /\ k.pc = "write"
    /\ handler' = [handler EXCEPT ![h].pc = "read", ![h].file = "gone",
                                  ![h].stream = Tail(@), ![h].pos = @ + 1]
    /\ remote' \in {remote} \cup (IF k.file = None THEN {<< >>} ELSE {})
    /\ disturbed' = TRUE
    /\ UNCHANGED <<local, call, status, left>>

DownloadOpen(h) ==
    LET k == handler[h] IN
    /\ k.op = "fetch" /\ k.pc = "read" /\ k.file = None
    /\ \/ /\ remote = Absent
          /\ Return(h, "not found")
       \/ /\ remote # Absent
          /\ handler' = [handler EXCEPT ![h].file = "live", ![h].length = Len(remote)]
          /\ UNCHANGED call
    /\ UNCHANGED <<local, remote, status, disturbed, left>>

\* A file that has been removed can still be read by who has it open.
DownloadSend(h) ==
    LET k == handler[h]
        content == IF k.file = "live" THEN remote ELSE k.kept
    IN /\ k.op = "fetch" /\ k.pc = "read" /\ k.file # None
       /\ \/ /\ k.pos < k.length /\ ~k.cancelled
             /\ handler' = [handler EXCEPT ![h].pos = @ + 1, ![h].stream = Append(@,
                   IF k.pos < Len(content) THEN content[k.pos + 1] ELSE Junk)]
             /\ UNCHANGED call
          \/ /\ k.pos = k.length \/ k.cancelled
             /\ Return(h, "ok")
       /\ UNCHANGED <<local, remote, status, disturbed, left>>

\* destroyFile.  Those that have the file open keep it.
Destroy(h) ==
    LET k == handler[h] IN
    /\ k.op = "delete" /\ k.pc = "read"
    /\ IF k.cancelled \/ remote = Absent
       THEN /\ Return(h, "not found")
            /\ UNCHANGED remote
       ELSE /\ handler' = [g \in Handlers |->
                  IF g = h THEN [k EXCEPT !.pc = "returned"]
                  ELSE IF handler[g].file = "live"
                       THEN [handler[g] EXCEPT !.file = "gone", !.kept = remote]
                  ELSE handler[g]]
            /\ call' = [call EXCEPT !.reply = "ok"]
            /\ remote' = Absent
    /\ UNCHANGED <<local, status, disturbed, left>>

\* statusOfFile and retrieveFiles.
Query(h) ==
    /\ handler[h].op \in {"stat", "list"} /\ handler[h].pc = "read"
    /\ Return(h, IF handler[h].op = "stat" /\ remote = Absent THEN "not found" ELSE "ok")
    /\ UNCHANGED <<local, remote, status, disturbed, left>>
-----------------------------------------------------------------------------
Next ==
    \/ Save \/ Store \/ Fetch \/ Delete \/ Stat \/ List
    \/ SendBlock \/ WritesDone \/ ReceiveBlock \/ Finish \/ TimeOut
    \/ \E h \in Handlers : UploadRead(h) \/ UploadWrite(h) \/ UploadFails(h)
                           \/ DownloadOpen(h) \/ DownloadSend(h) \/ Destroy(h) \/ Query(h)

Spec == Init /\ [][Next]_vars
-----------------------------------------------------------------------------
(* Properties.                                                              *)

Blocks == {Hole, Junk} \cup UNION {{v[i] : i \in DOMAIN v} : v \in Versions}
Copy(x) == x = Absent \/ x \in Seq(Blocks)

TypeOK ==
    /\ Copy(local) /\ Copy(remote)
    /\ call.op \in {None, "store", "fetch", "delete", "stat", "list"}
    /\ call.reply \in {None, "ok", "not found"}
    /\ call = NoCall \/ call.handler \in Handlers
    /\ \A h \in Handlers : handler[h].stream \in Seq(Blocks) /\ handler[h].pos >= 0
    /\ status.code \in {None, "ok", "not found", "deadline exceeded"}

Prefix(x, y) == x # Absent /\ y # Absent /\ Len(x) <= Len(y) /\ x = SubSeq(y, 1, Len(x))

\* A store that returned OK has made the server's file equal to the client's,
\* and one that did not has left what was there or a beginning of the client's;
\* unless the file is empty, of which nothing is sent, or the calls are disturbed:
\* a handler has outlived its own, or could not write and has returned OK.
StoreTruthful ==
    status.op = "store" /\ ~disturbed /\ local # << >> =>
        /\ status.code = "ok" => remote = local
        /\ remote = status.before \/ Prefix(remote, local)

\* A fetch ends with the whole file of the server, with no file when the server
\* has none, or with a beginning of it; never with what the client had before,
\* nor with a piece of it behind the new blocks.
FetchTruthful ==
    status.op = "fetch" /\ ~disturbed =>
        /\ status.code = "ok" => local = remote
        /\ status.code = "not found" => local = Absent /\ remote = Absent
        /\ status.code = "deadline exceeded" => local = << >> \/ Prefix(local, remote)

\* Why the two hold.  Types first.
Ops == {None, "store", "fetch", "delete", "stat", "list"}

HandlerStates ==
    [op : Ops, pc : {"read", "write", "returned"}, stream : Seq(Blocks), closed : BOOLEAN,
     cancelled : BOOLEAN, file : {None, "live", "gone"}, kept : Seq(Blocks), length : Nat, pos : Nat]
CallStates ==
    [op : Ops, handler : Handlers \cup {None}, done : Nat, reply : {None, "ok", "not found"}]
StatusStates ==
    [op : Ops, code : {None, "ok", "not found", "deadline exceeded"},
     before : {Absent} \cup Seq(Blocks)]

Records ==
    /\ Copy(local) /\ Copy(remote)
    /\ handler \in [Handlers -> HandlerStates] /\ call \in CallStates /\ status \in StatusStates
    /\ disturbed \in BOOLEAN

\* Who reads or writes has something to read or write.
Streams ==
    /\ call.op \in {"store", "fetch"} => local # Absent
    /\ \A h \in Handlers :
          /\ handler[h].pc = "write" => handler[h].op = "store" /\ handler[h].stream # << >>
          /\ handler[h].file # None => handler[h].op \in {"store", "fetch"}
          /\ handler[h].file = "live" => remote # Absent

\* A handler is idle, serves the client's call, or has outlived its own.
Serves(h) == call # NoCall /\ call.handler = h

Served ==
    /\ call # NoCall => /\ call.handler \in Handlers /\ call.op # None
                        /\ status.op = call.op /\ status.code = None
    /\ \A h \in Handlers :
          \/ ~Serves(h) /\ handler[h] = Idle
          \/ ~Serves(h) /\ handler[h].cancelled /\ handler[h].pc # "returned"
          \/ /\ Serves(h) /\ handler[h].op = call.op /\ ~handler[h].cancelled
             /\ handler[h].pc = "returned" <=> call.reply # None

\* Undisturbed, there is one handler at most, none when its call has returned, and
\* no file it has open is removed.
Alone ==
    ~disturbed => \A h \in Handlers : handler[h] # Idle =>
        /\ status.op # None => handler[h].op = status.op
        /\ status.code \in {None, "deadline exceeded"}
        /\ handler[h].file # "gone"
        /\ \A g \in Handlers : handler[g] # Idle => g = h

StartOf(x, y) == x \in Seq(Blocks) /\ y \in Seq(Blocks) /\ Len(x) <= Len(y)
                 /\ \A i \in 1 .. Len(x) : x[i] = y[i]

\* The blocks in the stream of handler h are those of the file that come next.
Following(h, file, from) ==
    /\ from + Len(handler[h].stream) <= Len(file)
    /\ \A i \in 1 .. Len(handler[h].stream) : handler[h].stream[i] = file[from + i]

\* A store that has not been disturbed.
Uploaded ==
    ~disturbed /\ status.op = "store" =>
        /\ local \in Seq(Blocks)
        /\ remote = status.before \/ StartOf(remote, local)
        /\ status.code = "ok" => local = << >> \/ remote = local
        /\ \A h \in Handlers : handler[h] # Idle =>
              /\ Following(h, local, handler[h].pos)
              /\ handler[h].file = None => handler[h].pos = 0 /\ remote = status.before
              /\ handler[h].file # None => StartOf(remote, local) /\ Len(remote) = handler[h].pos
              /\ Serves(h) => call.done = handler[h].pos + Len(handler[h].stream)
              /\ Serves(h) /\ handler[h].closed => call.done = Len(local)
              /\ Serves(h) /\ call.reply # None =>
                    call.reply = "ok" /\ handler[h].closed /\ handler[h].stream = << >>

\* A fetch that has not been disturbed.
Downloaded ==
    ~disturbed /\ status.op = "fetch" =>
        /\ status.code = "ok" => local = remote
        /\ status.code = "not found" => local = Absent /\ remote = Absent
        /\ status.code \in {None, "deadline exceeded"} => local = << >> \/ StartOf(local, remote)
        /\ \A h \in Handlers : Serves(h) =>
              /\ local \in Seq(Blocks) /\ Len(local) = call.done
              /\ handler[h].file = None => /\ handler[h].pos = 0 /\ handler[h].stream = << >>
                                           /\ call.done = 0
              /\ handler[h].file # None =>
                    /\ StartOf(local, remote) /\ Following(h, remote, call.done)
                    /\ handler[h].length = Len(remote)
                    /\ call.done + Len(handler[h].stream) = handler[h].pos
              /\ call.reply = "ok" => handler[h].file # None /\ handler[h].pos = handler[h].length
              /\ call.reply = "not found" => handler[h].stream = << >> /\ remote = Absent

TransferInv == Records /\ Streams /\ Served /\ Alone /\ Uploaded /\ Downloaded
=============================================================================
