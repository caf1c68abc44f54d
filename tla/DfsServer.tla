------------------------------ MODULE DfsServer ------------------------------
(***************************************************************************)
(* The distributed file system of pr4-gRPC/part2: the server's handlers    *)
(* (dfslib-servernode-p2.cpp) and the client's operations that call them   *)
(* (dfslib-clientnode-p2.cpp).                                             *)
(*                                                                         *)
(* Each call runs on a server thread of its own, so that handlers of       *)
(* several clients interleave on the files and on lockList, the map from   *)
(* file names to the clients that hold their write locks.  One action is   *)
(* one access to a file, to lockList or to the stream of a call.  lock and *)
(* unlock are each one action: nothing in the code makes them indivisible, *)
(* so the model shows what the locking is worth if the map itself holds.   *)
(*                                                                         *)
(* A content is a sequence of blocks (4000 bytes each in the code) and is  *)
(* its own checksum; the checksum of an absent file is that of an empty    *)
(* one.  A name leads to an inode, because a file that was removed lives   *)
(* on for the handlers that have it open.                                  *)
(***************************************************************************)
EXTENDS Integers, Sequences

CONSTANTS
    Clients,
    Threads,      \* of the server
    Files,
    Versions,     \* the contents users write: sequences of blocks
    Absent,       \* in place of the content of a file that does not exist
    NumInodes,    \* bound of the model: one for each name and each thread is enough
    MaxCalls,     \* bound of the model: calls the clients make
    MayTimeOut,   \* may a deadline pass before the answer comes?
    MayDie        \* may a client process end in the middle of a call?

Nobody   == "nobody"
NoThread == "no thread"
NoFile   == "no file"
NoInode  == 0
Hole     == "hole"     \* a block nobody wrote, below one that was written
Junk     == "junk"     \* what the read buffer held before a read that failed
Inodes   == 1 .. NumInodes
Blocks   == {Hole, Junk} \cup UNION {{v[i] : i \in DOMAIN v} : v \in Versions}
Sizes    == {0} \cup {Len(v) : v \in Versions}

ASSUME DfsAssumption ==
    /\ NumInodes \in Nat
    /\ MaxCalls \in Nat
    /\ MayTimeOut \in BOOLEAN
    /\ MayDie \in BOOLEAN
    /\ Nobody \notin Clients
    /\ NoThread \notin Threads
    /\ NoFile \notin Files
    /\ Versions \subseteq Seq(Blocks)
    /\ Absent \notin Seq(Blocks)

VARIABLES
    local,      \* the files below each client's mount path
    waits,      \* the thread whose answer each client waits for
    dead,       \* client processes that have ended
    dir, disk,  \* the server's directory and inodes
    lockList,
    call,       \* what each thread does
    started,    \* calls made so far
    granted,    \* history: locks a client got by requestLock and that were not released
    late        \* history: clients that went on after a deadline

vars == <<local, waits, dead, dir, disk, lockList, call, started, granted, late>>
files == <<dir, disk>>
locks == <<lockList, granted>>
clients == <<local, waits, dead, started, late>>

\* The locals of a handler: the content whose checksum is in the request, the
\* open file, bytesTransferred, fileLength; touched is history: has the file
\* changed since this fetch opened it?
IdleCall == [pc |-> "idle", client |-> Nobody, file |-> NoFile, sum |-> << >>,
             fd |-> NoInode, pos |-> 0, size |-> 0, touched |-> FALSE]

Content(f) == IF dir[f] = NoInode THEN Absent ELSE disk[dir[f]]
Checksum(content) == IF content = Absent THEN << >> ELSE content

\* seekg to block p, then write: a gap below p reads as zeros later.
Put(s, p, block) ==
    [i \in 1 .. (IF p < Len(s) THEN Len(s) ELSE p + 1) |->
        IF i = p + 1 THEN block ELSE IF i <= Len(s) THEN s[i] ELSE Hole]

\* context->IsCancelled() stays false while the client waits for this call.
Awaited(h) == waits[call[h].client] = h

At(h, label)   == call[h].pc = label
Goto(h, label) == call' = [call EXCEPT ![h].pc = label]

\* The handler returns; its client, if it still waits, goes on.
Reply(h) ==
    /\ call' = [call EXCEPT ![h] = IdleCall]
    /\ waits' = [c \in Clients |-> IF waits[c] = h THEN NoThread ELSE waits[c]]

MayLock(h) == lockList[call[h].file] \in {Nobody, call[h].client}
Lock(h)    == lockList' = [lockList EXCEPT ![call[h].file] = call[h].client]

\* unlock does not ask who holds the lock.
Unlock(f) ==
    /\ lockList' = [lockList EXCEPT ![f] = Nobody]
    /\ granted' = {g \in granted : g[2] # f}

\* History: the fetches that have f open learn that it changed.
Touched(calls, f) ==
    [h \in Threads |->
        IF calls[h].file = f /\ calls[h].pc \in {"compare", "send"}
        THEN [calls[h] EXCEPT !.touched = TRUE]
        ELSE calls[h]]

Init ==
    /\ local = [c \in Clients |-> [f \in Files |-> Absent]]
    /\ waits = [c \in Clients |-> NoThread]
    /\ dead = {}
    /\ dir = [f \in Files |-> NoInode]
    /\ disk = [i \in Inodes |-> << >>]
    /\ lockList = [f \in Files |-> Nobody]
    /\ call = [h \in Threads |-> IdleCall]
    /\ started = 0
    /\ granted = {}
    /\ late = {}
-----------------------------------------------------------------------------
(* A client's call reaches a thread of the server.                          *)

StartCall(c, h, label, f, sum) ==
    /\ c \notin dead
    /\ waits[c] = NoThread
    /\ At(h, "idle")
    /\ started < MaxCalls
    /\ started' = started + 1
    /\ waits' = [waits EXCEPT ![c] = h]
    /\ call' = [call EXCEPT ![h] = [IdleCall EXCEPT !.pc = label, !.client = c,
                                                    !.file = f, !.sum = sum]]
    /\ UNCHANGED <<dead, late, files, locks>>

\* The user has saved some content; Store reads it and opens the stream.
Store(c, h, f) ==
    \E v \in Versions :
        /\ StartCall(c, h, "first", f, v)
        /\ local' = [local EXCEPT ![c][f] = v]

Fetch(c, h, f) ==
    /\ StartCall(c, h, "fetch", f, Checksum(local[c][f]))
    /\ UNCHANGED local

Delete(c, h, f) ==
    /\ StartCall(c, h, "remove", f, << >>)
    /\ UNCHANGED local

RequestWriteAccess(c, h, f) ==
    /\ StartCall(c, h, "ask", f, << >>)
    /\ UNCHANGED local

\* Only deleteFile and requestLock are called with a deadline.
TimeOut(c) ==
    /\ MayTimeOut
    /\ waits[c] # NoThread
    /\ call[waits[c]].pc \in {"remove", "locking", "unlock", "ask"}
    /\ waits' = [waits EXCEPT ![c] = NoThread]
    /\ late' = late \cup {c}
    /\ UNCHANGED <<local, dead, files, locks, call, started>>

\* External: the process is killed; its local files stay as they are.
Die(c) ==
    /\ MayDie
    /\ c \notin dead
    /\ dead' = dead \cup {c}
    /\ waits' = [waits EXCEPT ![c] = NoThread]
    /\ UNCHANGED <<local, late, files, locks, call, started>>
-----------------------------------------------------------------------------
(* storeFile                                                                *)

\* The first block arrives.  Without one (the file is empty, or the client is
\* gone) nothing is written, and unlock gets the empty name, which no lock has.
ReceiveFirst(h) ==
    /\ At(h, "first")
    /\ \/ /\ Awaited(h) /\ call[h].sum # << >>
          /\ Goto(h, "lock")
          /\ UNCHANGED waits
       \/ /\ ~Awaited(h) \/ call[h].sum = << >>
          /\ Reply(h)
    /\ UNCHANGED <<local, dead, started, late, files, locks>>

\* Variant for mutation: the answer of lock is not looked at.
StoreAnyway(h) ==
    /\ At(h, "lock")
    /\ Lock(h)
    /\ Goto(h, "check")
    /\ UNCHANGED <<clients, files, granted>>

LockForStore(h) ==
    /\ At(h, "lock")
    /\ \/ /\ MayLock(h)
          /\ Lock(h)
          /\ Goto(h, "check")
          /\ UNCHANGED waits
       \/ /\ ~MayLock(h)
          /\ Reply(h)
          /\ UNCHANGED lockList
    /\ UNCHANGED <<local, dead, started, late, files, granted>>

\* Variant for mutation: no unlock on the way out with ALREADY_EXISTS.
ReturnLocked(h) ==
    /\ At(h, "check")
    /\ \/ /\ Checksum(Content(call[h].file)) = call[h].sum
          /\ Reply(h)
       \/ /\ Checksum(Content(call[h].file)) # call[h].sum
          /\ Goto(h, "open")
          /\ UNCHANGED waits
    /\ UNCHANGED <<local, dead, started, late, files, locks>>

\* An equal checksum ends the call with ALREADY_EXISTS.
CompareForStore(h) ==
    /\ At(h, "check")
    /\ \/ /\ Checksum(Content(call[h].file)) = call[h].sum
          /\ Unlock(call[h].file)
          /\ Reply(h)
       \/ /\ Checksum(Content(call[h].file)) # call[h].sum
          /\ Goto(h, "open")
          /\ UNCHANGED <<waits, locks>>
    /\ UNCHANGED <<local, dead, started, late, files>>

InUse(i) == \/ \E f \in Files : dir[f] = i
            \/ \E h \in Threads : call[h].fd = i

\* The inode of f, or the first free one when there is no f.
Target(f) == {i \in Inodes : IF dir[f] # NoInode THEN i = dir[f]
                             ELSE ~InUse(i) /\ \A j \in 1 .. (i - 1) : InUse(j)}

\* Variant for mutation: the file is opened for reading too, which creates none.
OpenExisting(h) ==
    /\ At(h, "open")
    /\ LET f == call[h].file IN \E i \in Target(f) :
          /\ disk' = [disk EXCEPT ![i] = << >>]
          /\ call' = Touched([call EXCEPT ![h].pc = "write", ![h].fd = dir[f]], f)
    /\ UNCHANGED <<clients, dir, locks>>

\* Variant for mutation: an existing file keeps its blocks (no truncation).
OpenWithoutTruncation(h) ==
    /\ At(h, "open")
    /\ LET f == call[h].file IN \E i \in Target(f) :
          /\ dir' = [dir EXCEPT ![f] = i]
          /\ disk' = [disk EXCEPT ![i] = IF dir[f] = NoInode THEN << >> ELSE @]
          /\ call' = Touched([call EXCEPT ![h].pc = "write", ![h].fd = i], f)
    /\ UNCHANGED <<clients, locks>>

\* ios::out creates the file, or cuts the one that is there to length 0.
OpenForStore(h) ==
    /\ At(h, "open")
    /\ LET f == call[h].file IN \E i \in Target(f) :
          /\ dir' = [dir EXCEPT ![f] = i]
          /\ disk' = [disk EXCEPT ![i] = << >>]
          /\ call' = Touched([call EXCEPT ![h].pc = "write", ![h].fd = i], f)
    /\ UNCHANGED <<clients, locks>>

WriteBlock(h) ==
    /\ At(h, "write")
    /\ LET k == call[h] IN
          /\ disk' = [disk EXCEPT ![k.fd] = Put(@, k.pos, k.sum[k.pos + 1])]
          /\ call' = Touched([call EXCEPT ![h].pc = "next", ![h].pos = @ + 1], k.file)
    /\ UNCHANGED <<clients, dir, locks>>

\* Read returns the next block or, at the end of the stream or when the client
\* is gone, false.  IsCancelled is looked at only after a block has come in,
\* and then the handler returns without unlock.
ReceiveNext(h) ==
    /\ At(h, "next")
    /\ LET more == call[h].pos < Len(call[h].sum) IN
       \/ more /\ Goto(h, "write") /\ UNCHANGED waits
       \/ more /\ ~Awaited(h) /\ Reply(h)
       \/ (~more \/ ~Awaited(h)) /\ Goto(h, "end") /\ UNCHANGED waits
    /\ UNCHANGED <<local, dead, started, late, files, locks>>

EndStore(h) ==
    /\ At(h, "end")
    /\ Unlock(call[h].file)
    /\ Reply(h)
    /\ UNCHANGED <<local, dead, started, late, files>>
-----------------------------------------------------------------------------
(* fetchFile, and the client's side of it                                   *)

OpenForFetch(h) ==
    /\ At(h, "fetch")
    /\ LET f == call[h].file IN
       \/ /\ dir[f] = NoInode
          /\ Reply(h)
       \/ /\ dir[f] # NoInode
          /\ call' = [call EXCEPT ![h].pc = "compare", ![h].fd = dir[f]]
          /\ UNCHANGED waits
    /\ UNCHANGED <<local, dead, started, late, files, locks>>

\* Checksum and size are taken of the path, not of the open file; when that
\* has been removed, stat fails and the size is what statbuf happened to hold.
CompareForFetch(h) ==
    /\ At(h, "compare")
    /\ LET content == Content(call[h].file) IN
       \/ /\ Checksum(content) = call[h].sum
          /\ Reply(h)
       \/ /\ Checksum(content) # call[h].sum
          /\ \E n \in IF content = Absent THEN Sizes ELSE {Len(content)} :
                call' = [call EXCEPT ![h].pc = "send", ![h].size = n]
          /\ UNCHANGED waits
    /\ UNCHANGED <<local, dead, started, late, files, locks>>

\* A block on its way, read from the open file: the client opens its own file
\* with the first one.  A read past the end leaves the buffer as it was, and the
\* stream reads nothing from then on (it has no fd in the model any more).
SendBlock(h) ==
    /\ At(h, "send")
    /\ LET k == call[h]
           good == k.fd # NoInode /\ k.pos < Len(disk[k.fd])
           block == IF good THEN disk[k.fd][k.pos + 1] ELSE Junk
           old == IF k.pos = 0 THEN << >> ELSE local[k.client][k.file]
       IN /\ k.pos < k.size
          /\ call' = [call EXCEPT ![h].pos = @ + 1, ![h].fd = IF good THEN @ ELSE NoInode]
          /\ IF Awaited(h)
             THEN local' = [local EXCEPT ![k.client][k.file] = Put(old, k.pos, block)]
             ELSE UNCHANGED local
    /\ UNCHANGED <<waits, dead, started, late, files, locks>>

\* Variant for mutation: the loop ends one block early.
EndFetchEarly(h) ==
    /\ At(h, "send")
    /\ call[h].pos + 1 >= call[h].size \/ ~Awaited(h)
    /\ Reply(h)
    /\ UNCHANGED <<local, dead, started, late, files, locks>>

\* All blocks are sent, or the call is found to be cancelled.
EndFetch(h) ==
    /\ At(h, "send")
    /\ call[h].pos >= call[h].size \/ ~Awaited(h)
    /\ Reply(h)
    /\ UNCHANGED <<local, dead, started, late, files, locks>>
-----------------------------------------------------------------------------
(* deleteFile and requestLock                                               *)

\* The file is removed before the lock is asked for.
RemoveFile(h) ==
    /\ At(h, "remove")
    /\ LET f == call[h].file IN
       \/ /\ ~Awaited(h) \/ dir[f] = NoInode
          /\ Reply(h)
          /\ UNCHANGED dir
       \/ /\ dir[f] # NoInode
          /\ dir' = [dir EXCEPT ![f] = NoInode]
          /\ call' = Touched([call EXCEPT ![h].pc = "locking"], f)
          /\ UNCHANGED waits
    /\ UNCHANGED <<local, dead, started, late, disk, locks>>

LockForDelete(h) ==
    /\ At(h, "locking")
    /\ \/ /\ MayLock(h)
          /\ Lock(h)
          /\ Goto(h, "unlock")
          /\ UNCHANGED waits
       \/ /\ ~MayLock(h)
          /\ Reply(h)
          /\ UNCHANGED lockList
    /\ UNCHANGED <<local, dead, started, late, files, granted>>

\* With OK the client removes its own file too.
EndDelete(h) ==
    /\ At(h, "unlock")
    /\ Unlock(call[h].file)
    /\ Reply(h)
    /\ IF Awaited(h)
       THEN local' = [local EXCEPT ![call[h].client][call[h].file] = Absent]
       ELSE UNCHANGED local
    /\ UNCHANGED <<dead, started, late, files>>

GrantLock(h) ==
    /\ At(h, "ask")
    /\ \/ /\ MayLock(h)
          /\ Lock(h)
          /\ granted' = granted \cup {<<call[h].client, call[h].file>>}
       \/ /\ ~MayLock(h)
          /\ UNCHANGED locks
    /\ Reply(h)
    /\ UNCHANGED <<local, dead, started, late, files>>
-----------------------------------------------------------------------------
ClientStep(c) ==
    \/ TimeOut(c) \/ Die(c)
    \/ \E h \in Threads, f \in Files :
          Store(c, h, f) \/ Fetch(c, h, f) \/ Delete(c, h, f) \/ RequestWriteAccess(c, h, f)

HandlerStep(h) ==
    \/ ReceiveFirst(h) \/ LockForStore(h) \/ CompareForStore(h) \/ OpenForStore(h)
    \/ WriteBlock(h) \/ ReceiveNext(h) \/ EndStore(h)
    \/ OpenForFetch(h) \/ CompareForFetch(h) \/ SendBlock(h) \/ EndFetch(h)
    \/ RemoveFile(h) \/ LockForDelete(h) \/ EndDelete(h) \/ GrantLock(h)

Next ==
    \/ \E c \in Clients : ClientStep(c)
    \/ \E h \in Threads : HandlerStep(h)

Spec == Init /\ [][Next]_vars
-----------------------------------------------------------------------------
(* Properties.                                                              *)

StoreLabels == {"open", "write", "next", "end"}
LockLabels  == StoreLabels \cup {"check", "unlock"}
Labels      == LockLabels \cup {"idle", "first", "lock", "fetch", "compare", "send",
                                "remove", "locking", "ask"}
Calls    == [pc : Labels, client : Clients \cup {Nobody}, file : Files \cup {NoFile},
             sum : Seq(Blocks), fd : Inodes \cup {NoInode}, pos : Nat, size : Nat,
             touched : BOOLEAN]

StateTypeOK ==
    /\ local \in [Clients -> [Files -> Seq(Blocks) \cup {Absent}]]
    /\ waits \in [Clients -> Threads \cup {NoThread}]
    /\ dead \in SUBSET Clients
    /\ late \in SUBSET Clients
    /\ dir \in [Files -> Inodes \cup {NoInode}]
    /\ disk \in [Inodes -> Seq(Blocks)]
    /\ lockList \in [Files -> Clients \cup {Nobody}]
    /\ call \in [Threads -> Calls]
    /\ started \in 0 .. MaxCalls
    /\ granted \in SUBSET (Clients \X Files)

\* What the label of a call says of its locals.
LiveLocals(h) ==
    LET k == call[h] IN
    /\ k.pc = "idle" => k.fd = NoInode /\ k.client = Nobody
    /\ k.pc # "idle" => k.client \in Clients /\ k.file \in Files
    /\ k.pc \in {"write", "next", "end", "compare"} => k.fd # NoInode
    /\ k.pc \in {"first", "lock", "check", "open", "fetch", "compare"} => k.pos = 0
    /\ k.pc \in {"lock", "check", "open"} => k.sum # << >>
    /\ k.pc = "write" => k.pos < Len(k.sum)
    /\ k.pc = "send" /\ k.pos > 0 /\ Awaited(h) => local[k.client][k.file] # Absent

\* Each client waits for a call of its own, and no two names share an inode.
LiveCalls ==
    /\ \A h \in Threads : LiveLocals(h)
    /\ \A c \in Clients : waits[c] # NoThread => call[waits[c]].client = c
    /\ \A f, g \in Files : dir[f] = dir[g] /\ dir[f] # NoInode => f = g

\* Types of the client's and the server's state, which locals of a handler are
\* live at which label, and that each client waits for a call of its own.
TypeOK == StateTypeOK /\ LiveCalls

\* storeFile: one handler at a time writes a file, which is what lockList is for.
OneWriter ==
    \A g, h \in Threads :
        /\ call[g].pc \in StoreLabels /\ call[h].pc \in StoreLabels
        /\ call[g].file = call[h].file
        => g = h

\* As long as no client goes on after a deadline, lockList keeps writers apart,
\* also when clients die and when others delete the file.
StoresExclude == late = {} => OneWriter

\* Every lock has a reason: a handler between lock and unlock, a requestLock
\* whose client has not stored or deleted since, or a client that died while
\* it was storing.  No path through storeFile or deleteFile forgets one.
LockHasOwner ==
    \A f \in Files : lockList[f] # Nobody =>
        \/ \E h \in Threads : /\ call[h].pc \in LockLabels
                              /\ call[h].file = f
                              /\ call[h].client = lockList[f]
        \/ <<lockList[f], f>> \in granted
        \/ lockList[f] \in dead

Begins(s, v) == Len(s) <= Len(v) /\ s = SubSeq(v, 1, Len(s))

\* A file on the server is never a mixture of two stores: it is the beginning
\* of one version, and all of it unless that store is going on or its client
\* died, whatever other clients delete, fetch or try to store meanwhile (as
\* long as no client goes on after a deadline).
ServerFileWhole ==
    \A f \in Files : Content(f) # Absent =>
        /\ late = {} => \E v \in Versions : Begins(Content(f), v)
        /\ \/ Content(f) \in Versions
           \/ dead # {}
           \/ late # {}
           \/ \E h \in Threads : call[h].pc \in StoreLabels /\ call[h].fd = dir[f]

\* A fetch during which nobody changed the file gives its client exactly the
\* server's content.  (A fetch of an empty file sends no block, and the client
\* keeps what it had.)
FetchFaithful ==
    [][\A h \in Threads :
        LET k == call[h] IN
        k.pc = "send" /\ call'[h].pc = "idle" /\ ~k.touched /\ k.size > 0 /\ Awaited(h)
            => local'[k.client][k.file] = Content(k.file)]_vars
=============================================================================
