------------------------------ MODULE ShmCache ------------------------------
(***************************************************************************)
(* The web proxy and the cache daemon of pr3-SharedMemoryIPC/cache.        *)
(*                                                                         *)
(* A proxy worker (handle_with_cache) takes a segment id from a pool,      *)
(* re-initialises that shared-memory segment, sends "path id" through a    *)
(* bounded message queue and then copies the file out of the segment chunk *)
(* by chunk to its client.  The cache's boss thread moves messages from    *)
(* the message queue to an internal work queue; a cache worker takes one,  *)
(* announces the file's length and feeds the chunks into the segment.      *)
(* Three counting semaphores in each segment order the two processes:      *)
(* semS (length announced), semR (chunk ready), semW (chunk taken).        *)
(*                                                                         *)
(* One action is one section of code between two points where another      *)
(* thread can interfere: a critical section of mux that does not block is  *)
(* one action, every blocking call starts a new one.                       *)
(***************************************************************************)
EXTENDS Integers, Sequences

CONSTANTS
    Workers,       \* threads of the proxy's gfserver pool
    CacheWorkers,  \* threads of the cache that run cacheWorkerFunction
    NumSegments,   \* nsegments, the proxy's -n option
    Files,         \* the paths clients ask for
    Cached,        \* those of them that the cache holds
    FileSize,      \* the size in bytes of each cached file
    ChunkSize,     \* bytes copied per handshake (3499 in the code)
    MaxMsg,        \* mq_maxmsg (10 in the code)
    MaxRequests,   \* bound of the model: how many requests the clients make
    SizeModulus,   \* 2^64 in the code: where the size_t counter wraps
    SendMayFail,   \* may gfs_send report -1 (the client went away)?
    StalePosts     \* value the named semaphore /CACHE holds at start-up

Segments == 0 .. (NumSegments - 1)
Messages == [file : Files, seg : Segments]
Chunks   == [file : Files, at : Nat]

Nobody    == "nobody"
NoSegment == -1
NoFile    == "no file"
NoMessage == [file |-> NoFile, seg |-> NoSegment]
Zeroes    == [file |-> NoFile, at |-> 0]   \* a data area nothing was copied to

ASSUME SizesAssumption ==
    /\ NumSegments \in Nat \ {0}
    /\ ChunkSize \in Nat \ {0}
    /\ MaxMsg \in Nat \ {0}
    /\ MaxRequests \in Nat
    /\ StalePosts \in Nat
    /\ SizeModulus \in Nat \ {0}
    /\ SendMayFail \in BOOLEAN
ASSUME FilesAssumption ==
    /\ Cached \subseteq Files
    /\ FileSize \in [Cached -> Nat]
    /\ \A f \in Cached : FileSize[f] + 1 < SizeModulus
ASSUME NamesAssumption ==
    /\ Nobody \notin Workers
    /\ NoFile \notin Files

VARIABLES
    \* the proxy
    ppc,        \* where each proxy worker is in handle_with_cache
    req,        \* the path it serves
    pseg,       \* the segment id it popped (i)
    flen,       \* file_len
    sent,       \* bytes_transferred, a size_t
    data,       \* the local copy of the chunk (data[3500])
    pool,       \* queue: the free segment ids
    mux,        \* who holds the proxy's mux across a blocking call
    status,     \* header the client got for the current request
    got,        \* chunks the client got for the current request, in order
    left,       \* requests the clients will still make
    \* the message queue
    mq,
    \* the segments
    fileLength, semS, semR, semW, buffer,
    \* the cache
    bossMsg,    \* the message bossWorker holds between mqueue_read and enqueue
    work,       \* queue: messages waiting for a cache worker
    semCache,   \* the named semaphore /CACHE
    cpc,        \* where each cache worker is in cacheWorkerFunction
    cmsg,       \* the message it works on
    cpos,       \* bytes_transferred, an int
    exited      \* has the cache process called exit?

clientVars  == <<status, got, left>>
workerVars  == <<req, pseg, flen, sent, data>>
segmentVars == <<fileLength, semS, semR, semW, buffer>>
bossVars    == <<bossMsg, work, semCache>>
cworkerVars == <<cpc, cmsg, cpos, exited>>
cacheVars   == <<bossVars, cworkerVars>>
vars == <<ppc, workerVars, pool, mux, clientVars, mq, segmentVars, cacheVars>>

Goto(w, label)  == ppc' = [ppc EXCEPT ![w] = label]
CGoto(c, label) == cpc' = [cpc EXCEPT ![c] = label]

Post(sem, s) == [sem EXCEPT ![s] = @ + 1]
Wait(sem, s) == [sem EXCEPT ![s] = @ - 1]

\* simplecache_get and fstat: the size of a cached file, 0 for any other path.
LengthOf(f) == IF f \in Cached THEN FileSize[f] ELSE 0

\* Both ends move ChunkSize bytes, or what is left when that is less.
ChunkLen(remaining) == IF remaining < ChunkSize THEN remaining ELSE ChunkSize

\* sem_open without O_EXCL: the value an earlier run of the cache left.
SemCacheLeftOver == StalePosts + 1
SemCacheInitially == StalePosts

Init ==
    /\ ppc = [w \in Workers |-> "idle"]
    /\ req = [w \in Workers |-> NoFile]
    /\ pseg = [w \in Workers |-> NoSegment]
    /\ flen = [w \in Workers |-> 0]
    /\ sent = [w \in Workers |-> 0]
    /\ data = [w \in Workers |-> Zeroes]
    /\ pool = [i \in 1 .. NumSegments |-> i - 1]
    /\ mux = Nobody
    /\ status = [w \in Workers |-> "none"]
    /\ got = [w \in Workers |-> << >>]
    /\ left = MaxRequests
    /\ mq = << >>
    /\ fileLength = [s \in Segments |-> -1]
    /\ semS = [s \in Segments |-> 0]
    /\ semR = [s \in Segments |-> 0]
    /\ semW = [s \in Segments |-> 0]
    /\ buffer = [s \in Segments |-> Zeroes]
    /\ bossMsg = NoMessage
    /\ work = << >>
    /\ semCache = SemCacheInitially
    /\ cpc = [c \in CacheWorkers |-> "idle"]
    /\ cmsg = [c \in CacheWorkers |-> NoMessage]
    /\ cpos = [c \in CacheWorkers |-> 0]
    /\ exited = FALSE

-----------------------------------------------------------------------------
(* The proxy worker: handle_with_cache.                                     *)

\* External: a client's request reaches an idle thread of the gfserver pool.
StartRequest(w) ==
    /\ ppc[w] = "idle"
    /\ left > 0
    /\ left' = left - 1
    /\ \E f \in Files : req' = [req EXCEPT ![w] = f]
    /\ Goto(w, "take")
    /\ UNCHANGED <<pseg, flen, sent, data, pool, mux, status, got, mq,
                   segmentVars, cacheVars>>

\* Variant for mutation: steque_front in place of steque_pop.
PeekSegment(w) ==
    /\ ppc[w] = "take"
    /\ mux = Nobody
    /\ pool # << >>
    /\ pseg' = [pseg EXCEPT ![w] = Head(pool)]
    /\ Goto(w, "initS")
    /\ UNCHANGED <<req, flen, sent, data, pool, mux, clientVars, mq, segmentVars,
                   cacheVars>>

\* The test of the while loop fails: pop the oldest free segment.
TakeSegment(w) ==
    /\ ppc[w] = "take"
    /\ mux = Nobody
    /\ pool # << >>
    /\ pseg' = [pseg EXCEPT ![w] = Head(pool)]
    /\ pool' = Tail(pool)
    /\ Goto(w, "initS")
    /\ UNCHANGED <<req, flen, sent, data, mux, clientVars, mq, segmentVars, cacheVars>>

\* The pool is empty: pthread_cond_wait gives mux up and sleeps.
SleepForSegment(w) ==
    /\ ppc[w] = "take"
    /\ mux = Nobody
    /\ pool = << >>
    /\ Goto(w, "asleep")
    /\ UNCHANGED <<workerVars, pool, mux, clientVars, mq, segmentVars, cacheVars>>

\* POSIX lets pthread_cond_wait return without a signal.
WakeSpuriously(w) ==
    /\ ppc[w] = "asleep"
    /\ Goto(w, "take")
    /\ UNCHANGED <<workerVars, pool, mux, clientVars, mq, segmentVars, cacheVars>>

\* shm_create up to the second sem_init: no length yet, semS and semR are 0.
InitSegment(w) ==
    /\ ppc[w] = "initS"
    /\ fileLength' = [fileLength EXCEPT ![pseg[w]] = -1]
    /\ semS' = [semS EXCEPT ![pseg[w]] = 0]
    /\ semR' = [semR EXCEPT ![pseg[w]] = 0]
    /\ Goto(w, "initW")
    /\ UNCHANGED <<workerVars, pool, mux, clientVars, mq, semW, buffer, cacheVars>>

\* shm_create's last sem_init: a post of semW that nobody took yet is lost.
InitWriterSem(w) ==
    /\ ppc[w] = "initW"
    /\ semW' = [semW EXCEPT ![pseg[w]] = 0]
    /\ Goto(w, "lock")
    /\ UNCHANGED <<workerVars, pool, mux, clientVars, mq, fileLength, semS, semR,
                   buffer, cacheVars>>

\* mux is taken again, and kept while mqueue_write may block.
LockForRequest(w) ==
    /\ ppc[w] = "lock"
    /\ mux = Nobody
    /\ mux' = w
    /\ Goto(w, "mqsend")
    /\ UNCHANGED <<workerVars, pool, clientVars, mq, segmentVars, cacheVars>>

\* Variant for mutation: the queue is used as if it had no bound.
SendUnbounded(w) ==
    /\ ppc[w] = "mqsend"
    /\ mq' = Append(mq, [file |-> req[w], seg |-> pseg[w]])
    /\ mux' = Nobody
    /\ Goto(w, "waitS")
    /\ UNCHANGED <<workerVars, pool, clientVars, segmentVars, cacheVars>>

\* mq_send returns once there is room; then mux is released.
SendRequest(w) ==
    /\ ppc[w] = "mqsend"
    /\ Len(mq) < MaxMsg
    /\ mq' = Append(mq, [file |-> req[w], seg |-> pseg[w]])
    /\ mux' = Nobody
    /\ Goto(w, "waitS")
    /\ UNCHANGED <<workerVars, pool, clientVars, segmentVars, cacheVars>>

\* Variant for mutation: the length is read without waiting for semS.
ReadLengthEarly(w) ==
    /\ ppc[w] = "waitS"
    /\ flen' = [flen EXCEPT ![w] = fileLength[pseg[w]] % SizeModulus]
    /\ status' = [status EXCEPT ![w] = IF flen'[w] = 0 THEN @ ELSE "ok"]
    /\ Goto(w, IF flen'[w] = 0 THEN "release" ELSE "waitR")
    /\ UNCHANGED <<req, pseg, sent, data, pool, mux, got, left, mq, segmentVars,
                   cacheVars>>

\* The cache announced a length: 0 means not found, anything else GF_OK.
ReadLength(w) ==
    /\ ppc[w] = "waitS"
    /\ semS[pseg[w]] > 0
    /\ semS' = Wait(semS, pseg[w])
    /\ flen' = [flen EXCEPT ![w] = fileLength[pseg[w]] % SizeModulus]
    /\ \/ /\ flen'[w] = 0
          /\ Goto(w, "release")
          /\ UNCHANGED status
       \/ /\ flen'[w] # 0
          /\ status' = [status EXCEPT ![w] = "ok"]
          /\ Goto(w, "waitR")
    /\ UNCHANGED <<req, pseg, sent, data, pool, mux, got, left, mq, fileLength,
                   semR, semW, buffer, cacheVars>>

AwaitChunk(w) ==
    /\ ppc[w] = "waitR"
    /\ semR[pseg[w]] > 0
    /\ semR' = Wait(semR, pseg[w])
    /\ Goto(w, "copy")
    /\ UNCHANGED <<workerVars, pool, mux, clientVars, mq, fileLength, semS, semW,
                   buffer, cacheVars>>

\* shm_read_data into the local array, then the writer is let go on.
CopyChunk(w) ==
    /\ ppc[w] = "copy"
    /\ data' = [data EXCEPT ![w] = buffer[pseg[w]]]
    /\ semW' = Post(semW, pseg[w])
    /\ Goto(w, "send")
    /\ UNCHANGED <<req, pseg, flen, sent, pool, mux, clientVars, mq, fileLength,
                   semS, semR, buffer, cacheVars>>

\* Variant for mutation: only whole chunks are waited for.
CountWholeChunks(w, writeLen) ==
    /\ sent' = [sent EXCEPT ![w] = (@ + writeLen) % SizeModulus]
    /\ Goto(w, IF sent'[w] + ChunkSize <= flen[w] THEN "waitR" ELSE "release")

\* bytes_transferred += write_len, and the test of the transfer loop.
CountBytes(w, writeLen) ==
    /\ sent' = [sent EXCEPT ![w] = (@ + writeLen) % SizeModulus]
    /\ Goto(w, IF sent'[w] < flen[w] THEN "waitR" ELSE "release")

SendChunk(w) ==
    /\ ppc[w] = "send"
    /\ CountBytes(w, ChunkLen(flen[w] - sent[w]))
    /\ got' = [got EXCEPT ![w] = Append(@, data[w])]
    /\ UNCHANGED <<req, pseg, flen, data, pool, mux, status, left, mq,
                   segmentVars, cacheVars>>

\* gfs_send reports -1, which the code adds to its size_t as it stands.
FailToSend(w) ==
    /\ ppc[w] = "send"
    /\ SendMayFail
    /\ CountBytes(w, SizeModulus - 1)
    /\ UNCHANGED <<req, pseg, flen, data, pool, mux, clientVars, mq,
                   segmentVars, cacheVars>>

\* The segment id goes back to the end of the pool.
ReleaseSegment(w) ==
    /\ ppc[w] = "release"
    /\ mux = Nobody
    /\ pool' = Append(pool, pseg[w])
    /\ pseg' = [pseg EXCEPT ![w] = NoSegment]
    /\ Goto(w, "signal")
    /\ UNCHANGED <<req, flen, sent, data, mux, clientVars, mq, segmentVars, cacheVars>>

\* Variant for mutation: pthread_cond_signal is left out.
FreeSilently(w) ==
    /\ ppc[w] = "signal"
    /\ Goto(w, "return")
    /\ status' = [status EXCEPT ![w] = IF flen[w] = 0 THEN "notfound" ELSE @]
    /\ UNCHANGED <<workerVars, pool, mux, got, left, mq, segmentVars, cacheVars>>

\* pthread_cond_signal wakes one sleeper, if there is one; a request that
\* found nothing answers its client only now.
SignalFree(w) ==
    /\ ppc[w] = "signal"
    /\ LET asleep == {v \in Workers : ppc[v] = "asleep"} IN
       \/ /\ asleep = {}
          /\ Goto(w, "return")
       \/ \E v \in asleep : ppc' = [ppc EXCEPT ![w] = "return", ![v] = "take"]
    /\ status' = [status EXCEPT ![w] = IF flen[w] = 0 THEN "notfound" ELSE @]
    /\ UNCHANGED <<workerVars, pool, mux, got, left, mq, segmentVars, cacheVars>>

\* handle_with_cache returns into the library; its locals are gone.
Return(w) ==
    /\ ppc[w] = "return"
    /\ Goto(w, "idle")
    /\ req' = [req EXCEPT ![w] = NoFile]
    /\ flen' = [flen EXCEPT ![w] = 0]
    /\ sent' = [sent EXCEPT ![w] = 0]
    /\ data' = [data EXCEPT ![w] = Zeroes]
    /\ status' = [status EXCEPT ![w] = "none"]
    /\ got' = [got EXCEPT ![w] = << >>]
    /\ UNCHANGED <<pseg, pool, mux, left, mq, segmentVars, cacheVars>>

-----------------------------------------------------------------------------
(* The cache daemon: bossWorker and cacheWorkerFunction.                    *)

BossReceive ==
    /\ ~exited
    /\ bossMsg = NoMessage
    /\ mq # << >>
    /\ bossMsg' = Head(mq)
    /\ mq' = Tail(mq)
    /\ UNCHANGED <<ppc, workerVars, pool, mux, clientVars, segmentVars, work,
                   semCache, cworkerVars>>

BossEnqueue ==
    /\ ~exited
    /\ bossMsg # NoMessage
    /\ work' = Append(work, bossMsg)
    /\ semCache' = semCache + 1
    /\ bossMsg' = NoMessage
    /\ UNCHANGED <<ppc, workerVars, pool, mux, clientVars, mq, segmentVars,
                   cworkerVars>>

TakePost(c) ==
    /\ ~exited
    /\ cpc[c] = "idle"
    /\ semCache > 0
    /\ semCache' = semCache - 1
    /\ CGoto(c, "pop")
    /\ UNCHANGED <<ppc, workerVars, pool, mux, clientVars, mq, segmentVars,
                   bossMsg, work, cmsg, cpos, exited>>

\* Variant for mutation: steque_front in place of steque_pop.
PeekWork(c) ==
    /\ ~exited
    /\ cpc[c] = "pop"
    /\ work # << >>
    /\ cmsg' = [cmsg EXCEPT ![c] = Head(work)]
    /\ CGoto(c, "announce")
    /\ UNCHANGED <<ppc, workerVars, pool, mux, clientVars, mq, segmentVars,
                   bossVars, cpos, exited>>

\* steque_pop calls exit when the queue is empty.
PopWork(c) ==
    /\ ~exited
    /\ cpc[c] = "pop"
    /\ \/ /\ work = << >>
          /\ exited' = TRUE
          /\ UNCHANGED <<work, cpc, cmsg>>
       \/ /\ work # << >>
          /\ cmsg' = [cmsg EXCEPT ![c] = Head(work)]
          /\ work' = Tail(work)
          /\ CGoto(c, "announce")
          /\ UNCHANGED exited
    /\ UNCHANGED <<ppc, workerVars, pool, mux, clientVars, mq, segmentVars,
                   bossMsg, semCache, cpos>>

\* The test of the transfer loop: go on, or unmap and wait for the next message.
NextChunkOrIdle(c, position, length) ==
    \/ /\ position < length
       /\ CGoto(c, "write")
       /\ cpos' = [cpos EXCEPT ![c] = position]
       /\ UNCHANGED cmsg
    \/ /\ position >= length
       /\ CGoto(c, "idle")
       /\ cpos' = [cpos EXCEPT ![c] = 0]
       /\ cmsg' = [cmsg EXCEPT ![c] = NoMessage]

\* Length of the file into the segment, and semS; a path the cache does not
\* hold is announced with length 0, as an empty file is.
Announce(c) ==
    /\ ~exited
    /\ cpc[c] = "announce"
    /\ fileLength' = [fileLength EXCEPT ![cmsg[c].seg] = LengthOf(cmsg[c].file)]
    /\ semS' = Post(semS, cmsg[c].seg)
    /\ NextChunkOrIdle(c, 0, LengthOf(cmsg[c].file))
    /\ UNCHANGED <<ppc, workerVars, pool, mux, clientVars, mq, semR, semW, buffer,
                   bossVars, exited>>

\* Variant for mutation: pread always at offset 0.
WriteFirstChunk(c) ==
    /\ ~exited
    /\ cpc[c] = "write"
    /\ buffer' = [buffer EXCEPT ![cmsg[c].seg] = [file |-> cmsg[c].file, at |-> 0]]
    /\ CGoto(c, "post")
    /\ UNCHANGED <<ppc, workerVars, pool, mux, clientVars, mq, fileLength, semS,
                   semR, semW, bossVars, cmsg, cpos, exited>>

\* pread at the worker's own offset, then shm_write_data.
WriteChunk(c) ==
    /\ ~exited
    /\ cpc[c] = "write"
    /\ buffer' = [buffer EXCEPT ![cmsg[c].seg] = [file |-> cmsg[c].file, at |-> cpos[c]]]
    /\ CGoto(c, "post")
    /\ UNCHANGED <<ppc, workerVars, pool, mux, clientVars, mq, fileLength, semS,
                   semR, semW, bossVars, cmsg, cpos, exited>>

PostChunk(c) ==
    /\ ~exited
    /\ cpc[c] = "post"
    /\ semR' = Post(semR, cmsg[c].seg)
    /\ cpos' = [cpos EXCEPT ![c] = @ + ChunkLen(LengthOf(cmsg[c].file) - @)]
    /\ CGoto(c, "waitW")
    /\ UNCHANGED <<ppc, workerVars, pool, mux, clientVars, mq, fileLength, semS,
                   semW, buffer, bossVars, cmsg, exited>>

\* Variant for mutation: the cache does not wait until the chunk was taken.
RushOn(c) ==
    /\ ~exited
    /\ cpc[c] = "waitW"
    /\ NextChunkOrIdle(c, cpos[c], LengthOf(cmsg[c].file))
    /\ UNCHANGED <<ppc, workerVars, pool, mux, clientVars, mq, segmentVars,
                   bossVars, exited>>

AwaitTaken(c) ==
    /\ ~exited
    /\ cpc[c] = "waitW"
    /\ semW[cmsg[c].seg] > 0
    /\ semW' = Wait(semW, cmsg[c].seg)
    /\ NextChunkOrIdle(c, cpos[c], LengthOf(cmsg[c].file))
    /\ UNCHANGED <<ppc, workerVars, pool, mux, clientVars, mq, fileLength, semS,
                   semR, buffer, bossVars, exited>>
-----------------------------------------------------------------------------
\* The steps a proxy worker takes by itself, without a client or an accident.
ProxyStep(w) ==
    \/ TakeSegment(w) \/ SleepForSegment(w)
    \/ InitSegment(w) \/ InitWriterSem(w)
    \/ LockForRequest(w) \/ SendRequest(w) \/ ReadLength(w)
    \/ AwaitChunk(w) \/ CopyChunk(w) \/ SendChunk(w)
    \/ ReleaseSegment(w) \/ SignalFree(w) \/ Return(w)

CacheStep(c) ==
    \/ TakePost(c) \/ PopWork(c) \/ Announce(c)
    \/ WriteChunk(c) \/ PostChunk(c) \/ AwaitTaken(c)

Next ==
    \/ \E w \in Workers :
        StartRequest(w) \/ WakeSpuriously(w) \/ FailToSend(w) \/ ProxyStep(w)
    \/ BossReceive \/ BossEnqueue
    \/ \E c \in CacheWorkers : CacheStep(c)

Spec == Init /\ [][Next]_vars

\* Every thread that can run is eventually scheduled; nothing is assumed of
\* the clients, of spurious wake-ups or of which thread wins a lock.
FairSpec ==
    /\ Spec
    /\ \A w \in Workers : WF_vars(ProxyStep(w))
    /\ WF_vars(BossReceive) /\ WF_vars(BossEnqueue)
    /\ \A c \in CacheWorkers : WF_vars(CacheStep(c))
-----------------------------------------------------------------------------
(* Properties.                                                              *)

ProxyLabels == {"idle", "take", "asleep", "initS", "initW", "lock", "mqsend",
                "waitS", "waitR", "copy", "send", "release", "signal", "return"}
CacheLabels == {"idle", "pop", "announce", "write", "post", "waitW"}

\* The labels at which a worker has taken a segment and not given it back.
Holding(w) == ppc[w] \in {"initS", "initW", "lock", "mqsend", "waitS", "waitR",
                          "copy", "send", "release"}

WorkerTypeOK ==
    /\ ppc \in [Workers -> ProxyLabels]
    /\ req \in [Workers -> Files \cup {NoFile}]
    /\ pseg \in [Workers -> Segments \cup {NoSegment}]
    /\ flen \in [Workers -> Nat]
    /\ sent \in [Workers -> Nat]
    /\ data \in [Workers -> Chunks \cup {Zeroes}]
PoolTypeOK ==
    /\ pool \in Seq(Segments)
    /\ mux \in Workers \cup {Nobody}
ClientTypeOK ==
    /\ status \in [Workers -> {"none", "ok", "notfound"}]
    /\ got \in [Workers -> Seq(Chunks \cup {Zeroes})]
    /\ left \in 0 .. MaxRequests
QueueTypeOK == mq \in Seq(Messages) /\ Len(mq) <= MaxMsg
SegmentTypeOK ==
    /\ fileLength \in [Segments -> Int]
    /\ semS \in [Segments -> Nat]
    /\ semR \in [Segments -> Nat]
    /\ semW \in [Segments -> Nat]
    /\ buffer \in [Segments -> Chunks \cup {Zeroes}]
BossTypeOK ==
    /\ bossMsg \in Messages \cup {NoMessage}
    /\ work \in Seq(Messages)
    /\ semCache \in Nat
CacheWorkerTypeOK ==
    /\ cpc \in [CacheWorkers -> CacheLabels]
    /\ cmsg \in [CacheWorkers -> Messages \cup {NoMessage}]
    /\ cpos \in [CacheWorkers -> Nat]

\* Which locals are live at which label, and who holds mux.
LiveLocals ==
    /\ \A w \in Workers : req[w] = NoFile <=> ppc[w] = "idle"
    /\ \A w \in Workers : pseg[w] = NoSegment <=> ~Holding(w)
    /\ \A w \in Workers : mux = w <=> ppc[w] = "mqsend"
    /\ \A c \in CacheWorkers : cmsg[c] = NoMessage <=> cpc[c] \in {"idle", "pop"}

\* Types of all variables of handle_with_cache, the segments and simplecached;
\* the message queue within its bound; which locals are live at which label.
TypeOK ==
    /\ WorkerTypeOK
    /\ PoolTypeOK
    /\ ClientTypeOK
    /\ QueueTypeOK
    /\ SegmentTypeOK
    /\ BossTypeOK
    /\ CacheWorkerTypeOK
    /\ exited \in BOOLEAN
    /\ LiveLocals

FreeOnce    == \A i, j \in DOMAIN pool : pool[i] = pool[j] => i = j
FreeNotHeld == \A w \in Workers, i \in DOMAIN pool : pool[i] # pseg[w]
HeldOnce    == \A v, w \in Workers : v # w /\ pseg[v] # NoSegment => pseg[v] # pseg[w]
NoneLost    == \A s \in Segments : \/ \E i \in DOMAIN pool : pool[i] = s
                                   \/ \E w \in Workers : pseg[w] = s

\* A segment id is free at most once, no worker holds a free one, no two
\* workers hold the same one, and none is lost: what the pool behind mux and
\* cond in handle_with_cache must guarantee, whatever fails on the way.
SegmentOwnership ==
    /\ FreeOnce
    /\ FreeNotHeld
    /\ HeldOnce
    /\ NoneLost

\* A client gets chunks of the file it asked for only, in order and without a
\* gap, however the requests of other clients interleave on the same segments.
ReplyIntegrity ==
    \A w \in Workers :
        got[w] = [i \in DOMAIN got[w] |->
                     [file |-> req[w], at |-> (i - 1) * ChunkSize]]

\* No cache worker overwrites a chunk that the proxy has not copied out yet:
\* the handshake of semR and semW makes a one-place buffer of the segment.
NoOverwrite ==
    \A c \in CacheWorkers, w \in Workers :
        cpc[c] = "write" /\ pseg[w] = cmsg[c].seg =>
            /\ semR[pseg[w]] = 0
            /\ ppc[w] # "copy"

\* No cache worker pops the empty work queue, which would end the process:
\* every post of semCache stands for one message in the queue.
CacheSurvives == ~exited

\* Where a request for segment s can be between mqueue_write and the post of
\* semS: in the message queue, with the boss, in the work queue or with a
\* cache worker that has not announced a length yet.
Carriers(s) ==
    {<<"mq", i>> : i \in {j \in DOMAIN mq : mq[j].seg = s}}
    \cup {<<"boss", m>> : m \in {bossMsg} \cap [file : Files, seg : {s}]}
    \cup {<<"work", i>> : i \in {j \in DOMAIN work : work[j].seg = s}}
    \cup {<<"cache", c>> : c \in {d \in CacheWorkers :
                                    cpc[d] = "announce" /\ cmsg[d].seg = s}}

\* A request is never lost, doubled or answered twice on its way through the
\* queues: while a worker waits for semS exactly one carrier brings its
\* request, or semS has been posted exactly once; else there is neither.
OneAnswerPerRequest ==
    \A s \in Segments :
        LET waiting == \E w \in Workers : ppc[w] = "waitS" /\ pseg[w] = s IN
        /\ \A x, y \in Carriers(s) : x = y
        /\ semS[s] \in {0, 1}
        /\ waiting => (Carriers(s) = {} <=> semS[s] = 1)
        /\ ~waiting => Carriers(s) = {} /\ semS[s] = 0

\* A client is told "not found" only when the cache holds no byte of its path,
\* and "ok" only with that file's own length, even after a failed gfs_send
\* has left a cache worker on the segment.
HeaderTruthful ==
    \A w \in Workers :
        /\ status[w] = "notfound" => LengthOf(req[w]) = 0
        /\ status[w] = "ok" => LengthOf(req[w]) > 0 /\ flen[w] = LengthOf(req[w])

\* A worker that gets a segment id knows that no cache worker still waits on
\* it.  It is not an invariant of the code: the last chunk's semW post is
\* awaited by the cache worker while the id is already back in the pool.
NoStaleWaiter ==
    \A w \in Workers, c \in CacheWorkers :
        ppc[w] = "initW" => cmsg[c].seg # pseg[w]

\* Every request is answered: handle_with_cache returns.
EveryRequestAnswered == \A w \in Workers : ppc[w] # "idle" ~> ppc[w] = "idle"

\* As long as no segment is re-initialised under a cache worker, every request
\* is answered, the pool's sleepers are woken and the two processes never wait
\* for each other.
AnsweredUnlessStale == []NoStaleWaiter => EveryRequestAnswered

-----------------------------------------------------------------------------
(* What the clients see of it.                                              *)

Service == INSTANCE ProxyService WITH
    Length <- LengthOf, asked <- req, header <- status, body <- got

\* Whatever the proxy and the cache do, each client sees what ProxyService
\* promises: the right header, all chunks of its own file in order, then the end.
ServiceRefined == Service!Spec
=============================================================================
