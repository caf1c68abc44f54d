-------------------------- MODULE ShmCache_proofs --------------------------
(***************************************************************************)
(* Theorems about ShmCache for every number of workers, segments, files    *)
(* and requests, with failing sends and a left-over semaphore included:    *)
(* who has a segment when; the way of a request through message queue,     *)
(* boss, work queue and cache worker, which is answered once, with the     *)
(* length of its own file; and that the cache does not exit when /CACHE    *)
(* was 0 at its start.                                                     *)
(***************************************************************************)
EXTENDS ShmCache, FiniteSetTheorems, TLAPS

\* The sentinels are no value of the type they stand beside.
LEMMA Sentinels ==
    /\ NoSegment \notin Segments
    /\ NoMessage \notin Messages
    /\ Zeroes \notin Chunks
    /\ Segments \subseteq Nat
BY SizesAssumption, NamesAssumption
   DEF NoSegment, Segments, NoMessage, Messages, Zeroes, Chunks

\* The length announced for a path is a natural number below the modulus.
LEMMA LengthType == \A f \in Files : LengthOf(f) \in Nat
BY FilesAssumption DEF LengthOf

\* Moving on by one chunk, a position stays a natural number.
LEMMA AdvanceType ==
    ASSUME NEW position \in Nat, NEW length \in Nat
    PROVE  position + ChunkLen(length - position) \in Nat
BY SizesAssumption DEF ChunkLen

LEMMA TypeInit == Init => TypeOK
<1> SUFFICES ASSUME Init PROVE TypeOK
  OBVIOUS
<1>1. pool \in Seq(Segments)
  <2>1. \A i \in 1 .. NumSegments : i - 1 \in Segments
    BY SizesAssumption DEF Segments
  <2>2. NumSegments \in Nat
    BY SizesAssumption
  <2> QED BY <2>1, <2>2 DEF Init
<1>2. WorkerTypeOK
  BY DEF Init, WorkerTypeOK, ProxyLabels
<1>3. PoolTypeOK
  BY <1>1 DEF Init, PoolTypeOK
<1>4. ClientTypeOK /\ QueueTypeOK
  BY SizesAssumption DEF Init, ClientTypeOK, QueueTypeOK
<1>5. SegmentTypeOK
  BY DEF Init, SegmentTypeOK
<1>6. BossTypeOK
  BY SizesAssumption DEF Init, BossTypeOK, SemCacheInitially
<1>7. CacheWorkerTypeOK
  BY DEF Init, CacheWorkerTypeOK, CacheLabels
<1>8. exited \in BOOLEAN
  BY DEF Init
<1>9. LiveLocals
  BY NamesAssumption DEF Init, LiveLocals, Holding
<1> QED BY <1>2, <1>3, <1>4, <1>5, <1>6, <1>7, <1>8, <1>9 DEF TypeOK
\* The head of a queue is of the queue's type, and so is what remains.
LEMMA HeadTail ==
    ASSUME NEW S, NEW q \in Seq(S), q # << >>
    PROVE  /\ Head(q) \in S /\ Tail(q) \in Seq(S)
           /\ Len(Tail(q)) = Len(q) - 1 /\ Len(q) \in Nat
OBVIOUS

\* Reduction modulo 2^64 gives a natural number.
LEMMA ReducedType == \A n \in Int : n % SizeModulus \in Nat
BY SizesAssumption

\* Between pop and enqueue a proxy worker has a segment and a path.
LEMMA HeldSegment ==
    ASSUME TypeOK, NEW w \in Workers, Holding(w)
    PROVE  pseg[w] \in Segments /\ req[w] \in Files
BY DEF TypeOK, WorkerTypeOK, LiveLocals, Holding

\* A cache worker that popped a message has it in hand.
LEMMA MessageInHand ==
    ASSUME TypeOK, NEW c \in CacheWorkers, cpc[c] \notin {"idle", "pop"}
    PROVE  cmsg[c].seg \in Segments /\ cmsg[c].file \in Files
BY DEF TypeOK, CacheWorkerTypeOK, LiveLocals, Messages

\* StartRequest keeps the types.
LEMMA TypeStartRequest ==
    ASSUME TypeOK, NEW w \in Workers, StartRequest(w)
    PROVE  TypeOK'
<1>1. WorkerTypeOK'
  BY DEF TypeOK, WorkerTypeOK, ProxyLabels, StartRequest, Goto
<1>2. ClientTypeOK'
  BY SizesAssumption DEF TypeOK, ClientTypeOK, StartRequest, Goto
<1>3. LiveLocals'
  BY NamesAssumption DEF TypeOK, LiveLocals, WorkerTypeOK, Holding,
     StartRequest, Goto, cacheVars, cworkerVars
<1> QED BY <1>1, <1>2, <1>3 DEF TypeOK, PoolTypeOK, QueueTypeOK,
        SegmentTypeOK, BossTypeOK, CacheWorkerTypeOK, StartRequest,
        segmentVars, cacheVars, bossVars, cworkerVars

\* WakeSpuriously keeps the types.
LEMMA TypeWakeSpuriously ==
    ASSUME TypeOK, NEW w \in Workers, WakeSpuriously(w)
    PROVE  TypeOK'
<1>1. WorkerTypeOK'
  BY DEF TypeOK, WorkerTypeOK, ProxyLabels, WakeSpuriously, Goto, workerVars
<1>2. LiveLocals'
  BY DEF TypeOK, LiveLocals, WorkerTypeOK, Holding, WakeSpuriously, Goto,
     workerVars, cacheVars, cworkerVars
<1> QED BY <1>1, <1>2 DEF TypeOK, PoolTypeOK, ClientTypeOK, QueueTypeOK,
        SegmentTypeOK, BossTypeOK, CacheWorkerTypeOK, WakeSpuriously,
        clientVars, segmentVars, cacheVars, bossVars, cworkerVars

\* FailToSend keeps the types.
LEMMA TypeFailToSend ==
    ASSUME TypeOK, NEW w \in Workers, FailToSend(w)
    PROVE  TypeOK'
<1>1. sent[w] + (SizeModulus - 1) \in Int
  BY SizesAssumption DEF TypeOK, WorkerTypeOK
<1>2. WorkerTypeOK'
  BY <1>1, ReducedType DEF TypeOK, WorkerTypeOK, ProxyLabels, FailToSend,
     CountBytes, Goto
<1>3. LiveLocals'
  BY DEF TypeOK, LiveLocals, WorkerTypeOK, Holding, FailToSend, CountBytes,
     Goto, cacheVars, cworkerVars
<1> QED BY <1>2, <1>3 DEF TypeOK, PoolTypeOK, ClientTypeOK, QueueTypeOK,
        SegmentTypeOK, BossTypeOK, CacheWorkerTypeOK, FailToSend, clientVars,
        segmentVars, cacheVars, bossVars, cworkerVars

\* TakeSegment keeps the types.
LEMMA TypeTakeSegment ==
    ASSUME TypeOK, NEW w \in Workers, TakeSegment(w)
    PROVE  TypeOK'
<1>1. Head(pool) \in Segments /\ Tail(pool) \in Seq(Segments)
  BY HeadTail DEF TypeOK, PoolTypeOK, TakeSegment
<1>2. WorkerTypeOK'
  BY <1>1 DEF TypeOK, WorkerTypeOK, ProxyLabels, TakeSegment, Goto
<1>3. PoolTypeOK'
  BY <1>1 DEF TypeOK, PoolTypeOK, TakeSegment, Goto
<1>4. LiveLocals'
  BY <1>1, Sentinels DEF TypeOK, LiveLocals, WorkerTypeOK, Holding, PoolTypeOK,
     TakeSegment, Goto, cacheVars, cworkerVars
<1> QED BY <1>2, <1>3, <1>4 DEF TypeOK, ClientTypeOK, QueueTypeOK,
        SegmentTypeOK, BossTypeOK, CacheWorkerTypeOK, TakeSegment, clientVars,
        segmentVars, cacheVars, bossVars, cworkerVars

\* SleepForSegment keeps the types.
LEMMA TypeSleepForSegment ==
    ASSUME TypeOK, NEW w \in Workers, SleepForSegment(w)
    PROVE  TypeOK'
<1>1. WorkerTypeOK'
  BY DEF TypeOK, WorkerTypeOK, ProxyLabels, SleepForSegment, Goto, workerVars
<1>2. LiveLocals'
  BY DEF TypeOK, LiveLocals, WorkerTypeOK, Holding, SleepForSegment, Goto,
     workerVars, cacheVars, cworkerVars
<1> QED BY <1>1, <1>2 DEF TypeOK, PoolTypeOK, ClientTypeOK, QueueTypeOK,
        SegmentTypeOK, BossTypeOK, CacheWorkerTypeOK, SleepForSegment,
        clientVars, segmentVars, cacheVars, bossVars, cworkerVars

\* InitSegment keeps the types.
LEMMA TypeInitSegment ==
    ASSUME TypeOK, NEW w \in Workers, InitSegment(w)
    PROVE  TypeOK'
<1>1. pseg[w] \in Segments /\ req[w] \in Files
  BY HeldSegment DEF InitSegment, Holding
<1>2. WorkerTypeOK'
  BY DEF TypeOK, WorkerTypeOK, ProxyLabels, InitSegment, Goto, workerVars
<1>3. SegmentTypeOK'
  BY <1>1 DEF TypeOK, SegmentTypeOK, InitSegment, Goto
<1>4. LiveLocals'
  BY DEF TypeOK, LiveLocals, WorkerTypeOK, Holding, InitSegment, Goto,
     workerVars, cacheVars, cworkerVars
<1> QED BY <1>2, <1>3, <1>4 DEF TypeOK, PoolTypeOK, ClientTypeOK, QueueTypeOK,
        BossTypeOK, CacheWorkerTypeOK, InitSegment, clientVars, cacheVars,
        bossVars, cworkerVars

\* InitWriterSem keeps the types.
LEMMA TypeInitWriterSem ==
    ASSUME TypeOK, NEW w \in Workers, InitWriterSem(w)
    PROVE  TypeOK'
<1>1. pseg[w] \in Segments /\ req[w] \in Files
  BY HeldSegment DEF InitWriterSem, Holding
<1>2. WorkerTypeOK'
  BY DEF TypeOK, WorkerTypeOK, ProxyLabels, InitWriterSem, Goto, workerVars
<1>3. SegmentTypeOK'
  BY <1>1 DEF TypeOK, SegmentTypeOK, InitWriterSem, Goto
<1>4. LiveLocals'
  BY DEF TypeOK, LiveLocals, WorkerTypeOK, Holding, InitWriterSem, Goto,
     workerVars, cacheVars, cworkerVars
<1> QED BY <1>2, <1>3, <1>4 DEF TypeOK, PoolTypeOK, ClientTypeOK, QueueTypeOK,
        BossTypeOK, CacheWorkerTypeOK, InitWriterSem, clientVars, cacheVars,
        bossVars, cworkerVars

\* LockForRequest keeps the types.
LEMMA TypeLockForRequest ==
    ASSUME TypeOK, NEW w \in Workers, LockForRequest(w)
    PROVE  TypeOK'
<1>1. WorkerTypeOK'
  BY DEF TypeOK, WorkerTypeOK, ProxyLabels, LockForRequest, Goto, workerVars
<1>2. PoolTypeOK'
  BY DEF TypeOK, PoolTypeOK, LockForRequest, Goto
<1>3. LiveLocals'
  BY NamesAssumption DEF TypeOK, LiveLocals, WorkerTypeOK, Holding, PoolTypeOK,
     LockForRequest, Goto, workerVars, cacheVars, cworkerVars
<1> QED BY <1>1, <1>2, <1>3 DEF TypeOK, ClientTypeOK, QueueTypeOK,
        SegmentTypeOK, BossTypeOK, CacheWorkerTypeOK, LockForRequest,
        clientVars, segmentVars, cacheVars, bossVars, cworkerVars

\* SendRequest keeps the types.
LEMMA TypeSendRequest ==
    ASSUME TypeOK, NEW w \in Workers, SendRequest(w)
    PROVE  TypeOK'
<1>1. pseg[w] \in Segments /\ req[w] \in Files
  BY HeldSegment DEF SendRequest, Holding
<1>2. WorkerTypeOK'
  BY DEF TypeOK, WorkerTypeOK, ProxyLabels, SendRequest, Goto, workerVars
<1>3. PoolTypeOK'
  BY <1>1 DEF TypeOK, PoolTypeOK, SendRequest, Goto
<1>4. QueueTypeOK'
  BY <1>1, SizesAssumption DEF TypeOK, QueueTypeOK, Messages, SendRequest, Goto
<1>5. LiveLocals'
  BY NamesAssumption DEF TypeOK, LiveLocals, WorkerTypeOK, Holding, PoolTypeOK,
     SendRequest, Goto, workerVars, cacheVars, cworkerVars
<1> QED BY <1>2, <1>3, <1>4, <1>5 DEF TypeOK, ClientTypeOK, SegmentTypeOK,
        BossTypeOK, CacheWorkerTypeOK, SendRequest, clientVars, segmentVars,
        cacheVars, bossVars, cworkerVars

\* ReadLength keeps the types.
LEMMA TypeReadLength ==
    ASSUME TypeOK, NEW w \in Workers, ReadLength(w)
    PROVE  TypeOK'
<1>1. pseg[w] \in Segments /\ req[w] \in Files
  BY HeldSegment DEF ReadLength, Holding
<1>2. fileLength[pseg[w]] % SizeModulus \in Nat
  BY <1>1, ReducedType DEF TypeOK, SegmentTypeOK
<1>3. WorkerTypeOK'
  BY <1>2 DEF TypeOK, WorkerTypeOK, ProxyLabels, ReadLength, Wait, Goto
<1>4. ClientTypeOK'
  BY DEF TypeOK, ClientTypeOK, ReadLength, Wait, Goto
<1>5. SegmentTypeOK'
  BY <1>1 DEF TypeOK, SegmentTypeOK, ReadLength, Wait, Goto
<1>6. LiveLocals'
  BY DEF TypeOK, LiveLocals, WorkerTypeOK, Holding, ReadLength, Wait, Goto,
     cacheVars, cworkerVars
<1> QED BY <1>3, <1>4, <1>5, <1>6 DEF TypeOK, PoolTypeOK, QueueTypeOK,
        BossTypeOK, CacheWorkerTypeOK, ReadLength, cacheVars, bossVars,
        cworkerVars

\* AwaitChunk keeps the types.
LEMMA TypeAwaitChunk ==
    ASSUME TypeOK, NEW w \in Workers, AwaitChunk(w)
    PROVE  TypeOK'
<1>1. pseg[w] \in Segments /\ req[w] \in Files
  BY HeldSegment DEF AwaitChunk, Holding
<1>2. WorkerTypeOK'
  BY DEF TypeOK, WorkerTypeOK, ProxyLabels, AwaitChunk, Wait, Goto, workerVars
<1>3. SegmentTypeOK'
  BY <1>1 DEF TypeOK, SegmentTypeOK, AwaitChunk, Wait, Goto
<1>4. LiveLocals'
  BY DEF TypeOK, LiveLocals, WorkerTypeOK, Holding, AwaitChunk, Wait, Goto,
     workerVars, cacheVars, cworkerVars
<1> QED BY <1>2, <1>3, <1>4 DEF TypeOK, PoolTypeOK, ClientTypeOK, QueueTypeOK,
        BossTypeOK, CacheWorkerTypeOK, AwaitChunk, clientVars, cacheVars,
        bossVars, cworkerVars

\* CopyChunk keeps the types.
LEMMA TypeCopyChunk ==
    ASSUME TypeOK, NEW w \in Workers, CopyChunk(w)
    PROVE  TypeOK'
<1>1. pseg[w] \in Segments /\ req[w] \in Files
  BY HeldSegment DEF CopyChunk, Holding
<1>2. buffer[pseg[w]] \in Chunks \cup {Zeroes}
  BY <1>1 DEF TypeOK, SegmentTypeOK
<1>3. WorkerTypeOK'
  BY <1>2 DEF TypeOK, WorkerTypeOK, ProxyLabels, CopyChunk, Post, Goto
<1>4. SegmentTypeOK'
  BY <1>1 DEF TypeOK, SegmentTypeOK, CopyChunk, Post, Goto
<1>5. LiveLocals'
  BY DEF TypeOK, LiveLocals, WorkerTypeOK, Holding, CopyChunk, Post, Goto,
     cacheVars, cworkerVars
<1> QED BY <1>3, <1>4, <1>5 DEF TypeOK, PoolTypeOK, ClientTypeOK, QueueTypeOK,
        BossTypeOK, CacheWorkerTypeOK, CopyChunk, clientVars, cacheVars,
        bossVars, cworkerVars

\* SendChunk keeps the types.
LEMMA TypeSendChunk ==
    ASSUME TypeOK, NEW w \in Workers, SendChunk(w)
    PROVE  TypeOK'
<1>1. sent[w] \in Nat /\ flen[w] \in Nat
  BY DEF TypeOK, WorkerTypeOK
<1>2. sent[w] + ChunkLen(flen[w] - sent[w]) \in Int
  BY <1>1, AdvanceType
<1>3. WorkerTypeOK'
  BY <1>2, ReducedType DEF TypeOK, WorkerTypeOK, ProxyLabels, SendChunk,
     CountBytes, Goto
<1>4. ClientTypeOK'
  BY DEF TypeOK, ClientTypeOK, WorkerTypeOK, SendChunk, CountBytes, Goto
<1>5. LiveLocals'
  BY DEF TypeOK, LiveLocals, WorkerTypeOK, Holding, SendChunk, CountBytes, Goto,
     cacheVars, cworkerVars
<1> QED BY <1>3, <1>4, <1>5 DEF TypeOK, PoolTypeOK, QueueTypeOK,
        SegmentTypeOK, BossTypeOK, CacheWorkerTypeOK, SendChunk, segmentVars,
        cacheVars, bossVars, cworkerVars

\* ReleaseSegment keeps the types.
LEMMA TypeReleaseSegment ==
    ASSUME TypeOK, NEW w \in Workers, ReleaseSegment(w)
    PROVE  TypeOK'
<1>1. pseg[w] \in Segments /\ req[w] \in Files
  BY HeldSegment DEF ReleaseSegment, Holding
<1>2. WorkerTypeOK'
  BY DEF TypeOK, WorkerTypeOK, ProxyLabels, ReleaseSegment, Goto
<1>3. PoolTypeOK'
  BY <1>1 DEF TypeOK, PoolTypeOK, ReleaseSegment, Goto
<1>4. LiveLocals'
  BY DEF TypeOK, LiveLocals, WorkerTypeOK, Holding, ReleaseSegment, Goto,
     cacheVars, cworkerVars
<1> QED BY <1>2, <1>3, <1>4 DEF TypeOK, ClientTypeOK, QueueTypeOK,
        SegmentTypeOK, BossTypeOK, CacheWorkerTypeOK, ReleaseSegment,
        clientVars, segmentVars, cacheVars, bossVars, cworkerVars

\* SignalFree keeps the types.
LEMMA TypeSignalFree ==
    ASSUME TypeOK, NEW w \in Workers, SignalFree(w)
    PROVE  TypeOK'
<1>1. WorkerTypeOK'
  BY DEF TypeOK, WorkerTypeOK, ProxyLabels, SignalFree, Goto, workerVars
<1>2. ClientTypeOK'
  BY DEF TypeOK, ClientTypeOK, SignalFree, Goto
<1>3. LiveLocals'
  BY DEF TypeOK, LiveLocals, WorkerTypeOK, Holding, SignalFree, Goto,
     workerVars, cacheVars, cworkerVars
<1> QED BY <1>1, <1>2, <1>3 DEF TypeOK, PoolTypeOK, QueueTypeOK,
        SegmentTypeOK, BossTypeOK, CacheWorkerTypeOK, SignalFree, segmentVars,
        cacheVars, bossVars, cworkerVars

\* Return keeps the types.
LEMMA TypeReturn ==
    ASSUME TypeOK, NEW w \in Workers, Return(w)
    PROVE  TypeOK'
<1>1. WorkerTypeOK'
  BY DEF TypeOK, WorkerTypeOK, ProxyLabels, Return, Goto
<1>2. ClientTypeOK'
  BY DEF TypeOK, ClientTypeOK, Return, Goto
<1>3. LiveLocals'
  BY DEF TypeOK, LiveLocals, WorkerTypeOK, Holding, Return, Goto, cacheVars,
     cworkerVars
<1> QED BY <1>1, <1>2, <1>3 DEF TypeOK, PoolTypeOK, QueueTypeOK,
        SegmentTypeOK, BossTypeOK, CacheWorkerTypeOK, Return, segmentVars,
        cacheVars, bossVars, cworkerVars

\* BossReceive keeps the types.
LEMMA TypeBossReceive ==
    ASSUME TypeOK, BossReceive
    PROVE  TypeOK'
<1>1. /\ Head(mq) \in Messages /\ Tail(mq) \in Seq(Messages)
     /\ Len(Tail(mq)) = Len(mq) - 1 /\ Len(mq) \in Nat
  BY HeadTail DEF TypeOK, QueueTypeOK, BossReceive
<1>2. QueueTypeOK'
  BY <1>1, SizesAssumption DEF TypeOK, QueueTypeOK, BossReceive
<1>3. BossTypeOK'
  BY <1>1 DEF TypeOK, BossTypeOK, BossReceive
<1> QED BY <1>2, <1>3 DEF TypeOK, WorkerTypeOK, PoolTypeOK, ClientTypeOK,
        SegmentTypeOK, CacheWorkerTypeOK, LiveLocals, Holding, BossReceive,
        clientVars, workerVars, segmentVars, cworkerVars

\* BossEnqueue keeps the types.
LEMMA TypeBossEnqueue ==
    ASSUME TypeOK, BossEnqueue
    PROVE  TypeOK'
<1>1. BossTypeOK'
  BY DEF TypeOK, BossTypeOK, BossEnqueue
<1> QED BY <1>1 DEF TypeOK, WorkerTypeOK, PoolTypeOK, ClientTypeOK,
        QueueTypeOK, SegmentTypeOK, CacheWorkerTypeOK, LiveLocals, Holding,
        BossEnqueue, clientVars, workerVars, segmentVars, cworkerVars

\* TakePost keeps the types.
LEMMA TypeTakePost ==
    ASSUME TypeOK, NEW c \in CacheWorkers, TakePost(c)
    PROVE  TypeOK'
<1>1. BossTypeOK'
  BY DEF TypeOK, BossTypeOK, TakePost, CGoto
<1>2. CacheWorkerTypeOK'
  BY DEF TypeOK, CacheWorkerTypeOK, CacheLabels, TakePost, CGoto
<1>3. LiveLocals'
  BY DEF TypeOK, LiveLocals, CacheWorkerTypeOK, Holding, TakePost, CGoto,
     workerVars
<1> QED BY <1>1, <1>2, <1>3 DEF TypeOK, WorkerTypeOK, PoolTypeOK,
        ClientTypeOK, QueueTypeOK, SegmentTypeOK, TakePost, clientVars,
        workerVars, segmentVars

\* PopWork keeps the types.
LEMMA TypePopWork ==
    ASSUME TypeOK, NEW c \in CacheWorkers, PopWork(c)
    PROVE  TypeOK'
<1>1. work # << >> => Head(work) \in Messages /\ Tail(work) \in Seq(Messages)
  BY HeadTail DEF TypeOK, BossTypeOK
<1>2. BossTypeOK'
  BY <1>1 DEF TypeOK, BossTypeOK, PopWork, CGoto
<1>3. CacheWorkerTypeOK'
  BY <1>1 DEF TypeOK, CacheWorkerTypeOK, CacheLabels, PopWork, CGoto
<1>4. (exited \in BOOLEAN)'
  BY DEF TypeOK, PopWork, CGoto
<1>5. LiveLocals'
  BY <1>1, Sentinels DEF TypeOK, LiveLocals, CacheWorkerTypeOK, Holding,
     PopWork, CGoto, workerVars
<1> QED BY <1>2, <1>3, <1>4, <1>5 DEF TypeOK, WorkerTypeOK, PoolTypeOK,
        ClientTypeOK, QueueTypeOK, SegmentTypeOK, PopWork, clientVars,
        workerVars, segmentVars

\* Announce keeps the types.
LEMMA TypeAnnounce ==
    ASSUME TypeOK, NEW c \in CacheWorkers, Announce(c)
    PROVE  TypeOK'
<1>1. cmsg[c].seg \in Segments /\ cmsg[c].file \in Files
  BY MessageInHand DEF Announce
<1>2. SegmentTypeOK'
  BY <1>1, LengthType DEF TypeOK, SegmentTypeOK, Announce, NextChunkOrIdle,
     Post, CGoto
<1>3. CacheWorkerTypeOK'
  BY <1>1, LengthType DEF TypeOK, CacheWorkerTypeOK, CacheLabels, Announce,
     NextChunkOrIdle, Post, CGoto
<1>4. LiveLocals'
  BY DEF TypeOK, LiveLocals, CacheWorkerTypeOK, Holding, Announce,
     NextChunkOrIdle, Post, CGoto, workerVars
<1> QED BY <1>2, <1>3, <1>4 DEF TypeOK, WorkerTypeOK, PoolTypeOK,
        ClientTypeOK, QueueTypeOK, BossTypeOK, Announce, clientVars,
        workerVars, bossVars

\* WriteChunk keeps the types.
LEMMA TypeWriteChunk ==
    ASSUME TypeOK, NEW c \in CacheWorkers, WriteChunk(c)
    PROVE  TypeOK'
<1>1. cmsg[c].seg \in Segments /\ cmsg[c].file \in Files
  BY MessageInHand DEF WriteChunk
<1>2. SegmentTypeOK'
  BY <1>1 DEF TypeOK, SegmentTypeOK, Chunks, CacheWorkerTypeOK, WriteChunk,
     CGoto
<1>3. CacheWorkerTypeOK'
  BY <1>1 DEF TypeOK, CacheWorkerTypeOK, CacheLabels, WriteChunk, CGoto
<1>4. LiveLocals'
  BY DEF TypeOK, LiveLocals, CacheWorkerTypeOK, Holding, WriteChunk, CGoto,
     workerVars
<1> QED BY <1>2, <1>3, <1>4 DEF TypeOK, WorkerTypeOK, PoolTypeOK,
        ClientTypeOK, QueueTypeOK, BossTypeOK, WriteChunk, clientVars,
        workerVars, bossVars

\* PostChunk keeps the types.
LEMMA TypePostChunk ==
    ASSUME TypeOK, NEW c \in CacheWorkers, PostChunk(c)
    PROVE  TypeOK'
<1>1. cmsg[c].seg \in Segments /\ cmsg[c].file \in Files
  BY MessageInHand DEF PostChunk
<1>2. SegmentTypeOK'
  BY <1>1 DEF TypeOK, SegmentTypeOK, PostChunk, Post, CGoto
<1>3. CacheWorkerTypeOK'
  BY <1>1, LengthType, AdvanceType DEF TypeOK, CacheWorkerTypeOK, CacheLabels,
     PostChunk, Post, CGoto
<1>4. LiveLocals'
  BY DEF TypeOK, LiveLocals, CacheWorkerTypeOK, Holding, PostChunk, Post, CGoto,
     workerVars
<1> QED BY <1>2, <1>3, <1>4 DEF TypeOK, WorkerTypeOK, PoolTypeOK,
        ClientTypeOK, QueueTypeOK, BossTypeOK, PostChunk, clientVars,
        workerVars, bossVars

\* AwaitTaken keeps the types.
LEMMA TypeAwaitTaken ==
    ASSUME TypeOK, NEW c \in CacheWorkers, AwaitTaken(c)
    PROVE  TypeOK'
<1>1. cmsg[c].seg \in Segments /\ cmsg[c].file \in Files
  BY MessageInHand DEF AwaitTaken
<1>2. SegmentTypeOK'
  BY <1>1 DEF TypeOK, SegmentTypeOK, AwaitTaken, NextChunkOrIdle, Wait, CGoto
<1>3. CacheWorkerTypeOK'
  BY <1>1 DEF TypeOK, CacheWorkerTypeOK, CacheLabels, AwaitTaken,
     NextChunkOrIdle, Wait, CGoto
<1>4. LiveLocals'
  BY DEF TypeOK, LiveLocals, CacheWorkerTypeOK, Holding, AwaitTaken,
     NextChunkOrIdle, Wait, CGoto, workerVars
<1> QED BY <1>2, <1>3, <1>4 DEF TypeOK, WorkerTypeOK, PoolTypeOK,
        ClientTypeOK, QueueTypeOK, BossTypeOK, AwaitTaken, clientVars,
        workerVars, bossVars

\* Every step keeps the types.
LEMMA TypeNext == TypeOK /\ [Next]_vars => TypeOK'
<1> SUFFICES ASSUME TypeOK, [Next]_vars PROVE TypeOK'
  OBVIOUS
<1>1. ASSUME NEW w \in Workers, StartRequest(w) \/ WakeSpuriously(w) \/ FailToSend(w)
      PROVE  TypeOK'
  BY <1>1, TypeStartRequest, TypeWakeSpuriously, TypeFailToSend
<1>2. ASSUME NEW w \in Workers, ProxyStep(w) PROVE TypeOK'
  BY <1>2, TypeTakeSegment, TypeSleepForSegment, TypeInitSegment, TypeInitWriterSem,
     TypeLockForRequest, TypeSendRequest, TypeReadLength, TypeAwaitChunk, TypeCopyChunk,
     TypeSendChunk, TypeReleaseSegment, TypeSignalFree, TypeReturn DEF ProxyStep
<1>3. CASE BossReceive
  BY <1>3, TypeBossReceive
<1>4. CASE BossEnqueue
  BY <1>4, TypeBossEnqueue
<1>5. ASSUME NEW c \in CacheWorkers, CacheStep(c) PROVE TypeOK'
  BY <1>5, TypeTakePost, TypePopWork, TypeAnnounce, TypeWriteChunk, TypePostChunk,
     TypeAwaitTaken DEF CacheStep
<1>6. CASE UNCHANGED vars
  BY <1>6 DEF TypeOK, WorkerTypeOK, PoolTypeOK, ClientTypeOK, QueueTypeOK, SegmentTypeOK,
     BossTypeOK, CacheWorkerTypeOK, LiveLocals, Holding, vars, workerVars, clientVars,
     segmentVars, cacheVars, bossVars, cworkerVars
<1> QED BY <1>1, <1>2, <1>3, <1>4, <1>5, <1>6 DEF Next

\* TypeOK holds in every reachable state: handle_with_cache and simplecached
\* keep their locals, the segments and the bounded message queue well typed.
THEOREM TypeCorrect == Spec => []TypeOK
BY TypeInit, TypeNext, PTL DEF Spec
-----------------------------------------------------------------------------
\* The pool as webproxy's main fills it holds every id once.
LEMMA OwnershipInit == Init => SegmentOwnership
<1> SUFFICES ASSUME Init PROVE SegmentOwnership
  OBVIOUS
<1>1. /\ DOMAIN pool = 1 .. NumSegments
      /\ \A i \in 1 .. NumSegments : pool[i] = i - 1
  BY DEF Init
<1>2. \A w \in Workers : pseg[w] = NoSegment
  BY DEF Init
<1>3. FreeOnce
  BY <1>1, SizesAssumption DEF FreeOnce
<1>4. FreeNotHeld /\ HeldOnce
  BY <1>1, <1>2, SizesAssumption DEF FreeNotHeld, HeldOnce, NoSegment
<1>5. NoneLost
  <2> SUFFICES ASSUME NEW s \in Segments PROVE \E i \in DOMAIN pool : pool[i] = s
    BY DEF NoneLost
  <2>1. s + 1 \in 1 .. NumSegments /\ (s + 1) - 1 = s
    BY SizesAssumption DEF Segments
  <2> QED BY <1>1, <2>1
<1> QED BY <1>3, <1>4, <1>5 DEF SegmentOwnership

\* A popped id leaves the pool for the one worker that popped it.
LEMMA OwnershipTake ==
    ASSUME TypeOK, SegmentOwnership, NEW w \in Workers, TakeSegment(w)
    PROVE  SegmentOwnership'
<1> DEFINE n == Len(pool)
<1>1. /\ pool \in Seq(Segments) /\ n \in Nat \ {0} /\ DOMAIN pool = 1 .. n
      /\ pool[1] = Head(pool) /\ pool[1] \in Segments
  BY DEF TypeOK, PoolTypeOK, TakeSegment
<1>2. /\ DOMAIN pool' = 1 .. (n - 1)
      /\ \A i \in 1 .. (n - 1) : pool'[i] = pool[i + 1]
  BY <1>1 DEF TakeSegment
<1>3. /\ pseg'[w] = pool[1] /\ pseg[w] = NoSegment
      /\ \A v \in Workers \ {w} : pseg'[v] = pseg[v]
  BY <1>1 DEF TypeOK, WorkerTypeOK, LiveLocals, Holding, TakeSegment
<1>4. FreeOnce'
  <2> SUFFICES ASSUME NEW i \in 1 .. (n - 1), NEW j \in 1 .. (n - 1), pool'[i] = pool'[j]
               PROVE  i = j
    BY <1>2 DEF FreeOnce
  <2>1. i + 1 \in 1 .. n /\ j + 1 \in 1 .. n
    BY <1>1
  <2>2. pool[i + 1] = pool[j + 1]
    BY <1>2
  <2>3. i + 1 = j + 1
    BY <1>1, <2>1, <2>2 DEF SegmentOwnership, FreeOnce
  <2> QED BY <2>3
<1>5. FreeNotHeld'
  BY <1>1, <1>2, <1>3 DEF SegmentOwnership, FreeOnce, FreeNotHeld
<1>6. HeldOnce'
  BY <1>1, <1>3 DEF SegmentOwnership, FreeNotHeld, HeldOnce
<1>7. NoneLost'
  <2> SUFFICES ASSUME NEW s \in Segments
               PROVE  (\E i \in DOMAIN pool' : pool'[i] = s) \/ (\E v \in Workers : pseg'[v] = s)
    BY DEF NoneLost
  <2>1. CASE \E i \in DOMAIN pool : pool[i] = s
    <3> PICK i \in DOMAIN pool : pool[i] = s
      BY <2>1
    <3>1. CASE i = 1
      BY <3>1, <1>3
    <3>2. CASE i # 1
      <4>1. i - 1 \in 1 .. (n - 1) /\ (i - 1) + 1 = i
        BY <1>1, <3>2
      <4> QED BY <1>2, <4>1
    <3> QED BY <3>1, <3>2
  <2>2. CASE \E v \in Workers : pseg[v] = s
    BY <2>2, <1>3, Sentinels
  <2> QED BY <2>1, <2>2 DEF SegmentOwnership, NoneLost
<1> QED BY <1>4, <1>5, <1>6, <1>7 DEF SegmentOwnership

\* A released id goes from its one holder to one place of the pool.
LEMMA OwnershipRelease ==
    ASSUME TypeOK, SegmentOwnership, NEW w \in Workers, ReleaseSegment(w)
    PROVE  SegmentOwnership'
<1> DEFINE n == Len(pool)
<1>1. pool \in Seq(Segments) /\ n \in Nat /\ DOMAIN pool = 1 .. n
  BY DEF TypeOK, PoolTypeOK
<1>2. pseg[w] \in Segments /\ pseg[w] # NoSegment
  BY HeldSegment, Sentinels DEF ReleaseSegment, Holding
<1>3. /\ DOMAIN pool' = 1 .. (n + 1)
      /\ pool'[n + 1] = pseg[w]
      /\ \A i \in 1 .. n : pool'[i] = pool[i]
  BY <1>1, <1>2 DEF ReleaseSegment
<1>4. /\ pseg'[w] = NoSegment
      /\ \A v \in Workers \ {w} : pseg'[v] = pseg[v]
  BY DEF TypeOK, WorkerTypeOK, ReleaseSegment
<1>5. FreeOnce'
  BY <1>1, <1>3 DEF SegmentOwnership, FreeOnce, FreeNotHeld
<1>6. FreeNotHeld'
  <2>1. \A i \in 1 .. n : pool[i] # NoSegment
    BY <1>1, Sentinels
  <2> QED BY <1>1, <1>2, <1>3, <1>4, <2>1 DEF SegmentOwnership, FreeNotHeld, HeldOnce
<1>7. HeldOnce'
  BY <1>4 DEF SegmentOwnership, HeldOnce
<1>8. NoneLost'
  <2> SUFFICES ASSUME NEW s \in Segments
               PROVE  (\E i \in DOMAIN pool' : pool'[i] = s) \/ (\E v \in Workers : pseg'[v] = s)
    BY DEF NoneLost
  <2>1. CASE \E i \in DOMAIN pool : pool[i] = s
    <3> PICK i \in DOMAIN pool : pool[i] = s
      BY <2>1
    <3> QED BY <1>1, <1>3
  <2>2. CASE \E v \in Workers : pseg[v] = s
    <3> PICK v \in Workers : pseg[v] = s
      BY <2>2
    <3>1. CASE v = w
      BY <3>1, <1>1, <1>3
    <3>2. CASE v # w
      BY <3>2, <1>4
    <3> QED BY <3>1, <3>2
  <2> QED BY <2>1, <2>2 DEF SegmentOwnership, NoneLost
<1> QED BY <1>5, <1>6, <1>7, <1>8 DEF SegmentOwnership

\* Every other step leaves the pool and the segments in hand alone.
LEMMA OwnershipNext == TypeOK /\ SegmentOwnership /\ [Next]_vars => SegmentOwnership'
<1> SUFFICES ASSUME TypeOK, SegmentOwnership, [Next]_vars PROVE SegmentOwnership'
  OBVIOUS
<1>1. ASSUME UNCHANGED <<pool, pseg>> PROVE SegmentOwnership'
  BY <1>1 DEF SegmentOwnership, FreeOnce, FreeNotHeld, HeldOnce, NoneLost
<1>2. ASSUME NEW w \in Workers, StartRequest(w) \/ WakeSpuriously(w) \/ FailToSend(w)
      PROVE  SegmentOwnership'
  BY <1>1, <1>2 DEF StartRequest, WakeSpuriously, FailToSend, workerVars
<1>3. ASSUME NEW w \in Workers, ProxyStep(w) PROVE SegmentOwnership'
  <2>1. CASE TakeSegment(w)
    BY <2>1, OwnershipTake
  <2>2. CASE ReleaseSegment(w)
    BY <2>2, OwnershipRelease
  <2>3. CASE SleepForSegment(w) \/ InitSegment(w) \/ InitWriterSem(w) \/ LockForRequest(w)
             \/ SendRequest(w) \/ SignalFree(w) \/ AwaitChunk(w)
    BY <1>1, <2>3 DEF SleepForSegment, InitSegment, InitWriterSem, LockForRequest,
       SendRequest, SignalFree, AwaitChunk, workerVars
  <2>4. CASE ReadLength(w) \/ CopyChunk(w) \/ SendChunk(w) \/ Return(w)
    BY <1>1, <2>4 DEF ReadLength, CopyChunk, SendChunk, Return
  <2> QED BY <1>3, <2>1, <2>2, <2>3, <2>4 DEF ProxyStep
<1>4. CASE BossReceive \/ BossEnqueue
  BY <1>1, <1>4 DEF BossReceive, BossEnqueue, workerVars
<1>5. ASSUME NEW c \in CacheWorkers, CacheStep(c) PROVE SegmentOwnership'
  BY <1>1, <1>5 DEF CacheStep, TakePost, PopWork, Announce, WriteChunk, PostChunk,
     AwaitTaken, workerVars
<1>6. CASE UNCHANGED vars
  BY <1>1, <1>6 DEF vars, workerVars
<1> QED BY <1>2, <1>3, <1>4, <1>5, <1>6 DEF Next

\* SegmentOwnership holds in every reachable state: whatever handle_with_cache
\* does, also after a failed gfs_send, no two threads share a segment id, no
\* id is both free and held, and none leaks from the pool.
THEOREM OwnershipCorrect == Spec => []SegmentOwnership
<1>1. Init => TypeOK /\ SegmentOwnership
  BY TypeInit, OwnershipInit
<1>2. TypeOK /\ SegmentOwnership /\ [Next]_vars => (TypeOK /\ SegmentOwnership)'
  BY TypeNext, OwnershipNext
<1> QED BY <1>1, <1>2, PTL DEF Spec
-----------------------------------------------------------------------------
(* A request and its answer.                                                *)

Announcing(c) == cpc[c] = "announce"
Waiting(w)    == ppc[w] = "waitS"

\* The worker whose request m is waits for its answer.
Expected(m) ==
    \E w \in Workers : Waiting(w) /\ pseg[w] = m.seg /\ req[w] = m.file /\ semS[m.seg] = 0

\* A request for segment s is on its way.
Carried(s) ==
    \/ \E i \in DOMAIN mq : mq[i].seg = s
    \/ bossMsg.seg = s
    \/ \E i \in DOMAIN work : work[i].seg = s
    \/ \E c \in CacheWorkers : Announcing(c) /\ cmsg[c].seg = s

\* No two requests on their way are for the same segment.
QueuesDistinct ==
    /\ \A i, j \in DOMAIN mq : mq[i].seg = mq[j].seg => i = j
    /\ \A i, j \in DOMAIN work : work[i].seg = work[j].seg => i = j
    /\ \A i \in DOMAIN mq, j \in DOMAIN work : mq[i].seg # work[j].seg
BossDistinct ==
    /\ \A i \in DOMAIN mq : mq[i].seg # bossMsg.seg
    /\ \A i \in DOMAIN work : work[i].seg # bossMsg.seg
CacheDistinct ==
    \A c \in CacheWorkers : Announcing(c) =>
        /\ \A i \in DOMAIN mq : mq[i].seg # cmsg[c].seg
        /\ \A i \in DOMAIN work : work[i].seg # cmsg[c].seg
        /\ bossMsg.seg # cmsg[c].seg
        /\ \A d \in CacheWorkers : Announcing(d) /\ cmsg[d].seg = cmsg[c].seg => c = d

\* Every request on its way is waited for.
AllExpected ==
    /\ \A i \in DOMAIN mq : Expected(mq[i])
    /\ bossMsg # NoMessage => Expected(bossMsg)
    /\ \A i \in DOMAIN work : Expected(work[i])
    /\ \A c \in CacheWorkers : Announcing(c) => Expected(cmsg[c])

\* A post of semS is for the worker that waits, and the length is its file's.
PostsExpected ==
    \A s \in Segments :
        /\ semS[s] \in {0, 1}
        /\ semS[s] = 1 => \E w \in Workers :
              Waiting(w) /\ pseg[w] = s /\ fileLength[s] = LengthOf(req[w])

NoneForgotten == \A w \in Workers : Waiting(w) /\ semS[pseg[w]] = 0 => Carried(pseg[w])

AnswerInv ==
    /\ QueuesDistinct
    /\ BossDistinct
    /\ CacheDistinct
    /\ AllExpected
    /\ PostsExpected
    /\ NoneForgotten

Answered(w) == ppc[w] \in {"waitR", "copy", "send", "release", "signal", "return"}

HeaderInv ==
    \A w \in Workers :
        /\ Answered(w) => flen[w] = LengthOf(req[w])
        /\ ~Answered(w) => status[w] = "none"
        /\ status[w] = "ok" => LengthOf(req[w]) > 0
        /\ status[w] = "notfound" => LengthOf(req[w]) = 0
-----------------------------------------------------------------------------
(* Steps that leave the requests on their way alone.                        *)

\* The workers that wait, their segments and their paths stay as they are.
WaitersStay ==
    \A w \in Workers :
        /\ ppc'[w] = "waitS" <=> ppc[w] = "waitS"
        /\ Waiting(w) => pseg'[w] = pseg[w] /\ req'[w] = req[w]

\* So do the cache workers that have a length to announce.
AnnouncersStay ==
    \A c \in CacheWorkers :
        /\ cpc'[c] = "announce" <=> cpc[c] = "announce"
        /\ Announcing(c) => cmsg'[c] = cmsg[c]

\* Nothing moves, and nobody begins or ends to wait.
LEMMA AnswerStays ==
    ASSUME AnswerInv, WaitersStay, AnnouncersStay,
           UNCHANGED <<mq, bossMsg, work, semS, fileLength>>
    PROVE  AnswerInv'
<1>1. \A m : Expected(m) => Expected(m)'
  BY DEF WaitersStay, Expected, Waiting
<1>2. QueuesDistinct' /\ BossDistinct'
  BY DEF AnswerInv, QueuesDistinct, BossDistinct
<1>3. CacheDistinct'
  BY DEF AnswerInv, CacheDistinct, AnnouncersStay, Announcing
<1>4. AllExpected'
  BY <1>1 DEF AnswerInv, AllExpected, AnnouncersStay, Announcing, Expected, Waiting
<1>5. PostsExpected'
  BY DEF AnswerInv, PostsExpected, WaitersStay, Waiting
<1>6. NoneForgotten'
  BY DEF AnswerInv, NoneForgotten, Carried, WaitersStay, AnnouncersStay, Waiting, Announcing
<1> QED BY <1>2, <1>3, <1>4, <1>5, <1>6 DEF AnswerInv
-----------------------------------------------------------------------------
(* The steps of a request.                                                  *)

\* Nothing is on its way for a segment whose holder does not wait.
LEMMA NothingForHolder ==
    ASSUME TypeOK, SegmentOwnership, AnswerInv,
           NEW w \in Workers, Holding(w), ~Waiting(w)
    PROVE  /\ semS[pseg[w]] = 0
           /\ \A i \in DOMAIN mq : mq[i].seg # pseg[w]
           /\ \A i \in DOMAIN work : work[i].seg # pseg[w]
           /\ bossMsg.seg # pseg[w]
           /\ \A c \in CacheWorkers : Announcing(c) => cmsg[c].seg # pseg[w]
<1>1. pseg[w] \in Segments /\ pseg[w] # NoSegment
  BY HeldSegment, Sentinels
<1>2. \A v \in Workers : Waiting(v) => pseg[v] # pseg[w]
  BY <1>1 DEF SegmentOwnership, HeldOnce
<1>3. \A m : Expected(m) => m.seg # pseg[w]
  BY <1>2 DEF Expected
<1>4. semS[pseg[w]] = 0
  BY <1>1, <1>2 DEF AnswerInv, PostsExpected
<1>5. bossMsg.seg # pseg[w]
  BY <1>1, <1>3 DEF AnswerInv, AllExpected, NoMessage
<1> QED BY <1>3, <1>4, <1>5 DEF AnswerInv, AllExpected

\* shm_create makes the semaphore 0, which it is already.
LEMMA AnswerInitSegment ==
    ASSUME TypeOK, SegmentOwnership, AnswerInv, NEW w \in Workers, InitSegment(w)
    PROVE  AnswerInv'
<1> DEFINE s == pseg[w]
<1>1. ppc[w] = "initS" /\ s \in Segments /\ ~Waiting(w) /\ Holding(w)
  BY HeldSegment DEF InitSegment, Holding, Waiting
<1>2. semS[s] = 0
  BY <1>1, NothingForHolder
<1>3. semS' = semS
  BY <1>1, <1>2 DEF InitSegment, TypeOK, SegmentTypeOK
<1>4. /\ WaitersStay /\ AnnouncersStay
      /\ UNCHANGED <<mq, bossMsg, work, req, pseg>>
      /\ \A r \in Segments \ {s} : fileLength'[r] = fileLength[r]
  BY <1>1 DEF InitSegment, Goto, TypeOK, WorkerTypeOK, SegmentTypeOK, workerVars, cacheVars,
     bossVars, cworkerVars, WaitersStay, AnnouncersStay
<1>5. \A m : Expected(m) => Expected(m)'
  BY <1>3, <1>4 DEF WaitersStay, Expected, Waiting
<1>6. QueuesDistinct' /\ BossDistinct' /\ CacheDistinct'
  BY <1>4 DEF AnswerInv, QueuesDistinct, BossDistinct, CacheDistinct, AnnouncersStay, Announcing
<1>7. AllExpected'
  BY <1>4, <1>5 DEF AnswerInv, AllExpected, AnnouncersStay, Announcing, Expected, Waiting
<1>8. PostsExpected'
  BY <1>2, <1>3, <1>4 DEF AnswerInv, PostsExpected, WaitersStay, Waiting
<1>9. NoneForgotten'
  BY <1>3, <1>4 DEF AnswerInv, NoneForgotten, Carried, WaitersStay, AnnouncersStay, Waiting,
     Announcing
<1> QED BY <1>6, <1>7, <1>8, <1>9 DEF AnswerInv

\* mqueue_write: one more request is on its way, and its worker waits.
LEMMA AnswerSendRequest ==
    ASSUME TypeOK, SegmentOwnership, AnswerInv, NEW w \in Workers, SendRequest(w)
    PROVE  AnswerInv'
<1> DEFINE s == pseg[w]
           m == [file |-> req[w], seg |-> s]
           n == Len(mq)
<1>1. ppc[w] = "mqsend" /\ s \in Segments /\ ~Waiting(w) /\ Holding(w)
  BY HeldSegment DEF SendRequest, Holding, Waiting
<1>2. /\ semS[s] = 0
      /\ \A i \in DOMAIN mq : mq[i].seg # s
      /\ \A i \in DOMAIN work : work[i].seg # s
      /\ bossMsg.seg # s
      /\ \A c \in CacheWorkers : Announcing(c) => cmsg[c].seg # s
  BY <1>1, NothingForHolder
<1>3. /\ UNCHANGED <<bossMsg, work, semS, fileLength, req, pseg, cpc, cmsg>>
      /\ \A v \in Workers : ppc'[v] = IF v = w THEN "waitS" ELSE ppc[v]
  BY DEF SendRequest, Goto, TypeOK, WorkerTypeOK, workerVars, segmentVars, cacheVars, bossVars,
     cworkerVars
<1>4. /\ n \in Nat /\ DOMAIN mq = 1 .. n /\ DOMAIN mq' = 1 .. (n + 1)
      /\ mq'[n + 1] = m /\ \A i \in 1 .. n : mq'[i] = mq[i]
  BY DEF SendRequest, TypeOK, QueueTypeOK
<1>5. \A x : Expected(x) => Expected(x)'
  BY <1>3 DEF Expected, Waiting
<1>6. /\ ppc'[w] = "waitS" /\ pseg'[w] = mq'[n + 1].seg
      /\ req'[w] = mq'[n + 1].file /\ semS'[mq'[n + 1].seg] = 0
  BY <1>2, <1>3, <1>4
<1>7. QueuesDistinct'
  BY <1>2, <1>3, <1>4 DEF AnswerInv, QueuesDistinct
<1>8. BossDistinct'
  BY <1>2, <1>3, <1>4 DEF AnswerInv, BossDistinct
<1>9. CacheDistinct'
  BY <1>2, <1>3, <1>4 DEF AnswerInv, CacheDistinct, Announcing
<1>10. AllExpected'
  <2>1. (\A i \in DOMAIN mq : Expected(mq[i]))'
    <3> SUFFICES ASSUME NEW i \in 1 .. (n + 1)
                 PROVE  \E v \in Workers : /\ ppc'[v] = "waitS" /\ pseg'[v] = mq'[i].seg
                                         /\ req'[v] = mq'[i].file /\ semS'[mq'[i].seg] = 0
      BY <1>4 DEF Expected, Waiting
    <3>1. CASE i \in 1 .. n
      BY <1>3, <1>4, <1>5, <3>1 DEF AnswerInv, AllExpected, Expected, Waiting
    <3>2. CASE i = n + 1
      BY <1>6, <3>2
    <3> QED BY <1>4, <3>1, <3>2
  <2>2. (/\ bossMsg # NoMessage => Expected(bossMsg)
         /\ \A i \in DOMAIN work : Expected(work[i])
         /\ \A c \in CacheWorkers : Announcing(c) => Expected(cmsg[c]))'
    BY <1>3, <1>5 DEF AnswerInv, AllExpected, Announcing, Expected, Waiting
  <2> QED BY <2>1, <2>2 DEF AllExpected
<1>11. PostsExpected'
  BY <1>3 DEF AnswerInv, PostsExpected, Waiting
<1>12. NoneForgotten'
  BY <1>3, <1>4 DEF AnswerInv, NoneForgotten, Carried, Waiting, Announcing
<1> QED BY <1>7, <1>8, <1>9, <1>10, <1>11, <1>12 DEF AnswerInv

\* sem_wait of semS: the worker takes the one post there is and waits no longer.
LEMMA AnswerReadLength ==
    ASSUME TypeOK, SegmentOwnership, AnswerInv, NEW w \in Workers, ReadLength(w)
    PROVE  AnswerInv'
<1> DEFINE s == pseg[w]
<1>1. ppc[w] = "waitS" /\ s \in Segments /\ s # NoSegment /\ Waiting(w) /\ semS[s] = 1
  <2>1. ppc[w] = "waitS" /\ semS[s] > 0
    BY DEF ReadLength
  <2>2. s \in Segments
    BY <2>1, HeldSegment DEF Holding
  <2>3. semS[s] \in {0, 1}
    BY <2>2 DEF AnswerInv, PostsExpected
  <2> QED BY <2>1, <2>2, <2>3, Sentinels DEF Waiting
<1>2. /\ UNCHANGED <<mq, bossMsg, work, fileLength, req, pseg, cpc, cmsg>>
      /\ \A v \in Workers \ {w} : ppc'[v] = ppc[v]
      /\ ppc'[w] # "waitS"
      /\ semS'[s] = 0 /\ \A r \in Segments \ {s} : semS'[r] = semS[r]
  BY <1>1 DEF ReadLength, Wait, Goto, TypeOK, WorkerTypeOK, SegmentTypeOK, cacheVars, bossVars,
     cworkerVars
<1>3. \A v \in Workers \ {w} : pseg[v] # s
  BY <1>1 DEF SegmentOwnership, HeldOnce
<1>4. \A m : Expected(m) => m.seg # s
  BY <1>1 DEF Expected
<1>5. \A m \in Messages : Expected(m) => Expected(m)'
  BY <1>1, <1>2, <1>4 DEF Expected, Waiting, Messages
<1>6. QueuesDistinct' /\ BossDistinct' /\ CacheDistinct'
  BY <1>2 DEF AnswerInv, QueuesDistinct, BossDistinct, CacheDistinct, Announcing
<1>7. AllExpected'
  <2>1. \A i \in DOMAIN mq : mq[i] \in Messages
    BY DEF TypeOK, QueueTypeOK
  <2>2. \A i \in DOMAIN work : work[i] \in Messages
    BY DEF TypeOK, BossTypeOK
  <2>3. bossMsg # NoMessage => bossMsg \in Messages
    BY DEF TypeOK, BossTypeOK
  <2>4. \A c \in CacheWorkers : Announcing(c) => cmsg[c] \in Messages
    BY DEF TypeOK, CacheWorkerTypeOK, LiveLocals, Announcing
  <2> QED BY <1>2, <1>5, <2>1, <2>2, <2>3, <2>4
          DEF AnswerInv, AllExpected, Announcing, Expected, Waiting
<1>8. PostsExpected'
  <2> SUFFICES ASSUME NEW r \in Segments
               PROVE  /\ semS'[r] \in {0, 1}
                      /\ semS'[r] = 1 => \E v \in Workers :
                            ppc'[v] = "waitS" /\ pseg'[v] = r /\ fileLength'[r] = LengthOf(req'[v])
    BY DEF PostsExpected, Waiting
  <2>1. CASE r = s
    BY <1>2, <2>1
  <2>2. CASE r # s
    BY <1>1, <1>2, <2>2 DEF AnswerInv, PostsExpected, Waiting
  <2> QED BY <2>1, <2>2
<1>9. NoneForgotten'
  <2> SUFFICES ASSUME NEW v \in Workers, ppc'[v] = "waitS", semS'[pseg'[v]] = 0
               PROVE  Carried(pseg[v])'
    BY DEF NoneForgotten, Waiting
  <2>1. v # w /\ Waiting(v) /\ pseg'[v] = pseg[v] /\ pseg[v] \in Segments \ {s}
    BY <1>2, <1>3, HeldSegment DEF Waiting, Holding
  <2>2. Carried(pseg[v])
    BY <1>2, <2>1 DEF AnswerInv, NoneForgotten
  <2> QED BY <1>2, <2>1, <2>2 DEF Carried, Announcing
<1> QED BY <1>6, <1>7, <1>8, <1>9 DEF AnswerInv

\* mqueue_read: the oldest request goes from the queue to the boss.
LEMMA AnswerBossReceive ==
    ASSUME TypeOK, AnswerInv, BossReceive
    PROVE  AnswerInv'
<1> DEFINE n == Len(mq)
<1>1. /\ n \in Nat \ {0} /\ DOMAIN mq = 1 .. n /\ DOMAIN mq' = 1 .. (n - 1)
      /\ bossMsg' = mq[1] /\ mq[1] \in Messages
      /\ \A i \in 1 .. (n - 1) : i + 1 \in 1 .. n /\ mq'[i] = mq[i + 1]
  BY DEF BossReceive, TypeOK, QueueTypeOK
<1>2. UNCHANGED <<work, semS, fileLength, req, pseg, ppc, cpc, cmsg>>
  BY DEF BossReceive, workerVars, segmentVars, cworkerVars
<1>3. \A x : Expected(x) => Expected(x)'
  BY <1>2 DEF Expected, Waiting
<1>4. QueuesDistinct'
  <2>1. ASSUME NEW i \in 1 .. (n - 1), NEW j \in 1 .. (n - 1), mq'[i].seg = mq'[j].seg
        PROVE  i = j
    <3>1. mq[i + 1].seg = mq[j + 1].seg
      BY <1>1, <2>1
    <3>2. i + 1 = j + 1
      BY <1>1, <3>1 DEF AnswerInv, QueuesDistinct
    <3> QED BY <3>2
  <2>2. \A i \in 1 .. (n - 1), j \in DOMAIN work : mq'[i].seg # work[j].seg
    BY <1>1 DEF AnswerInv, QueuesDistinct
  <2> QED BY <1>1, <1>2, <2>1, <2>2 DEF AnswerInv, QueuesDistinct
<1>5. BossDistinct'
  <2>1. ASSUME NEW i \in 1 .. (n - 1) PROVE mq'[i].seg # mq[1].seg
    <3>1. i + 1 \in 1 .. n /\ 1 \in 1 .. n /\ i + 1 # 1
      BY <1>1
    <3> QED BY <1>1, <3>1 DEF AnswerInv, QueuesDistinct
  <2>2. \A i \in DOMAIN work : work[i].seg # mq[1].seg
    BY <1>1 DEF AnswerInv, QueuesDistinct
  <2> QED BY <1>1, <1>2, <2>1, <2>2 DEF BossDistinct
<1>6. CacheDistinct'
  BY <1>1, <1>2 DEF AnswerInv, CacheDistinct, Announcing
<1>7. AllExpected'
  BY <1>1, <1>2, <1>3, SMTT(30) DEF AnswerInv, AllExpected, Announcing, Expected, Waiting
<1>8. PostsExpected'
  BY <1>2 DEF AnswerInv, PostsExpected, Waiting
<1>9. NoneForgotten'
  <2> SUFFICES ASSUME NEW w \in Workers, Waiting(w), semS[pseg[w]] = 0
               PROVE  Carried(pseg[w])'
    BY <1>2 DEF NoneForgotten, Waiting
  <2>1. CASE \E i \in DOMAIN mq : mq[i].seg = pseg[w]
    <3> PICK i \in DOMAIN mq : mq[i].seg = pseg[w]
      BY <2>1
    <3>1. CASE i = 1
      BY <1>1, <1>2, <3>1 DEF Carried
    <3>2. CASE i # 1
      <4>1. i - 1 \in 1 .. (n - 1) /\ (i - 1) + 1 = i
        BY <1>1, <3>2
      <4> QED BY <1>1, <1>2, <4>1 DEF Carried
    <3> QED BY <3>1, <3>2
  <2>2. bossMsg.seg # pseg[w]
    <3>1. bossMsg.seg = NoSegment /\ pseg[w] \in Segments
      BY HeldSegment DEF BossReceive, NoMessage, Holding, Waiting
    <3> QED BY <3>1, Sentinels
  <2> QED BY <1>2, <2>1, <2>2 DEF AnswerInv, NoneForgotten, Carried, Announcing
<1> QED BY <1>4, <1>5, <1>6, <1>7, <1>8, <1>9 DEF AnswerInv

\* The boss enqueues the request.
LEMMA AnswerBossEnqueue ==
    ASSUME TypeOK, AnswerInv, BossEnqueue
    PROVE  AnswerInv'
<1> DEFINE n == Len(work)
<1>1. /\ n \in Nat /\ DOMAIN work = 1 .. n /\ DOMAIN work' = 1 .. (n + 1)
      /\ work'[n + 1] = bossMsg /\ \A i \in 1 .. n : work'[i] = work[i]
      /\ bossMsg \in Messages /\ bossMsg # NoMessage /\ bossMsg' = NoMessage
  BY DEF BossEnqueue, TypeOK, BossTypeOK
<1>2. UNCHANGED <<mq, semS, fileLength, req, pseg, ppc, cpc, cmsg>>
  BY DEF BossEnqueue, workerVars, segmentVars, cworkerVars
<1>3. \A x : Expected(x) => Expected(x)'
  BY <1>2 DEF Expected, Waiting
<1>4. QueuesDistinct'
  BY <1>1, <1>2 DEF AnswerInv, QueuesDistinct, BossDistinct
<1>5. /\ \A i \in DOMAIN mq : mq[i].seg \in Segments
      /\ \A i \in DOMAIN work : work[i].seg \in Segments
      /\ \A c \in CacheWorkers : Announcing(c) => cmsg[c].seg \in Segments
      /\ bossMsg.seg \in Segments /\ bossMsg'.seg \notin Segments
  <2>1. \A c \in CacheWorkers : Announcing(c) => cmsg[c].seg \in Segments
    BY MessageInHand DEF Announcing
  <2>2. bossMsg'.seg \notin Segments
    BY <1>1, Sentinels DEF NoMessage
  <2>3. /\ \A i \in DOMAIN mq : mq[i] \in Messages
        /\ \A i \in DOMAIN work : work[i] \in Messages
    BY DEF TypeOK, QueueTypeOK, BossTypeOK
  <2>4. \A m \in Messages : m.seg \in Segments
    BY DEF Messages
  <2> QED BY <1>1, <2>1, <2>2, <2>3, <2>4
<1>6. BossDistinct'
  <2>1. \A i \in 1 .. (n + 1) : work'[i].seg \in Segments
    <3> SUFFICES ASSUME NEW i \in 1 .. (n + 1) PROVE work'[i].seg \in Segments
      OBVIOUS
    <3>1. i \in 1 .. n \/ i = n + 1
      BY <1>1
    <3> QED BY <1>1, <1>5, <3>1
  <2> QED BY <1>1, <1>2, <1>5, <2>1 DEF BossDistinct
<1>7. CacheDistinct'
  BY <1>1, <1>2, <1>5 DEF AnswerInv, CacheDistinct, Announcing
<1>8. AllExpected'
  <2>1. (\A i \in DOMAIN work : Expected(work[i]))'
    <3> SUFFICES ASSUME NEW i \in 1 .. (n + 1)
                 PROVE  \E v \in Workers : /\ ppc'[v] = "waitS" /\ pseg'[v] = work'[i].seg
                                         /\ req'[v] = work'[i].file /\ semS'[work'[i].seg] = 0
      BY <1>1 DEF Expected, Waiting
    <3>1. CASE i \in 1 .. n
      BY <1>1, <1>3, <3>1 DEF AnswerInv, AllExpected, Expected, Waiting
    <3>2. CASE i = n + 1
      BY <1>1, <1>3, <3>2 DEF AnswerInv, AllExpected, Expected, Waiting
    <3> QED BY <1>1, <3>1, <3>2
  <2>2. (/\ \A i \in DOMAIN mq : Expected(mq[i])
         /\ \A c \in CacheWorkers : Announcing(c) => Expected(cmsg[c]))'
    BY <1>2, <1>3 DEF AnswerInv, AllExpected, Announcing, Expected, Waiting
  <2> QED BY <1>1, <2>1, <2>2 DEF AllExpected
<1>9. PostsExpected'
  BY <1>2 DEF AnswerInv, PostsExpected, Waiting
<1>10. NoneForgotten'
  BY <1>1, <1>2 DEF AnswerInv, NoneForgotten, Carried, Waiting, Announcing
<1> QED BY <1>4, <1>6, <1>7, <1>8, <1>9, <1>10 DEF AnswerInv

\* A cache worker takes the oldest request.  When there is none the process ends,
\* and the requests stay where they are.
LEMMA AnswerPopWork ==
    ASSUME TypeOK, AnswerInv, NEW c \in CacheWorkers, PopWork(c)
    PROVE  AnswerInv'
<1> DEFINE n == Len(work)
<1>1. UNCHANGED <<mq, bossMsg, semS, fileLength, req, pseg, ppc>> /\ ~Announcing(c)
  BY DEF PopWork, workerVars, segmentVars, Announcing
<1>2. CASE work = << >>
  <2>1. WaitersStay /\ AnnouncersStay /\ UNCHANGED work
    BY <1>1, <1>2 DEF PopWork, WaitersStay, AnnouncersStay
  <2> QED BY <1>1, <2>1, AnswerStays
<1>3. CASE work # << >>
  <2>1. /\ n \in Nat \ {0} /\ DOMAIN work = 1 .. n /\ DOMAIN work' = 1 .. (n - 1)
        /\ work[1] \in Messages
        /\ \A i \in 1 .. (n - 1) : i + 1 \in 1 .. n /\ work'[i] = work[i + 1]
    BY <1>3 DEF PopWork, TypeOK, BossTypeOK
  <2>2. /\ \A d \in CacheWorkers : cmsg'[d] = IF d = c THEN work[1] ELSE cmsg[d]
        /\ \A d \in CacheWorkers : cpc'[d] = IF d = c THEN "announce" ELSE cpc[d]
    BY <1>3, <2>1 DEF PopWork, CGoto, TypeOK, CacheWorkerTypeOK
  <2>3. \A x : Expected(x) => Expected(x)'
    BY <1>1 DEF Expected, Waiting
  <2>4. \A i \in 1 .. (n - 1) : work'[i].seg # work[1].seg
    <3> SUFFICES ASSUME NEW i \in 1 .. (n - 1) PROVE work[i + 1].seg # work[1].seg
      BY <2>1
    <3>1. i + 1 \in 1 .. n /\ 1 \in 1 .. n /\ i + 1 # 1
      BY <2>1
    <3> QED BY <2>1, <3>1 DEF AnswerInv, QueuesDistinct
  <2>5. QueuesDistinct'
    <3>1. ASSUME NEW i \in 1 .. (n - 1), NEW j \in 1 .. (n - 1), work'[i].seg = work'[j].seg
          PROVE  i = j
      <4>1. work[i + 1].seg = work[j + 1].seg
        BY <2>1, <3>1
      <4>2. i + 1 = j + 1
        BY <2>1, <4>1 DEF AnswerInv, QueuesDistinct
      <4> QED BY <4>2
    <3>2. \A i \in DOMAIN mq, j \in 1 .. (n - 1) : mq[i].seg # work'[j].seg
      BY <2>1 DEF AnswerInv, QueuesDistinct
    <3> QED BY <1>1, <2>1, <3>1, <3>2 DEF AnswerInv, QueuesDistinct
  <2>6. BossDistinct'
    BY <1>1, <2>1 DEF AnswerInv, BossDistinct
  <2>7. CacheDistinct'
    <3>1. /\ \A i \in DOMAIN mq : mq[i].seg # work[1].seg
          /\ bossMsg.seg # work[1].seg
          /\ \A d \in CacheWorkers : Announcing(d) => cmsg[d].seg # work[1].seg
      BY <2>1 DEF AnswerInv, QueuesDistinct, BossDistinct, CacheDistinct
    <3>2. \A d \in CacheWorkers, i \in 1 .. (n - 1) :
             Announcing(d) => work'[i].seg # cmsg[d].seg
      BY <2>1 DEF AnswerInv, CacheDistinct
    <3> QED BY <1>1, <2>1, <2>2, <2>4, <3>1, <3>2 DEF AnswerInv, CacheDistinct, Announcing
  <2>8. AllExpected'
    <3>1. (/\ \A i \in DOMAIN mq : Expected(mq[i])
           /\ bossMsg # NoMessage => Expected(bossMsg))'
      BY <1>1, <2>3 DEF AnswerInv, AllExpected, Expected, Waiting
    <3>2. (\A i \in DOMAIN work : Expected(work[i]))'
      <4>1. \A i \in 1 .. (n - 1) : Expected(work[i + 1])
        BY <2>1 DEF AnswerInv, AllExpected
      <4> SUFFICES ASSUME NEW i \in 1 .. (n - 1)
                   PROVE  \E w \in Workers :
                             /\ ppc'[w] = "waitS" /\ pseg'[w] = work'[i].seg
                             /\ req'[w] = work'[i].file /\ semS'[work'[i].seg] = 0
        BY <2>1 DEF Expected, Waiting
      <4> QED BY <2>1, <2>3, <4>1 DEF Expected, Waiting
    <3>3. (\A d \in CacheWorkers : Announcing(d) => Expected(cmsg[d]))'
      <4> SUFFICES ASSUME NEW d \in CacheWorkers, cpc'[d] = "announce"
                   PROVE  \E w \in Workers :
                             /\ ppc'[w] = "waitS" /\ pseg'[w] = cmsg'[d].seg
                             /\ req'[w] = cmsg'[d].file /\ semS'[cmsg'[d].seg] = 0
        BY DEF Announcing, Expected, Waiting
      <4>1. CASE d = c
        BY <2>1, <2>2, <2>3, <4>1 DEF AnswerInv, AllExpected, Expected, Waiting
      <4>2. CASE d # c
        BY <2>2, <2>3, <4>2 DEF AnswerInv, AllExpected, Announcing, Expected, Waiting
      <4> QED BY <4>1, <4>2
    <3> QED BY <3>1, <3>2, <3>3 DEF AllExpected
  <2>9. PostsExpected'
    BY <1>1 DEF AnswerInv, PostsExpected, Waiting
  <2>10. NoneForgotten'
    <3> SUFFICES ASSUME NEW w \in Workers, Waiting(w), semS[pseg[w]] = 0
                 PROVE  Carried(pseg[w])'
      BY <1>1 DEF NoneForgotten, Waiting
    <3>1. CASE \E i \in DOMAIN work : work[i].seg = pseg[w]
      <4> PICK i \in DOMAIN work : work[i].seg = pseg[w]
        BY <3>1
      <4>1. CASE i = 1
        BY <1>1, <2>2, <4>1 DEF Carried, Announcing
      <4>2. CASE i # 1
        <5>1. i - 1 \in 1 .. (n - 1) /\ (i - 1) + 1 = i
          BY <2>1, <4>2
        <5> QED BY <1>1, <2>1, <5>1 DEF Carried
      <4> QED BY <4>1, <4>2
    <3> QED BY <1>1, <2>2, <3>1 DEF AnswerInv, NoneForgotten, Carried, Announcing
  <2> QED BY <2>5, <2>6, <2>7, <2>8, <2>9, <2>10 DEF AnswerInv
<1> QED BY <1>2, <1>3

\* The length is announced to the one worker that waits for it.
LEMMA AnswerAnnounce ==
    ASSUME TypeOK, SegmentOwnership, AnswerInv, NEW c \in CacheWorkers, Announce(c)
    PROVE  AnswerInv'
<1> DEFINE m == cmsg[c]
           s == cmsg[c].seg
<1>1. cpc[c] = "announce" /\ Announcing(c) /\ s \in Segments /\ m.file \in Files
  BY MessageInHand DEF Announce, Announcing
<1>2. /\ UNCHANGED <<mq, bossMsg, work, req, pseg, ppc>>
      /\ \A d \in CacheWorkers \ {c} : cpc'[d] = cpc[d] /\ cmsg'[d] = cmsg[d]
      /\ cpc'[c] # "announce"
  BY DEF Announce, NextChunkOrIdle, CGoto, TypeOK, CacheWorkerTypeOK, workerVars, bossVars
<1>3. /\ semS'[s] = semS[s] + 1 /\ \A r \in Segments \ {s} : semS'[r] = semS[r]
      /\ fileLength'[s] = LengthOf(m.file)
      /\ \A r \in Segments \ {s} : fileLength'[r] = fileLength[r]
  BY <1>1 DEF Announce, Post, TypeOK, SegmentTypeOK
<1>4. PICK w \in Workers : Waiting(w) /\ pseg[w] = s /\ req[w] = m.file /\ semS[s] = 0
  BY <1>1 DEF AnswerInv, AllExpected, Expected
<1>5. \A x \in Messages : x.seg # s /\ Expected(x) => Expected(x)'
  BY <1>2, <1>3 DEF Expected, Waiting, Messages
<1>6. /\ \A i \in DOMAIN mq : mq[i] \in Messages /\ mq[i].seg # s
      /\ \A i \in DOMAIN work : work[i] \in Messages /\ work[i].seg # s
      /\ bossMsg # NoMessage => bossMsg \in Messages
      /\ bossMsg.seg # s
  BY <1>1 DEF TypeOK, QueueTypeOK, BossTypeOK, AnswerInv, CacheDistinct
<1>7. \A d \in CacheWorkers \ {c} : Announcing(d) => cmsg[d] \in Messages /\ cmsg[d].seg # s
  BY <1>1 DEF TypeOK, CacheWorkerTypeOK, LiveLocals, Announcing, AnswerInv, CacheDistinct
<1>8. QueuesDistinct' /\ BossDistinct' /\ CacheDistinct'
  BY <1>2 DEF AnswerInv, QueuesDistinct, BossDistinct, CacheDistinct, Announcing
<1>9. AllExpected'
  BY <1>2, <1>5, <1>6, <1>7 DEF AnswerInv, AllExpected, Announcing, Expected, Waiting
<1>10. PostsExpected'
  <2> SUFFICES ASSUME NEW r \in Segments
               PROVE  /\ semS'[r] \in {0, 1}
                      /\ semS'[r] = 1 => \E v \in Workers :
                            ppc'[v] = "waitS" /\ pseg'[v] = r /\ fileLength'[r] = LengthOf(req'[v])
    BY DEF PostsExpected, Waiting
  <2>1. CASE r = s
    BY <1>2, <1>3, <1>4, <2>1 DEF Waiting
  <2>2. CASE r # s
    BY <1>2, <1>3, <2>2 DEF AnswerInv, PostsExpected, Waiting
  <2> QED BY <2>1, <2>2
<1>11. NoneForgotten'
  <2> SUFFICES ASSUME NEW v \in Workers, Waiting(v), semS'[pseg[v]] = 0
               PROVE  Carried(pseg[v])'
    BY <1>2 DEF NoneForgotten, Waiting
  <2>1. pseg[v] \in Segments
    BY HeldSegment DEF Waiting, Holding
  <2>2. pseg[v] # s /\ semS[pseg[v]] = 0
    BY <1>3, <1>4, <2>1
  <2> QED BY <1>2, <2>2 DEF AnswerInv, NoneForgotten, Carried, Announcing
<1> QED BY <1>8, <1>9, <1>10, <1>11 DEF AnswerInv

\* Every step keeps the requests and the answers apart.
LEMMA AnswerNext ==
    TypeOK /\ SegmentOwnership /\ AnswerInv /\ [Next]_vars => AnswerInv'
<1> SUFFICES ASSUME TypeOK, SegmentOwnership, AnswerInv, [Next]_vars PROVE AnswerInv'
  OBVIOUS
<1> DEFINE Rest == UNCHANGED <<mq, bossMsg, work, semS, fileLength>>
<1>1. ASSUME NEW w \in Workers, StartRequest(w) \/ WakeSpuriously(w) \/ FailToSend(w)
      PROVE  AnswerInv'
  <2>1. Rest /\ AnnouncersStay
    BY <1>1 DEF StartRequest, WakeSpuriously, FailToSend, AnnouncersStay, segmentVars,
       cacheVars, bossVars, cworkerVars
  <2>2. WaitersStay
    BY <1>1 DEF StartRequest, WakeSpuriously, FailToSend, CountBytes, Goto, WaitersStay, Waiting,
       TypeOK, WorkerTypeOK, workerVars
  <2> QED BY <2>1, <2>2, AnswerStays
<1>2. ASSUME NEW w \in Workers, ProxyStep(w) PROVE AnswerInv'
  <2>1. CASE InitSegment(w) \/ SendRequest(w) \/ ReadLength(w)
    BY <2>1, AnswerInitSegment, AnswerSendRequest, AnswerReadLength
  <2>2. CASE TakeSegment(w) \/ SleepForSegment(w) \/ InitWriterSem(w) \/ LockForRequest(w)
    <3>1. Rest /\ AnnouncersStay
      BY <2>2 DEF TakeSegment, SleepForSegment, InitWriterSem, LockForRequest, AnnouncersStay,
         segmentVars, cacheVars, bossVars, cworkerVars
    <3>2. WaitersStay
      BY <2>2 DEF TakeSegment, SleepForSegment, InitWriterSem, LockForRequest, Goto,
         WaitersStay, Waiting, TypeOK, WorkerTypeOK, workerVars
    <3> QED BY <3>1, <3>2, AnswerStays
  <2>3. CASE AwaitChunk(w) \/ CopyChunk(w) \/ SendChunk(w)
    <3>1. Rest /\ AnnouncersStay
      BY <2>3 DEF AwaitChunk, CopyChunk, SendChunk, AnnouncersStay, segmentVars, cacheVars,
         bossVars, cworkerVars
    <3>2. WaitersStay
      BY <2>3 DEF AwaitChunk, CopyChunk, SendChunk, CountBytes, Goto, WaitersStay, Waiting,
         TypeOK, WorkerTypeOK, workerVars
    <3> QED BY <3>1, <3>2, AnswerStays
  <2>4. CASE ReleaseSegment(w) \/ SignalFree(w) \/ Return(w)
    <3>1. Rest /\ AnnouncersStay
      BY <2>4 DEF ReleaseSegment, SignalFree, Return, AnnouncersStay, segmentVars, cacheVars,
         bossVars, cworkerVars
    <3>2. WaitersStay
      BY <2>4 DEF ReleaseSegment, SignalFree, Return, Goto, WaitersStay, Waiting, TypeOK,
         WorkerTypeOK, workerVars
    <3> QED BY <3>1, <3>2, AnswerStays
  <2> QED BY <1>2, <2>1, <2>2, <2>3, <2>4 DEF ProxyStep
<1>3. CASE BossReceive \/ BossEnqueue
  BY <1>3, AnswerBossReceive, AnswerBossEnqueue
<1>4. ASSUME NEW c \in CacheWorkers, CacheStep(c) PROVE AnswerInv'
  <2>1. CASE PopWork(c) \/ Announce(c)
    BY <2>1, AnswerPopWork, AnswerAnnounce
  <2>2. CASE TakePost(c) \/ WriteChunk(c) \/ PostChunk(c) \/ AwaitTaken(c)
    <3>1. Rest /\ WaitersStay
      BY <2>2 DEF TakePost, WriteChunk, PostChunk, AwaitTaken, WaitersStay, workerVars,
         segmentVars, bossVars
    <3>2. AnnouncersStay
      BY <2>2 DEF TakePost, WriteChunk, PostChunk, AwaitTaken, NextChunkOrIdle, CGoto,
         AnnouncersStay, Announcing, TypeOK, CacheWorkerTypeOK
    <3> QED BY <3>1, <3>2, AnswerStays
  <2> QED BY <1>4, <2>1, <2>2 DEF CacheStep
<1>5. CASE UNCHANGED vars
  <2>1. Rest /\ WaitersStay /\ AnnouncersStay
    BY <1>5 DEF vars, workerVars, segmentVars, cacheVars, bossVars, cworkerVars, WaitersStay,
       AnnouncersStay
  <2> QED BY <2>1, AnswerStays
<1> QED BY <1>1, <1>2, <1>3, <1>4, <1>5 DEF Next

\* At first nobody waits and nothing is on its way.
LEMMA AnswerInit == Init => AnswerInv
<1> SUFFICES ASSUME Init PROVE AnswerInv
  OBVIOUS
<1>1. DOMAIN mq = {} /\ DOMAIN work = {} /\ bossMsg = NoMessage
  BY DEF Init
<1>2. /\ \A w \in Workers : ~Waiting(w)
      /\ \A c \in CacheWorkers : ~Announcing(c)
      /\ \A s \in Segments : semS[s] = 0
  BY DEF Init, Waiting, Announcing
<1> QED BY <1>1, <1>2 DEF AnswerInv, QueuesDistinct, BossDistinct, CacheDistinct, AllExpected,
        PostsExpected, NoneForgotten

\* Requests and answers as the sets of carriers of OneAnswerPerRequest.
LEMMA AnswerImplies ==
    ASSUME TypeOK, SegmentOwnership, AnswerInv
    PROVE  OneAnswerPerRequest
<1> SUFFICES ASSUME NEW s \in Segments
             PROVE  LET waiting == \E w \in Workers : ppc[w] = "waitS" /\ pseg[w] = s IN
                    /\ \A x, y \in Carriers(s) : x = y
                    /\ semS[s] \in {0, 1}
                    /\ waiting => (Carriers(s) = {} <=> semS[s] = 1)
                    /\ ~waiting => Carriers(s) = {} /\ semS[s] = 0
  BY DEF OneAnswerPerRequest
<1>1. \A x : x \in Carriers(s) <=>
         \/ \E i \in DOMAIN mq : mq[i].seg = s /\ x = <<"mq", i>>
         \/ bossMsg # NoMessage /\ bossMsg.seg = s /\ x = <<"boss", bossMsg>>
         \/ \E i \in DOMAIN work : work[i].seg = s /\ x = <<"work", i>>
         \/ \E c \in CacheWorkers : Announcing(c) /\ cmsg[c].seg = s /\ x = <<"cache", c>>
  <2>1. NoMessage \notin [file : Files, seg : {s}]
    BY Sentinels DEF NoMessage
  <2>2. bossMsg # NoMessage /\ bossMsg.seg = s => bossMsg \in [file : Files, seg : {s}]
    BY DEF TypeOK, BossTypeOK, Messages
  <2> QED BY <2>1, <2>2 DEF Carriers, Announcing
<1>2. \A x, y \in Carriers(s) : x = y
  BY <1>1 DEF AnswerInv, QueuesDistinct, BossDistinct, CacheDistinct
<1>3. semS[s] \in {0, 1}
  BY DEF AnswerInv, PostsExpected
<1>4. Carriers(s) # {} =>
         semS[s] = 0 /\ \E w \in Workers : ppc[w] = "waitS" /\ pseg[w] = s
  BY <1>1 DEF AnswerInv, AllExpected, Expected, Waiting
<1>5. ASSUME NEW w \in Workers, ppc[w] = "waitS", pseg[w] = s, semS[s] = 0
      PROVE  Carriers(s) # {}
  <2>1. Carried(s)
    BY <1>5 DEF AnswerInv, NoneForgotten, Waiting
  <2>2. bossMsg.seg = s => bossMsg # NoMessage
    BY Sentinels DEF NoMessage
  <2> QED BY <1>1, <2>1, <2>2 DEF Carried
<1>6. semS[s] = 1 => \E w \in Workers : ppc[w] = "waitS" /\ pseg[w] = s
  BY DEF AnswerInv, PostsExpected, Waiting
<1> QED BY <1>2, <1>3, <1>4, <1>5, <1>6

\* A request reaches a cache worker once and is answered once, whatever happens
\* to segments, sends and the cache meanwhile.
THEOREM AnsweredOnce == Spec => []OneAnswerPerRequest
<1>1. Init => TypeOK /\ SegmentOwnership /\ AnswerInv
  BY TypeInit, OwnershipInit, AnswerInit
<1>2. TypeOK /\ SegmentOwnership /\ AnswerInv /\ [Next]_vars
        => (TypeOK /\ SegmentOwnership /\ AnswerInv)'
  BY TypeNext, OwnershipNext, AnswerNext
<1>3. TypeOK /\ SegmentOwnership /\ AnswerInv => OneAnswerPerRequest
  BY AnswerImplies
<1> QED BY <1>1, <1>2, <1>3, PTL DEF Spec
-----------------------------------------------------------------------------
(* The header.                                                              *)

\* A length is smaller than the modulus of size_t, and so is not changed by it.
LEMMA LengthWhole ==
    ASSUME NEW f \in Files
    PROVE  LengthOf(f) \in Nat /\ LengthOf(f) % SizeModulus = LengthOf(f)
<1>1. LengthOf(f) \in Nat /\ LengthOf(f) < SizeModulus
  BY SizesAssumption, FilesAssumption DEF LengthOf
<1>2. \A k, n \in Nat : k < n => k % n = k
  OBVIOUS
<1> QED BY <1>1, <1>2, SizesAssumption

\* The length that a worker reads is that of its path.
LEMMA HeaderReadLength ==
    ASSUME TypeOK, SegmentOwnership, AnswerInv, HeaderInv, NEW w \in Workers, ReadLength(w)
    PROVE  HeaderInv'
<1> DEFINE s == pseg[w]
<1>1. /\ ppc[w] = "waitS" /\ s \in Segments /\ s # NoSegment /\ req[w] \in Files
      /\ semS[s] > 0
  BY HeldSegment, Sentinels DEF ReadLength, Holding
<1>2. semS[s] = 1
  BY <1>1 DEF AnswerInv, PostsExpected
<1>3. PICK v \in Workers : Waiting(v) /\ pseg[v] = s /\ fileLength[s] = LengthOf(req[v])
  BY <1>1, <1>2 DEF AnswerInv, PostsExpected
<1>4. v = w
  BY <1>1, <1>3 DEF SegmentOwnership, HeldOnce
<1>5. fileLength[s] % SizeModulus = LengthOf(req[w]) /\ LengthOf(req[w]) \in Nat
  BY <1>1, <1>3, <1>4, LengthWhole
<1>6. /\ UNCHANGED req
      /\ \A x \in Workers \ {w} :
            ppc'[x] = ppc[x] /\ flen'[x] = flen[x] /\ status'[x] = status[x]
      /\ ppc'[w] \in {"release", "waitR"} /\ flen'[w] = LengthOf(req[w])
      /\ status'[w] = "none" \/ (status'[w] = "ok" /\ flen'[w] # 0)
  BY <1>1, <1>5 DEF ReadLength, Goto, TypeOK, WorkerTypeOK, ClientTypeOK, HeaderInv, Answered
<1> QED BY <1>5, <1>6 DEF HeaderInv, Answered

\* Every step keeps to the announced length.
LEMMA HeaderNext ==
    TypeOK /\ SegmentOwnership /\ AnswerInv /\ HeaderInv /\ [Next]_vars => HeaderInv'
<1> SUFFICES ASSUME TypeOK, SegmentOwnership, AnswerInv, HeaderInv, [Next]_vars
             PROVE  HeaderInv'
  OBVIOUS
<1>1. ASSUME UNCHANGED <<ppc, req, flen, status>> PROVE HeaderInv'
  BY <1>1 DEF HeaderInv, Answered
<1>2. ASSUME NEW w \in Workers, StartRequest(w) \/ WakeSpuriously(w) \/ FailToSend(w)
      PROVE  HeaderInv'
  BY <1>2 DEF StartRequest, WakeSpuriously, FailToSend, CountBytes, Goto, HeaderInv, Answered,
     TypeOK, WorkerTypeOK, workerVars, clientVars
<1>3. ASSUME NEW w \in Workers, ProxyStep(w) PROVE HeaderInv'
  <2>1. CASE TakeSegment(w) \/ SleepForSegment(w) \/ InitSegment(w) \/ InitWriterSem(w)
    BY <2>1 DEF TakeSegment, SleepForSegment, InitSegment, InitWriterSem, Goto, HeaderInv,
       Answered, TypeOK, WorkerTypeOK, workerVars, clientVars
  <2>2. CASE LockForRequest(w) \/ SendRequest(w)
    BY <2>2 DEF LockForRequest, SendRequest, Goto, HeaderInv, Answered, TypeOK, WorkerTypeOK,
       workerVars, clientVars
  <2>3. CASE ReadLength(w)
    BY <2>3, HeaderReadLength
  <2>4. CASE AwaitChunk(w) \/ CopyChunk(w) \/ SendChunk(w) \/ ReleaseSegment(w)
    BY <2>4 DEF AwaitChunk, CopyChunk, SendChunk, ReleaseSegment, CountBytes, Goto, HeaderInv,
       Answered, TypeOK, WorkerTypeOK, workerVars, clientVars
  <2>5. CASE SignalFree(w)
    BY <2>5 DEF SignalFree, Goto, HeaderInv, Answered, TypeOK, WorkerTypeOK, ClientTypeOK,
       workerVars
  <2>6. CASE Return(w)
    BY <2>6 DEF Return, Goto, HeaderInv, Answered, TypeOK, WorkerTypeOK, ClientTypeOK
  <2> QED BY <1>3, <2>1, <2>2, <2>3, <2>4, <2>5, <2>6 DEF ProxyStep
<1>4. CASE BossReceive \/ BossEnqueue
  BY <1>1, <1>4 DEF BossReceive, BossEnqueue, workerVars, clientVars
<1>5. ASSUME NEW c \in CacheWorkers, CacheStep(c) PROVE HeaderInv'
  BY <1>1, <1>5 DEF CacheStep, TakePost, PopWork, Announce, WriteChunk, PostChunk, AwaitTaken,
     workerVars, clientVars
<1>6. CASE UNCHANGED vars
  BY <1>1, <1>6 DEF vars, workerVars, clientVars
<1> QED BY <1>2, <1>3, <1>4, <1>5, <1>6 DEF Next

\* A client is told "not found" only when its path has no byte in the cache, and
\* "ok" only with its own file's length: an answer is never another request's.
THEOREM HeadersCorrect == Spec => []HeaderTruthful
<1>1. Init => TypeOK /\ SegmentOwnership /\ AnswerInv /\ HeaderInv
  BY TypeInit, OwnershipInit, AnswerInit DEF Init, HeaderInv, Answered
<1>2. TypeOK /\ SegmentOwnership /\ AnswerInv /\ HeaderInv /\ [Next]_vars
        => (TypeOK /\ SegmentOwnership /\ AnswerInv /\ HeaderInv)'
  BY TypeNext, OwnershipNext, AnswerNext, HeaderNext
<1>3. HeaderInv => HeaderTruthful
  BY DEF HeaderInv, HeaderTruthful, Answered
<1> QED BY <1>1, <1>2, <1>3, PTL DEF Spec
-----------------------------------------------------------------------------
(* The posts of /CACHE.                                                     *)

\* Cache workers that have taken a post and no message yet.
Poppers == {c \in CacheWorkers : cpc[c] = "pop"}

\* Posts that are left and posts that were taken make up the work queue.
PostsMatch == ~exited /\ semCache + Cardinality(Poppers) = Len(work)

\* Nothing of the count changes.
LEMMA PostsStay ==
    ASSUME PostsMatch, Poppers' = Poppers, UNCHANGED <<exited, semCache, work>>
    PROVE  PostsMatch'
BY DEF PostsMatch

\* Every step of the boss and of a cache worker keeps the count.
LEMMA PostsNext ==
    ASSUME IsFiniteSet(CacheWorkers), TypeOK, PostsMatch, [Next]_vars
    PROVE  PostsMatch'
<1>1. /\ IsFiniteSet(Poppers) /\ Cardinality(Poppers) \in Nat
      /\ semCache \in Nat /\ work \in Seq(Messages) /\ Len(work) \in Nat
      /\ cpc \in [CacheWorkers -> CacheLabels]
  BY FS_Subset, FS_CardinalityType DEF Poppers, TypeOK, BossTypeOK, CacheWorkerTypeOK
<1>2. ASSUME NEW w \in Workers,
             StartRequest(w) \/ WakeSpuriously(w) \/ FailToSend(w) \/ ProxyStep(w)
      PROVE  PostsMatch'
  <2>1. UNCHANGED <<cpc, exited, semCache, work>>
    BY <1>2 DEF StartRequest, WakeSpuriously, FailToSend, ProxyStep, TakeSegment,
       SleepForSegment, InitSegment, InitWriterSem, LockForRequest, SendRequest, ReadLength,
       AwaitChunk, CopyChunk, SendChunk, ReleaseSegment, SignalFree, Return, cacheVars, bossVars,
       cworkerVars
  <2> QED BY <2>1, PostsStay DEF Poppers
<1>3. CASE BossReceive
  BY <1>3, PostsStay DEF BossReceive, cworkerVars, Poppers
<1>4. CASE BossEnqueue
  <2>1. /\ Poppers' = Poppers /\ exited' = exited
        /\ semCache' = semCache + 1 /\ Len(work') = Len(work) + 1
    BY <1>1, <1>4 DEF BossEnqueue, cworkerVars, Poppers
  <2> QED BY <1>1, <2>1 DEF PostsMatch
<1>5. ASSUME NEW c \in CacheWorkers, TakePost(c) PROVE PostsMatch'
  <2>1. c \notin Poppers /\ Poppers' = Poppers \cup {c}
    BY <1>1, <1>5 DEF TakePost, CGoto, Poppers
  <2>2. Cardinality(Poppers') = Cardinality(Poppers) + 1
    BY <1>1, <2>1, FS_AddElement
  <2>3. semCache' = semCache - 1 /\ UNCHANGED <<work, exited>>
    BY <1>5 DEF TakePost
  <2> QED BY <1>1, <2>2, <2>3 DEF PostsMatch
<1>6. ASSUME NEW c \in CacheWorkers, PopWork(c) PROVE PostsMatch'
  <2>1. c \in Poppers
    BY <1>6 DEF PopWork, Poppers
  <2>2. Cardinality(Poppers \ {c}) = Cardinality(Poppers) - 1
    BY <1>1, <2>1, FS_RemoveElement
  <2>3. Cardinality(Poppers \ {c}) \in Nat
    BY <1>1, FS_RemoveElement, FS_CardinalityType
  <2>4. work # << >>
    BY <1>1, <2>2, <2>3 DEF PostsMatch
  <2>5. /\ Poppers' = Poppers \ {c} /\ Len(work') = Len(work) - 1
        /\ UNCHANGED <<semCache, exited>>
    BY <1>1, <1>6, <2>4 DEF PopWork, CGoto, Poppers
  <2> QED BY <1>1, <2>2, <2>5 DEF PostsMatch
<1>7. ASSUME NEW c \in CacheWorkers, Announce(c) \/ WriteChunk(c) \/ PostChunk(c) \/ AwaitTaken(c)
      PROVE  PostsMatch'
  <2>1. Poppers' = Poppers /\ UNCHANGED <<exited, semCache, work>>
    BY <1>1, <1>7 DEF Announce, WriteChunk, PostChunk, AwaitTaken, NextChunkOrIdle, CGoto,
       Poppers, bossVars
  <2> QED BY <2>1, PostsStay
<1>8. CASE UNCHANGED vars
  BY <1>8, PostsStay DEF vars, cacheVars, bossVars, cworkerVars, Poppers
<1> QED BY <1>2, <1>3, <1>4, <1>5, <1>6, <1>7, <1>8 DEF Next, CacheStep

\* With a semaphore that no earlier run has left posts in, no cache worker ever
\* finds the work queue empty: steque_pop does not end the process.
THEOREM CacheNeverExits ==
    ASSUME IsFiniteSet(CacheWorkers), StalePosts = 0
    PROVE  Spec => []CacheSurvives
<1>1. Init => TypeOK /\ PostsMatch
  <2> SUFFICES ASSUME Init PROVE PostsMatch
    BY TypeInit
  <2>1. Poppers = {} /\ work = << >> /\ semCache = 0 /\ ~exited
    BY DEF Init, Poppers, SemCacheInitially
  <2> QED BY <2>1, FS_EmptySet DEF PostsMatch
<1>2. TypeOK /\ PostsMatch /\ [Next]_vars => (TypeOK /\ PostsMatch)'
  BY TypeNext, PostsNext
<1>3. PostsMatch => CacheSurvives
  BY DEF PostsMatch, CacheSurvives
<1> QED BY <1>1, <1>2, <1>3, PTL DEF Spec
=============================================================================
