----------------------- MODULE ShmCacheChunks_proofs -----------------------
(***************************************************************************)
(* Theorems about the transfer of a file through a segment in ShmCache: no *)
(* chunk is overwritten before it was copied out, every client gets the    *)
(* chunks of its own file in order, and the proxy with its cache           *)
(* implements ProxyService.  All three need gfs_send to succeed: after a   *)
(* failed send the code breaks them, which a run shows.                    *)
(***************************************************************************)
EXTENDS ShmCache_proofs

\* The cache has announced the length to w, which may have chunks to copy.
Served(w) ==
    \/ ppc[w] \in {"waitR", "copy", "send"}
    \/ Waiting(w) /\ semS[pseg[w]] = 1

\* How far w is in its file, with the chunk it is sending, and what is left.
Position(w)  == IF ppc[w] = "send"
                THEN sent[w] + ChunkLen(LengthOf(req[w]) - sent[w])
                ELSE sent[w]
Remaining(w) == LengthOf(req[w]) - Position(w)

\* A cache worker that writes a chunk, or that waits and has another one.
Writes(c) == cpc[c] \in {"write", "post"}
Feeds(c)  == Writes(c) \/ (cpc[c] = "waitW" /\ cpos[c] < LengthOf(cmsg[c].file))

\* A chunk that w has not copied yet lies in the segment.
Ready(w) == semR[pseg[w]] = 1 \/ ppc[w] = "copy"

\* The chunk that lies in the segment, or is being written, is w's next one.
NextChunk(w) == [file |-> req[w], at |-> Position(w)]

\* Where c is in the file it feeds to w.
InStep(c, w) ==
    IF Writes(c)
    THEN /\ ~Ready(w) /\ semR[pseg[w]] = 0 /\ semW[pseg[w]] = 0
         /\ cpos[c] = Position(w) /\ Remaining(w) > 0
         /\ cpc[c] = "post" => buffer[pseg[w]] = NextChunk(w)
    ELSE cpos[c] = IF Ready(w) THEN Position(w) + ChunkLen(Remaining(w)) ELSE Position(w)

\* The state of segment s, of the worker it serves and of the one that feeds it.
Wanted(s) ==
    /\ \A c \in CacheWorkers : Feeds(c) /\ cmsg[c].seg = s =>
          \E w \in Workers : Served(w) /\ pseg[w] = s /\ req[w] = cmsg[c].file
    /\ semR[s] = 1 => \E w \in Workers : Served(w) /\ pseg[w] = s
OneFeeder(s) ==
    \A c, d \in CacheWorkers :
        Feeds(c) /\ Feeds(d) /\ cmsg[c].seg = s /\ cmsg[d].seg = s => c = d
ChunkReady(s) ==
    \A w \in Workers : Served(w) /\ pseg[w] = s /\ Ready(w) =>
        /\ semW[s] = 0 /\ Remaining(w) > 0 /\ buffer[s] = NextChunk(w)
        /\ ppc[w] = "copy" => semR[s] = 0
Fed(s) ==
    \A w \in Workers, c \in CacheWorkers :
        Served(w) /\ pseg[w] = s /\ Feeds(c) /\ cmsg[c].seg = s => InStep(c, w)
Drained(s) ==
    \A w \in Workers :
        ppc[w] \in {"lock", "mqsend", "waitS"} /\ pseg[w] = s => semW[s] = 0

ChannelInv(s) ==
    /\ semR[s] \in {0, 1} /\ semW[s] \in {0, 1}
    /\ Wanted(s)
    /\ OneFeeder(s)
    /\ ChunkReady(s)
    /\ Fed(s)
    /\ Drained(s)

\* The segments are one-place buffers between one feeder and one worker.
ChunkInv == \A s \in Segments : ChannelInv(s)

\* The chunks a client got, and how many bytes its worker has counted.
InTransfer(w) == ppc[w] \in {"waitR", "copy", "send"}
ReplyOK(w) ==
    /\ \A i \in DOMAIN got[w] : got[w][i] = [file |-> req[w], at |-> (i - 1) * ChunkSize]
    /\ ~Answered(w) => sent[w] = 0 /\ got[w] = << >>
    /\ InTransfer(w) => sent[w] = Len(got[w]) * ChunkSize /\ sent[w] < LengthOf(req[w])
    /\ ppc[w] = "send" => data[w] = [file |-> req[w], at |-> sent[w]]
    /\ Answered(w) /\ ~InTransfer(w) =>
          /\ LengthOf(req[w]) <= Len(got[w]) * ChunkSize
          /\ got[w] # << >> => (Len(got[w]) - 1) * ChunkSize < LengthOf(req[w])

ReplyInv == \A w \in Workers : ReplyOK(w)
-----------------------------------------------------------------------------
(* Segments that a step does not touch.                                     *)

\* No worker that s serves and none that feeds it does anything.
ChannelStays(s) ==
    /\ \A w \in Workers :
          /\ Served(w)' /\ pseg'[w] = s <=> Served(w) /\ pseg[w] = s
          /\ Served(w) /\ pseg[w] = s =>
                ppc'[w] = ppc[w] /\ req'[w] = req[w] /\ sent'[w] = sent[w]
          /\ ppc'[w] \in {"lock", "mqsend", "waitS"} /\ pseg'[w] = s =>
                ppc[w] \in {"lock", "mqsend", "waitS"} /\ pseg[w] = s
    /\ \A c \in CacheWorkers :
          /\ Feeds(c)' /\ cmsg'[c].seg = s <=> Feeds(c) /\ cmsg[c].seg = s
          /\ Feeds(c) /\ cmsg[c].seg = s =>
                cpc'[c] = cpc[c] /\ cpos'[c] = cpos[c] /\ cmsg'[c] = cmsg[c]
    /\ semR'[s] = semR[s] /\ semW'[s] = semW[s] /\ buffer'[s] = buffer[s]

\* Then s stays as it was.
LEMMA Untouched ==
    ASSUME NEW s \in Segments, ChannelInv(s), ChannelStays(s)
    PROVE  ChannelInv(s)'
<1>1. /\ semR'[s] \in {0, 1} /\ semW'[s] \in {0, 1}
      /\ \A w \in Workers : Served(w)' /\ pseg'[w] = s =>
            /\ Served(w) /\ pseg[w] = s
            /\ ppc'[w] = ppc[w] /\ req'[w] = req[w] /\ sent'[w] = sent[w]
      /\ \A c \in CacheWorkers : Feeds(c)' /\ cmsg'[c].seg = s =>
            /\ Feeds(c) /\ cmsg[c].seg = s
            /\ cpc'[c] = cpc[c] /\ cpos'[c] = cpos[c] /\ cmsg'[c] = cmsg[c]
  BY DEF ChannelStays, ChannelInv
<1>2. Wanted(s)'
  <2>1. \A c \in CacheWorkers : Feeds(c)' /\ cmsg'[c].seg = s =>
          \E w \in Workers : Served(w)' /\ pseg'[w] = s /\ req'[w] = cmsg'[c].file
    BY <1>1 DEF ChannelStays, ChannelInv, Wanted
  <2>2. semR'[s] = 1 => \E w \in Workers : Served(w)' /\ pseg'[w] = s
    BY <1>1 DEF ChannelStays, ChannelInv, Wanted
  <2> QED BY <2>1, <2>2 DEF Wanted
<1>3. OneFeeder(s)'
  BY <1>1 DEF ChannelInv, OneFeeder
<1>4. \A w \in Workers : Served(w)' /\ pseg'[w] = s =>
         /\ Position(w)' = Position(w) /\ Remaining(w)' = Remaining(w)
         /\ NextChunk(w)' = NextChunk(w) /\ Ready(w)' = Ready(w)
  BY <1>1 DEF Position, Remaining, NextChunk, Ready, ChannelStays
<1>5. ChunkReady(s)'
  BY <1>1, <1>4 DEF ChannelStays, ChannelInv, ChunkReady
<1>6. Fed(s)'
  <2> SUFFICES ASSUME NEW w \in Workers, NEW c \in CacheWorkers,
                      Served(w)', pseg'[w] = s, Feeds(c)', cmsg'[c].seg = s
               PROVE  InStep(c, w)'
    BY DEF Fed
  <2>1. InStep(c, w)
    BY <1>1 DEF ChannelInv, Fed
  <2>2. Writes(c)' = Writes(c) /\ cpos'[c] = cpos[c] /\ cpc'[c] = cpc[c] /\ pseg[w] = s
    BY <1>1 DEF Writes
  <2> QED BY <1>4, <2>1, <2>2 DEF InStep, ChannelStays
<1>7. Drained(s)'
  BY DEF ChannelStays, ChannelInv, Drained
<1> QED BY <1>1, <1>2, <1>3, <1>5, <1>6, <1>7 DEF ChannelInv
-----------------------------------------------------------------------------
(* Facts about workers and segments.                                        *)

\* A worker that is served has a segment and a path.
LEMMA ServedFacts ==
    ASSUME TypeOK, NEW w \in Workers, Served(w)
    PROVE  /\ pseg[w] \in Segments /\ pseg[w] # NoSegment /\ req[w] \in Files
           /\ LengthOf(req[w]) \in Nat /\ sent[w] \in Nat
           /\ Position(w) \in Nat /\ Remaining(w) \in Int
<1>1. pseg[w] \in Segments /\ req[w] \in Files
  BY HeldSegment DEF Served, Waiting, Holding
<1>2. LengthOf(req[w]) \in Nat /\ sent[w] \in Nat
  BY <1>1, LengthType DEF TypeOK, WorkerTypeOK
<1>3. Position(w) \in Nat
  BY <1>2, AdvanceType DEF Position
<1> QED BY <1>1, <1>2, <1>3, Sentinels DEF Remaining

\* A cache worker that feeds has a message in hand.
LEMMA FeederFacts ==
    ASSUME TypeOK, NEW c \in CacheWorkers, Feeds(c)
    PROVE  /\ cmsg[c].seg \in Segments /\ cmsg[c].file \in Files
           /\ LengthOf(cmsg[c].file) \in Nat /\ cpos[c] \in Nat
<1>1. cmsg[c].seg \in Segments /\ cmsg[c].file \in Files
  BY MessageInHand DEF Feeds, Writes
<1> QED BY <1>1, LengthType DEF TypeOK, CacheWorkerTypeOK

\* A segment has one holder.
LEMMA OneHolder ==
    ASSUME SegmentOwnership, NEW v \in Workers, NEW w \in Workers,
           pseg[v] \in Segments, pseg[v] = pseg[w]
    PROVE  v = w
BY Sentinels DEF SegmentOwnership, HeldOnce

\* A cache worker feeds the worker that holds the segment, and its file.
LEMMA FedWorker ==
    ASSUME TypeOK, SegmentOwnership, ChunkInv, NEW c \in CacheWorkers, Feeds(c),
           NEW w \in Workers, pseg[w] = cmsg[c].seg
    PROVE  Served(w) /\ req[w] = cmsg[c].file /\ InStep(c, w)
<1>1. pseg[w] \in Segments
  BY FeederFacts
<1>2. PICK v \in Workers : Served(v) /\ pseg[v] = pseg[w] /\ req[v] = cmsg[c].file
  BY <1>1 DEF ChunkInv, ChannelInv, Wanted
<1>3. v = w
  BY <1>1, <1>2, OneHolder
<1> QED BY <1>1, <1>2, <1>3 DEF ChunkInv, ChannelInv, Fed

\* Nobody feeds a segment whose holder is not served, and no chunk lies in it.
LEMMA QuietSegment ==
    ASSUME TypeOK, SegmentOwnership, ChunkInv, NEW w \in Workers,
           pseg[w] \in Segments, ~Served(w)
    PROVE  /\ semR[pseg[w]] = 0
           /\ \A c \in CacheWorkers : Feeds(c) => cmsg[c].seg # pseg[w]
<1>1. \A c \in CacheWorkers : Feeds(c) => cmsg[c].seg # pseg[w]
  BY FedWorker
<1>2. semR[pseg[w]] # 1
  <2> SUFFICES ASSUME semR[pseg[w]] = 1 PROVE FALSE
    OBVIOUS
  <2>1. PICK v \in Workers : Served(v) /\ pseg[v] = pseg[w]
    BY DEF ChunkInv, ChannelInv, Wanted
  <2> QED BY <2>1, OneHolder
<1> QED BY <1>1, <1>2 DEF ChunkInv, ChannelInv
-----------------------------------------------------------------------------
(* What is left to show for the segment that a step works on.               *)

\* Only segment s, its holder and the cache workers on it change.
Elsewhere(s) ==
    /\ \A w \in Workers :
          /\ pseg[w] = s => pseg'[w] = s
          /\ pseg[w] # s => /\ ppc'[w] = ppc[w] /\ pseg'[w] = pseg[w]
                            /\ req'[w] = req[w] /\ sent'[w] = sent[w]
    /\ \A c \in CacheWorkers :
          /\ cmsg[c].seg = s => cmsg'[c].seg = s \/ ~Feeds(c)'
          /\ cmsg[c].seg # s => cpc'[c] = cpc[c] /\ cpos'[c] = cpos[c] /\ cmsg'[c] = cmsg[c]
    /\ \A r \in Segments \ {s} : /\ semS'[r] = semS[r] /\ semR'[r] = semR[r]
                                 /\ semW'[r] = semW[r] /\ buffer'[r] = buffer[r]

\* Then only s has to be looked at.
LEMMA OneSegment ==
    ASSUME ChunkInv, NEW s \in Segments, Elsewhere(s), ChannelInv(s)'
    PROVE  ChunkInv'
<1> SUFFICES ASSUME NEW r \in Segments \ {s} PROVE ChannelInv(r)'
  BY DEF ChunkInv
<1>1. \A w \in Workers : pseg'[w] = r <=> pseg[w] = r
  BY DEF Elsewhere
<1>2. \A w \in Workers : pseg[w] = r =>
         /\ ppc'[w] = ppc[w] /\ pseg'[w] = pseg[w] /\ req'[w] = req[w] /\ sent'[w] = sent[w]
         /\ Served(w)' = Served(w)
  BY DEF Elsewhere, Served, Waiting
<1>3. \A c \in CacheWorkers : cmsg[c].seg # s => Feeds(c)' = Feeds(c) /\ cmsg'[c].seg = cmsg[c].seg
  BY DEF Elsewhere, Feeds, Writes
<1>4. ChannelStays(r)
  BY <1>1, <1>2, <1>3 DEF ChannelStays, Elsewhere
<1> QED BY <1>4, Untouched DEF ChunkInv

\* Nobody feeds s after the step, and no chunk lies in it.
LEMMA QuietAfter ==
    ASSUME NEW s \in Segments, semR'[s] = 0, semW'[s] \in {0, 1},
           \A c \in CacheWorkers : Feeds(c)' => cmsg'[c].seg # s,
           \A w \in Workers : pseg'[w] = s =>
              /\ ppc'[w] # "copy"
              /\ ppc'[w] \in {"lock", "mqsend", "waitS"} => semW'[s] = 0
    PROVE  ChannelInv(s)'
<1>1. Wanted(s)' /\ OneFeeder(s)' /\ Fed(s)'
  BY DEF Wanted, OneFeeder, Fed
<1>2. ChunkReady(s)'
  BY DEF ChunkReady, Ready
<1>3. Drained(s)'
  BY DEF Drained
<1> QED BY <1>1, <1>2, <1>3 DEF ChannelInv

\* The holder w of s is served after the step.
LEMMA BusyAfter ==
    ASSUME NEW s \in Segments, NEW w \in Workers, Served(w)',
           \A v \in Workers : pseg'[v] = s <=> v = w,
           semR'[s] \in {0, 1}, semW'[s] \in {0, 1},
           \A c \in CacheWorkers : Feeds(c)' /\ cmsg'[c].seg = s =>
              req'[w] = cmsg'[c].file /\ InStep(c, w)',
           OneFeeder(s)',
           Ready(w)' => /\ semW'[s] = 0 /\ Remaining(w)' > 0 /\ buffer'[s] = NextChunk(w)'
                        /\ ppc'[w] = "copy" => semR'[s] = 0,
           ppc'[w] \in {"lock", "mqsend", "waitS"} => semW'[s] = 0
    PROVE  ChannelInv(s)'
<1>1. Wanted(s)'
  <2>1. \A c \in CacheWorkers : Feeds(c)' /\ cmsg'[c].seg = s =>
          \E v \in Workers : Served(v)' /\ pseg'[v] = s /\ req'[v] = cmsg'[c].file
    OBVIOUS
  <2> QED BY <2>1 DEF Wanted
<1>2. ChunkReady(s)' /\ Fed(s)' /\ Drained(s)'
  BY DEF ChunkReady, Fed, Drained
<1> QED BY <1>1, <1>2 DEF ChannelInv
-----------------------------------------------------------------------------
(* Steps that touch no transfer.                                            *)

\* Every worker either stands still or is served neither before nor after.
LEMMA WorkersApart ==
    ASSUME ChunkInv, UNCHANGED <<semR, semW, buffer, cpc, cmsg, cpos>>,
           \A w \in Workers :
              \/ /\ ppc'[w] = ppc[w] /\ pseg'[w] = pseg[w] /\ req'[w] = req[w]
                 /\ sent'[w] = sent[w] /\ semS'[pseg[w]] = semS[pseg[w]]
              \/ /\ ~Served(w) /\ ~Served(w)'
                 /\ ppc'[w] \in {"lock", "mqsend", "waitS"} =>
                       ppc[w] \in {"lock", "mqsend", "waitS"} /\ pseg'[w] = pseg[w]
    PROVE  ChunkInv'
<1>1. \A w \in Workers : Served(w)' = Served(w)
  BY DEF Served, Waiting
<1>2. \A c \in CacheWorkers : Feeds(c)' = Feeds(c)
  BY DEF Feeds, Writes
<1>3. \A s \in Segments : ChannelStays(s)
  <2> SUFFICES ASSUME NEW s \in Segments PROVE ChannelStays(s)
    OBVIOUS
  <2>1. \A w \in Workers : Served(w) =>
           /\ ppc'[w] = ppc[w] /\ pseg'[w] = pseg[w] /\ req'[w] = req[w] /\ sent'[w] = sent[w]
    OBVIOUS
  <2> QED BY <1>1, <1>2, <2>1 DEF ChannelStays
<1> QED BY <1>3, Untouched DEF ChunkInv

\* Every cache worker either stands still or feeds neither before nor after.
LEMMA FeedersApart ==
    ASSUME ChunkInv, UNCHANGED <<ppc, pseg, req, sent, semS, semR, semW, buffer>>,
           \A c \in CacheWorkers :
              \/ cpc'[c] = cpc[c] /\ cmsg'[c] = cmsg[c] /\ cpos'[c] = cpos[c]
              \/ ~Feeds(c) /\ ~Feeds(c)'
    PROVE  ChunkInv'
<1>1. \A w \in Workers : Served(w)' = Served(w)
  BY DEF Served, Waiting
<1>2. \A c \in CacheWorkers : Feeds(c)' = Feeds(c)
  BY DEF Feeds, Writes
<1>3. \A s \in Segments : ChannelStays(s)
  BY <1>1, <1>2 DEF ChannelStays
<1> QED BY <1>3, Untouched DEF ChunkInv
-----------------------------------------------------------------------------
(* The steps of a proxy worker.                                             *)

\* The steps of a worker before its request is answered and after its transfer.
LEMMA ChunkOutside ==
    ASSUME TypeOK, ChunkInv, NEW w \in Workers,
           \/ StartRequest(w) \/ WakeSpuriously(w) \/ TakeSegment(w) \/ SleepForSegment(w)
           \/ LockForRequest(w) \/ ReleaseSegment(w) \/ Return(w)
    PROVE  ChunkInv'
<1>1. UNCHANGED <<semS, semR, semW, buffer, cpc, cmsg, cpos>>
  BY DEF StartRequest, WakeSpuriously, TakeSegment, SleepForSegment, LockForRequest,
     ReleaseSegment, Return, segmentVars, cacheVars, cworkerVars
<1>2. /\ ppc[w] \in {"idle", "asleep", "take", "lock", "release", "return"}
      /\ \/ ppc'[w] \in {"idle", "asleep", "take", "initS", "signal"}
         \/ ppc[w] = "lock" /\ ppc'[w] = "mqsend" /\ pseg'[w] = pseg[w]
  BY DEF StartRequest, WakeSpuriously, TakeSegment, SleepForSegment, LockForRequest,
     ReleaseSegment, Return, Goto, TypeOK, WorkerTypeOK, workerVars
<1>3. \A v \in Workers \ {w} :
         ppc'[v] = ppc[v] /\ pseg'[v] = pseg[v] /\ req'[v] = req[v] /\ sent'[v] = sent[v]
  BY DEF StartRequest, WakeSpuriously, TakeSegment, SleepForSegment, LockForRequest,
     ReleaseSegment, Return, Goto, TypeOK, WorkerTypeOK, workerVars
<1>4. ~Served(w) /\ ~Served(w)'
  BY <1>2 DEF Served, Waiting
<1> QED BY <1>1, <1>2, <1>3, <1>4, WorkersApart

\* pthread_cond_signal moves a sleeper besides the worker that calls it.
LEMMA ChunkSignalFree ==
    ASSUME TypeOK, ChunkInv, NEW w \in Workers, SignalFree(w)
    PROVE  ChunkInv'
<1>1. UNCHANGED <<semS, semR, semW, buffer, cpc, cmsg, cpos, pseg, req, sent>>
  BY DEF SignalFree, workerVars, segmentVars, cacheVars, cworkerVars
<1>2. \A v \in Workers :
         \/ ppc'[v] = ppc[v]
         \/ ppc[v] \in {"signal", "asleep"} /\ ppc'[v] \in {"return", "take"}
  BY DEF SignalFree, Goto, TypeOK, WorkerTypeOK
<1>3. \A v \in Workers : ppc[v] \in {"signal", "asleep"} /\ ppc'[v] \in {"return", "take"} =>
         ~Served(v) /\ ~Served(v)'
  BY DEF Served, Waiting
<1> QED BY <1>1, <1>2, <1>3, WorkersApart

\* shm_create makes 0 what is 0 already: nobody is served by the segment.
LEMMA ChunkInitSegment ==
    ASSUME TypeOK, SegmentOwnership, AnswerInv, ChunkInv, NEW w \in Workers, InitSegment(w)
    PROVE  ChunkInv'
<1>1. ppc[w] = "initS" /\ pseg[w] \in Segments /\ ~Waiting(w) /\ Holding(w) /\ ~Served(w)
  BY HeldSegment DEF InitSegment, Holding, Waiting, Served
<1>2. semS[pseg[w]] = 0 /\ semR[pseg[w]] = 0
  BY <1>1, NothingForHolder, QuietSegment
<1>3. /\ UNCHANGED <<semS, semR, semW, buffer, cpc, cmsg, cpos, pseg, req, sent>>
      /\ \A v \in Workers : ppc'[v] = IF v = w THEN "initW" ELSE ppc[v]
  BY <1>1, <1>2 DEF InitSegment, Goto, TypeOK, WorkerTypeOK, SegmentTypeOK, workerVars,
     cacheVars, cworkerVars
<1>4. ~Served(w)'
  BY <1>3 DEF Served, Waiting
<1> QED BY <1>1, <1>3, <1>4, WorkersApart

\* The last sem_init: a post that an earlier transfer has left is lost.
LEMMA ChunkInitWriterSem ==
    ASSUME TypeOK, SegmentOwnership, ChunkInv, NEW w \in Workers, InitWriterSem(w)
    PROVE  ChunkInv'
<1> SUFFICES ASSUME NEW s \in Segments, s = pseg[w] PROVE ChunkInv'
  BY HeldSegment DEF InitWriterSem, Holding
<1>1. ppc[w] = "initW" /\ ~Served(w)
  BY DEF InitWriterSem, Served, Waiting
<1>2. /\ UNCHANGED <<semS, semR, buffer, cpc, cmsg, cpos, pseg, req, sent>>
      /\ \A v \in Workers : ppc'[v] = IF v = w THEN "lock" ELSE ppc[v]
      /\ semW'[s] = 0 /\ \A r \in Segments \ {s} : semW'[r] = semW[r]
  BY DEF InitWriterSem, Goto, TypeOK, WorkerTypeOK, SegmentTypeOK, workerVars,
     cacheVars, cworkerVars
<1>3. Elsewhere(s)
  BY <1>2 DEF Elsewhere
<1>4. ChannelInv(s)'
  <2>1. semR'[s] = 0
    BY <1>1, <1>2, QuietSegment
  <2>2. \A c \in CacheWorkers : Feeds(c)' => cmsg'[c].seg # s
    BY <1>1, <1>2, QuietSegment DEF Feeds, Writes
  <2>3. \A v \in Workers : pseg'[v] = s => ppc'[v] # "copy"
    BY <1>2, OneHolder
  <2> QED BY <1>2, <2>1, <2>2, <2>3, QuietAfter
<1> QED BY <1>3, <1>4, OneSegment

\* mqueue_write: nothing is announced to the worker yet.
LEMMA ChunkSendRequest ==
    ASSUME TypeOK, SegmentOwnership, AnswerInv, ChunkInv, NEW w \in Workers, SendRequest(w)
    PROVE  ChunkInv'
<1>1. ppc[w] = "mqsend" /\ ~Waiting(w) /\ Holding(w) /\ ~Served(w)
  BY DEF SendRequest, Holding, Waiting, Served
<1>2. semS[pseg[w]] = 0
  BY <1>1, NothingForHolder
<1>3. /\ UNCHANGED <<semS, semR, semW, buffer, cpc, cmsg, cpos, pseg, req, sent>>
      /\ \A v \in Workers : ppc'[v] = IF v = w THEN "waitS" ELSE ppc[v]
  BY DEF SendRequest, Goto, TypeOK, WorkerTypeOK, workerVars, segmentVars, cacheVars,
     cworkerVars
<1>4. ~Served(w)'
  BY <1>2, <1>3 DEF Served, Waiting
<1> QED BY <1>1, <1>3, <1>4, WorkersApart

\* With nothing left of the file nobody feeds, and no chunk lies in the segment.
LEMMA TransferOver ==
    ASSUME TypeOK, SegmentOwnership, ChunkInv, NEW w \in Workers, Served(w), Remaining(w) <= 0
    PROVE  /\ semR[pseg[w]] = 0 /\ ppc[w] # "copy"
           /\ \A c \in CacheWorkers : Feeds(c) => cmsg[c].seg # pseg[w]
<1>1. pseg[w] \in Segments /\ Remaining(w) \in Int /\ Position(w) \in Nat
      /\ LengthOf(req[w]) \in Nat
  BY ServedFacts
<1>2. ~Ready(w)
  BY <1>1 DEF ChunkInv, ChannelInv, ChunkReady
<1>3. semR[pseg[w]] = 0 /\ ppc[w] # "copy"
  BY <1>1, <1>2 DEF ChunkInv, ChannelInv, Ready
<1>4. ASSUME NEW c \in CacheWorkers, Feeds(c), cmsg[c].seg = pseg[w] PROVE FALSE
  <2>1. req[w] = cmsg[c].file /\ InStep(c, w)
    BY <1>4, FedWorker
  <2>2. ~Writes(c) /\ cpos[c] = Position(w)
    BY <1>1, <1>2, <2>1 DEF InStep
  <2>3. Position(w) < LengthOf(req[w])
    BY <1>4, <2>1, <2>2 DEF Feeds
  <2> QED BY <1>1, <2>3 DEF Remaining
<1> QED BY <1>3, <1>4

\* The worker has its length and goes on to the first chunk, or has none to expect.
LEMMA ChunkReadLength ==
    ASSUME TypeOK, SegmentOwnership, AnswerInv, HeaderInv, ChunkInv, NEW w \in Workers,
           ReadLength(w)
    PROVE  ChunkInv'
<1> SUFFICES ASSUME NEW s \in Segments, s = pseg[w] PROVE ChunkInv'
  BY HeldSegment DEF ReadLength, Holding
<1>1. ppc[w] = "waitS" /\ semS[s] = 1 /\ Served(w)
  <2>1. ppc[w] = "waitS" /\ semS[s] > 0
    BY DEF ReadLength
  <2> QED BY <2>1 DEF AnswerInv, PostsExpected, Served, Waiting
<1>2. LengthOf(req[w]) \in Nat /\ sent[w] \in Nat
  BY <1>1, ServedFacts
<1>3. /\ UNCHANGED <<semR, semW, buffer, cpc, cmsg, cpos, pseg, req, sent>>
      /\ \A v \in Workers \ {w} : ppc'[v] = ppc[v]
      /\ \A r \in Segments \ {s} : semS'[r] = semS[r]
      /\ ppc'[w] = IF flen'[w] = 0 THEN "release" ELSE "waitR"
  BY DEF ReadLength, Wait, Goto, TypeOK, WorkerTypeOK, SegmentTypeOK, cacheVars, cworkerVars
<1>4. flen'[w] = LengthOf(req[w])
  <2>1. HeaderInv'
    BY HeaderReadLength
  <2>2. Answered(w)' /\ req'[w] = req[w]
    BY <1>3 DEF Answered
  <2>3. flen'[w] = LengthOf(req[w])'
    BY <2>1, <2>2 DEF HeaderInv
  <2> QED BY <2>2, <2>3 DEF LengthOf
<1>5. Elsewhere(s)
  BY <1>3 DEF Elsewhere
<1>6. \A v \in Workers : pseg'[v] = s <=> v = w
  BY <1>3, OneHolder
<1>7. Position(w) = sent[w] /\ semR'[s] \in {0, 1} /\ semW'[s] \in {0, 1}
  BY <1>1, <1>3 DEF Position, ChunkInv, ChannelInv
<1>8. \A c \in CacheWorkers : Feeds(c)' = Feeds(c) /\ Writes(c)' = Writes(c)
  BY <1>3 DEF Feeds, Writes
<1>9. CASE LengthOf(req[w]) = 0
  <2>1. semR[s] = 0 /\ \A c \in CacheWorkers : Feeds(c) => cmsg[c].seg # s
    BY <1>1, <1>2, <1>7, <1>9, TransferOver DEF Remaining
  <2>2. ChannelInv(s)'
    BY <1>3, <1>4, <1>6, <1>7, <1>8, <1>9, <2>1, QuietAfter
  <2> QED BY <1>5, <2>2, OneSegment
<1>10. CASE LengthOf(req[w]) # 0
  <2>1. ppc'[w] = "waitR" /\ Served(w)'
    BY <1>3, <1>4, <1>10 DEF Served
  <2>2. /\ Position(w)' = Position(w) /\ Remaining(w)' = Remaining(w)
        /\ NextChunk(w)' = NextChunk(w) /\ Ready(w)' = Ready(w)
    BY <1>1, <1>3, <2>1 DEF Position, Remaining, NextChunk, Ready
  <2>3. ASSUME NEW c \in CacheWorkers, Feeds(c)', cmsg'[c].seg = s
        PROVE  req'[w] = cmsg'[c].file /\ InStep(c, w)'
    <3>1. req[w] = cmsg[c].file /\ InStep(c, w)
      BY <1>3, <1>8, <2>3, FedWorker
    <3> QED BY <1>3, <1>8, <2>2, <3>1 DEF InStep
  <2>4. OneFeeder(s)'
    BY <1>3, <1>8 DEF ChunkInv, ChannelInv, OneFeeder
  <2>5. Ready(w)' => semW'[s] = 0 /\ Remaining(w)' > 0 /\ buffer'[s] = NextChunk(w)'
    BY <1>1, <1>3, <2>2 DEF ChunkInv, ChannelInv, ChunkReady
  <2>6. ChannelInv(s)'
    BY <1>6, <1>7, <2>1, <2>3, <2>4, <2>5, BusyAfter
  <2> QED BY <1>5, <2>6, OneSegment
<1> QED BY <1>9, <1>10

\* sem_wait of semR: the chunk is the worker's now.
LEMMA ChunkAwaitChunk ==
    ASSUME TypeOK, SegmentOwnership, ChunkInv, NEW w \in Workers, AwaitChunk(w)
    PROVE  ChunkInv'
<1> SUFFICES ASSUME NEW s \in Segments, s = pseg[w] PROVE ChunkInv'
  BY HeldSegment DEF AwaitChunk, Holding
<1>1. ppc[w] = "waitR" /\ Served(w) /\ semR[s] > 0
  BY DEF AwaitChunk, Served
<1>2. semR[s] = 1 /\ Ready(w) /\ semW[s] \in {0, 1}
  BY <1>1 DEF ChunkInv, ChannelInv, Ready
<1>3. /\ UNCHANGED <<semS, semW, buffer, cpc, cmsg, cpos, pseg, req, sent>>
      /\ \A v \in Workers : ppc'[v] = IF v = w THEN "copy" ELSE ppc[v]
      /\ semR'[s] = 0
      /\ \A r \in Segments \ {s} : semR'[r] = semR[r]
  BY <1>2 DEF AwaitChunk, Wait, Goto, TypeOK, WorkerTypeOK, SegmentTypeOK, workerVars,
     cacheVars, cworkerVars
<1>4. Elsewhere(s)
  BY <1>3 DEF Elsewhere
<1>5. \A v \in Workers : pseg'[v] = s <=> v = w
  BY <1>3, OneHolder
<1>6. \A c \in CacheWorkers : Feeds(c)' = Feeds(c) /\ Writes(c)' = Writes(c)
  BY <1>3 DEF Feeds, Writes
<1>7. /\ Position(w)' = Position(w) /\ Remaining(w)' = Remaining(w)
      /\ NextChunk(w)' = NextChunk(w) /\ Ready(w)' /\ Served(w)'
  BY <1>1, <1>3 DEF Position, Remaining, NextChunk, Ready, Served
<1>8. ASSUME NEW c \in CacheWorkers, Feeds(c)', cmsg'[c].seg = s
      PROVE  req'[w] = cmsg'[c].file /\ InStep(c, w)'
  <2>1. req[w] = cmsg[c].file /\ InStep(c, w)
    BY <1>3, <1>6, <1>8, FedWorker
  <2> QED BY <1>2, <1>3, <1>6, <1>7, <2>1 DEF InStep
<1>9. OneFeeder(s)'
  BY <1>3, <1>6 DEF ChunkInv, ChannelInv, OneFeeder
<1>10. semW'[s] = 0 /\ Remaining(w)' > 0 /\ buffer'[s] = NextChunk(w)'
  BY <1>1, <1>2, <1>3, <1>7 DEF ChunkInv, ChannelInv, ChunkReady
<1>11. ChannelInv(s)'
  BY <1>3, <1>5, <1>7, <1>8, <1>9, <1>10, BusyAfter
<1> QED BY <1>4, <1>11, OneSegment

\* The chunk is copied out: the feeder may write the next one.
LEMMA ChunkCopyChunk ==
    ASSUME TypeOK, SegmentOwnership, ChunkInv, NEW w \in Workers, CopyChunk(w)
    PROVE  ChunkInv'
<1> SUFFICES ASSUME NEW s \in Segments, s = pseg[w] PROVE ChunkInv'
  BY HeldSegment DEF CopyChunk, Holding
<1>1. ppc[w] = "copy" /\ Served(w) /\ Ready(w)
  BY DEF CopyChunk, Served, Ready
<1>2. semR[s] = 0 /\ semW[s] = 0
  BY <1>1 DEF ChunkInv, ChannelInv, ChunkReady
<1>3. /\ UNCHANGED <<semS, semR, buffer, cpc, cmsg, cpos, pseg, req, sent>>
      /\ \A v \in Workers : ppc'[v] = IF v = w THEN "send" ELSE ppc[v]
      /\ semW'[s] = 1
      /\ \A r \in Segments \ {s} : semW'[r] = semW[r]
  BY <1>2 DEF CopyChunk, Post, Goto, TypeOK, WorkerTypeOK, SegmentTypeOK, clientVars,
     cacheVars, cworkerVars
<1>4. Elsewhere(s)
  BY <1>3 DEF Elsewhere
<1>5. \A v \in Workers : pseg'[v] = s <=> v = w
  BY <1>3, OneHolder
<1>6. \A c \in CacheWorkers : Feeds(c)' = Feeds(c) /\ Writes(c)' = Writes(c)
  BY <1>3 DEF Feeds, Writes
<1>7. Position(w)' = Position(w) + ChunkLen(Remaining(w)) /\ ~Ready(w)' /\ Served(w)'
  BY <1>1, <1>2, <1>3 DEF Position, Remaining, Ready, Served, LengthOf, ChunkLen
<1>8. ASSUME NEW c \in CacheWorkers, Feeds(c)', cmsg'[c].seg = s
      PROVE  req'[w] = cmsg'[c].file /\ InStep(c, w)'
  <2>1. req[w] = cmsg[c].file /\ InStep(c, w)
    BY <1>3, <1>6, <1>8, FedWorker
  <2> QED BY <1>1, <1>3, <1>6, <1>7, <2>1 DEF InStep
<1>9. OneFeeder(s)'
  BY <1>3, <1>6 DEF ChunkInv, ChannelInv, OneFeeder
<1>10. ChannelInv(s)'
  BY <1>2, <1>3, <1>5, <1>7, <1>8, <1>9, BusyAfter
<1> QED BY <1>4, <1>10, OneSegment

\* The count of bytes does not wrap: it is at most the length of the file.
LEMMA BytesCounted ==
    ASSUME TypeOK, HeaderInv, ReplyInv, NEW w \in Workers, SendChunk(w)
    PROVE  /\ Served(w) /\ Position(w) <= LengthOf(req[w])
           /\ sent'[w] = Position(w)
           /\ ppc'[w] = IF Remaining(w) > 0 THEN "waitR" ELSE "release"
<1> DEFINE L == LengthOf(req[w])
<1>1. ppc[w] = "send" /\ Served(w)
  BY DEF SendChunk, Served
<1>2. L \in Nat /\ sent[w] \in Nat /\ sent[w] < L /\ Position(w) \in Nat
  BY <1>1, ServedFacts DEF ReplyInv, ReplyOK, InTransfer
<1>3. flen[w] = L
  BY <1>1 DEF HeaderInv, Answered
<1>4. req[w] \in Files /\ L < SizeModulus
  BY <1>1, ServedFacts, SizesAssumption, FilesAssumption DEF LengthOf
<1>5. Position(w) <= L
  BY <1>1, <1>2, SizesAssumption DEF Position, ChunkLen
<1>6. Position(w) % SizeModulus = Position(w)
  <2>1. \A k, n \in Nat : k < n => k % n = k
    OBVIOUS
  <2> QED BY <1>2, <1>4, <1>5, <2>1, SizesAssumption
<1>7. Position(w) = sent[w] + ChunkLen(flen[w] - sent[w])
  BY <1>1, <1>3 DEF Position
<1>8. sent'[w] = Position(w)
  BY <1>6, <1>7 DEF SendChunk, CountBytes, TypeOK, WorkerTypeOK
<1>9. ppc'[w] = IF Position(w) < L THEN "waitR" ELSE "release"
  BY <1>3, <1>8 DEF SendChunk, CountBytes, Goto, TypeOK, WorkerTypeOK
<1>10. Position(w) < L <=> Remaining(w) > 0
  BY <1>2 DEF Remaining
<1> QED BY <1>1, <1>5, <1>8, <1>9, <1>10

\* The chunk goes to the client; the transfer goes on or is over.
LEMMA ChunkSendChunk ==
    ASSUME TypeOK, SegmentOwnership, HeaderInv, ReplyInv, ChunkInv, NEW w \in Workers,
           SendChunk(w)
    PROVE  ChunkInv'
<1> SUFFICES ASSUME NEW s \in Segments, s = pseg[w] PROVE ChunkInv'
  BY HeldSegment DEF SendChunk, Holding
<1>1. /\ ppc[w] = "send" /\ Served(w) /\ sent'[w] = Position(w)
      /\ ppc'[w] = IF Remaining(w) > 0 THEN "waitR" ELSE "release"
  BY BytesCounted DEF SendChunk
<1>2. Position(w) \in Nat /\ LengthOf(req[w]) \in Nat
  BY <1>1, ServedFacts
<1>3. /\ UNCHANGED <<semS, semR, semW, buffer, cpc, cmsg, cpos, pseg, req>>
      /\ \A v \in Workers \ {w} : ppc'[v] = ppc[v] /\ sent'[v] = sent[v]
  BY DEF SendChunk, CountBytes, Goto, TypeOK, WorkerTypeOK, segmentVars, cacheVars, cworkerVars
<1>4. Elsewhere(s)
  BY <1>3 DEF Elsewhere
<1>5. \A v \in Workers : pseg'[v] = s <=> v = w
  BY <1>3, OneHolder
<1>6. \A c \in CacheWorkers : Feeds(c)' = Feeds(c) /\ Writes(c)' = Writes(c)
  BY <1>3 DEF Feeds, Writes
<1>7. semR'[s] \in {0, 1} /\ semW'[s] \in {0, 1}
  BY <1>3 DEF ChunkInv, ChannelInv
<1>8. CASE Remaining(w) <= 0
  <2>1. semR[s] = 0 /\ \A c \in CacheWorkers : Feeds(c) => cmsg[c].seg # s
    BY <1>1, <1>8, TransferOver
  <2>2. ppc'[w] = "release"
    BY <1>1, <1>2, <1>8 DEF Remaining
  <2>3. ChannelInv(s)'
    BY <1>3, <1>5, <1>6, <1>7, <2>1, <2>2, QuietAfter
  <2> QED BY <1>4, <2>3, OneSegment
<1>9. CASE Remaining(w) > 0
  <2>1. ppc'[w] = "waitR" /\ Served(w)'
    BY <1>1, <1>9 DEF Served
  <2>2. /\ Position(w)' = Position(w) /\ Remaining(w)' = Remaining(w)
        /\ NextChunk(w)' = NextChunk(w) /\ Ready(w)' = Ready(w)
    <3>1. Position(w)' = sent'[w]
      BY <2>1 DEF Position
    <3>2. Position(w)' = Position(w)
      BY <1>1, <3>1
    <3>3. LengthOf(req[w])' = LengthOf(req[w])
      BY <1>3 DEF LengthOf
    <3> QED BY <1>1, <1>3, <2>1, <3>2, <3>3 DEF Remaining, NextChunk, Ready
  <2>3. ASSUME NEW c \in CacheWorkers, Feeds(c)', cmsg'[c].seg = s
        PROVE  req'[w] = cmsg'[c].file /\ InStep(c, w)'
    <3>1. req[w] = cmsg[c].file /\ InStep(c, w)
      BY <1>3, <1>6, <2>3, FedWorker
    <3> QED BY <1>3, <1>6, <2>2, <3>1 DEF InStep
  <2>4. OneFeeder(s)'
    BY <1>3, <1>6 DEF ChunkInv, ChannelInv, OneFeeder
  <2>5. Ready(w)' => semW'[s] = 0 /\ Remaining(w)' > 0 /\ buffer'[s] = NextChunk(w)'
    BY <1>1, <1>3, <2>2 DEF ChunkInv, ChannelInv, ChunkReady
  <2>6. ChannelInv(s)'
    BY <1>5, <1>7, <2>1, <2>3, <2>4, <2>5, BusyAfter
  <2> QED BY <1>4, <2>6, OneSegment
<1>10. Remaining(w) <= 0 \/ Remaining(w) > 0
  BY <1>2 DEF Remaining
<1> QED BY <1>8, <1>9, <1>10
-----------------------------------------------------------------------------
(* The steps of the cache.                                                  *)

\* Until it announces a length a cache worker feeds nobody, and the boss never does.
LEMMA ChunkQueues ==
    ASSUME TypeOK, ChunkInv,
           BossReceive \/ BossEnqueue \/ \E c \in CacheWorkers : TakePost(c) \/ PopWork(c)
    PROVE  ChunkInv'
<1>1. CASE BossReceive \/ BossEnqueue
  BY <1>1, FeedersApart DEF BossReceive, BossEnqueue, workerVars, segmentVars, cworkerVars
<1>2. ASSUME NEW c \in CacheWorkers, TakePost(c) \/ PopWork(c) PROVE ChunkInv'
  <2>1. UNCHANGED <<ppc, pseg, req, sent, semS, semR, semW, buffer>>
    BY <1>2 DEF TakePost, PopWork, workerVars, segmentVars
  <2>2. /\ cpc[c] \in {"idle", "pop"}
        /\ cpc'[c] \in {"pop", "announce"}
        /\ \A d \in CacheWorkers \ {c} :
              cpc'[d] = cpc[d] /\ cmsg'[d] = cmsg[d] /\ cpos'[d] = cpos[d]
    BY <1>2 DEF TakePost, PopWork, CGoto, TypeOK, CacheWorkerTypeOK
  <2>3. ~Feeds(c) /\ ~Feeds(c)'
    BY <2>2 DEF Feeds, Writes
  <2> QED BY <2>1, <2>2, <2>3, FeedersApart
<1> QED BY <1>1, <1>2

\* The length is announced: its worker is served from now on, by this cache worker.
LEMMA ChunkAnnounce ==
    ASSUME TypeOK, SegmentOwnership, AnswerInv, ReplyInv, ChunkInv, NEW c \in CacheWorkers,
           Announce(c)
    PROVE  ChunkInv'
<1> DEFINE L == LengthOf(cmsg[c].file)
<1> SUFFICES ASSUME NEW s \in Segments, s = cmsg[c].seg PROVE ChunkInv'
  BY MessageInHand DEF Announce
<1>1. cpc[c] = "announce" /\ Announcing(c) /\ ~Feeds(c) /\ L \in Nat
  BY MessageInHand, LengthType DEF Announce, Announcing, Feeds, Writes
<1>2. PICK w \in Workers : Waiting(w) /\ pseg[w] = s /\ req[w] = cmsg[c].file /\ semS[s] = 0
  BY <1>1 DEF AnswerInv, AllExpected, Expected
<1>3. ppc[w] = "waitS" /\ ~Served(w) /\ sent[w] = 0 /\ semW[s] = 0
  <2>1. ppc[w] = "waitS" /\ ~Served(w)
    BY <1>2 DEF Waiting, Served
  <2>2. sent[w] = 0
    BY <2>1 DEF ReplyInv, ReplyOK, Answered
  <2>3. semW[s] = 0
    BY <1>2, <2>1 DEF ChunkInv, ChannelInv, Drained
  <2> QED BY <2>1, <2>2, <2>3
<1>4. semR[s] = 0 /\ \A d \in CacheWorkers : Feeds(d) => cmsg[d].seg # s
  BY <1>2, <1>3, QuietSegment
<1>5. /\ UNCHANGED <<ppc, pseg, req, sent, semR, semW, buffer>>
      /\ semS'[s] = 1 /\ \A r \in Segments \ {s} : semS'[r] = semS[r]
      /\ \A d \in CacheWorkers \ {c} :
            cpc'[d] = cpc[d] /\ cmsg'[d] = cmsg[d] /\ cpos'[d] = cpos[d]
      /\ \/ 0 < L /\ cpc'[c] = "write" /\ cpos'[c] = 0 /\ cmsg'[c] = cmsg[c]
         \/ 0 >= L /\ cpc'[c] = "idle"
  BY <1>2 DEF Announce, NextChunkOrIdle, Post, CGoto, TypeOK, SegmentTypeOK, CacheWorkerTypeOK,
     workerVars
<1>6. /\ \A d \in CacheWorkers \ {c} : Feeds(d)' = Feeds(d)
      /\ cpc'[c] = "idle" => ~Feeds(c)'
  BY <1>5 DEF Feeds, Writes
<1>7. Elsewhere(s)
  BY <1>5, <1>6 DEF Elsewhere
<1>8. \A v \in Workers : pseg'[v] = s <=> v = w
  BY <1>2, <1>5, OneHolder
<1>9. CASE cpc'[c] = "idle"
  <2>1. \A d \in CacheWorkers : Feeds(d)' => cmsg'[d].seg # s
    BY <1>4, <1>5, <1>6, <1>9
  <2>2. ChannelInv(s)'
    BY <1>3, <1>4, <1>5, <1>8, <2>1, QuietAfter
  <2> QED BY <1>7, <2>2, OneSegment
<1>10. CASE cpc'[c] = "write"
  <2>1. 0 < L /\ cpos'[c] = 0 /\ cmsg'[c] = cmsg[c] /\ Writes(c)'
    BY <1>5, <1>10 DEF Writes
  <2>2. Served(w)' /\ ~Ready(w)' /\ Position(w)' = 0 /\ Remaining(w)' > 0
    BY <1>1, <1>2, <1>3, <1>4, <1>5, <2>1 DEF Served, Waiting, Ready, Position, Remaining,
       LengthOf
  <2>3. \A d \in CacheWorkers : Feeds(d)' /\ cmsg'[d].seg = s => d = c
    BY <1>4, <1>5, <1>6
  <2>4. req'[w] = cmsg'[c].file /\ InStep(c, w)'
    BY <1>2, <1>3, <1>4, <1>5, <1>10, <2>1, <2>2 DEF InStep
  <2>5. ChannelInv(s)'
    BY <1>3, <1>4, <1>5, <1>8, <2>2, <2>3, <2>4, BusyAfter DEF OneFeeder
  <2> QED BY <1>7, <2>5, OneSegment
<1> QED BY <1>5, <1>9, <1>10

\* The worker that c feeds holds c's segment.
LEMMA FeederHasWorker ==
    ASSUME TypeOK, SegmentOwnership, ChunkInv, NEW c \in CacheWorkers, Feeds(c)
    PROVE  \E w \in Workers : /\ pseg[w] = cmsg[c].seg /\ Served(w) /\ InStep(c, w)
                              /\ req[w] = cmsg[c].file
<1>1. cmsg[c].seg \in Segments
  BY FeederFacts
<1>2. PICK w \in Workers : Served(w) /\ pseg[w] = cmsg[c].seg
  BY <1>1 DEF ChunkInv, ChannelInv, Wanted
<1> QED BY <1>2, FedWorker

\* The worker's next chunk is copied into a segment in which nothing is waited for.
LEMMA ChunkWriteChunk ==
    ASSUME TypeOK, SegmentOwnership, ChunkInv, NEW c \in CacheWorkers, WriteChunk(c)
    PROVE  ChunkInv'
<1>1. cpc[c] = "write" /\ Writes(c) /\ Feeds(c)
  BY DEF WriteChunk, Writes, Feeds
<1> SUFFICES ASSUME NEW s \in Segments, s = cmsg[c].seg PROVE ChunkInv'
  BY <1>1, FeederFacts
<1>2. PICK w \in Workers : pseg[w] = s /\ Served(w) /\ InStep(c, w) /\ req[w] = cmsg[c].file
  BY <1>1, FeederHasWorker
<1>3. /\ ~Ready(w) /\ semR[s] = 0 /\ semW[s] = 0 /\ cpos[c] = Position(w) /\ Remaining(w) > 0
  BY <1>1, <1>2 DEF InStep
<1>4. /\ UNCHANGED <<ppc, pseg, req, sent, semS, semR, semW, cmsg, cpos>>
      /\ buffer'[s] = [file |-> cmsg[c].file, at |-> cpos[c]]
      /\ \A r \in Segments \ {s} : buffer'[r] = buffer[r]
      /\ \A d \in CacheWorkers : cpc'[d] = IF d = c THEN "post" ELSE cpc[d]
  BY DEF WriteChunk, CGoto, TypeOK, SegmentTypeOK, CacheWorkerTypeOK, workerVars
<1>5. \A d \in CacheWorkers : Feeds(d)' = Feeds(d) /\ Writes(d)' = Writes(d)
  BY <1>1, <1>4 DEF Feeds, Writes
<1>6. Elsewhere(s)
  BY <1>4 DEF Elsewhere
<1>7. \A v \in Workers : pseg'[v] = s <=> v = w
  BY <1>2, <1>4, OneHolder
<1>8. /\ Position(w)' = Position(w) /\ Remaining(w)' = Remaining(w)
      /\ NextChunk(w)' = NextChunk(w) /\ Ready(w)' = Ready(w) /\ Served(w)' = Served(w)
  BY <1>4 DEF Position, Remaining, NextChunk, Ready, Served, Waiting
<1>9. \A d \in CacheWorkers : Feeds(d)' /\ cmsg'[d].seg = s => d = c
  BY <1>1, <1>4, <1>5 DEF ChunkInv, ChannelInv, OneFeeder
<1>10. req'[w] = cmsg'[c].file /\ InStep(c, w)'
  BY <1>1, <1>2, <1>3, <1>4, <1>5, <1>8 DEF InStep, NextChunk
<1>11. ChannelInv(s)'
  BY <1>2, <1>3, <1>4, <1>7, <1>8, <1>9, <1>10, BusyAfter DEF OneFeeder
<1> QED BY <1>6, <1>11, OneSegment

\* The chunk is handed over.
LEMMA ChunkPostChunk ==
    ASSUME TypeOK, SegmentOwnership, ChunkInv, NEW c \in CacheWorkers, PostChunk(c)
    PROVE  ChunkInv'
<1>1. cpc[c] = "post" /\ Writes(c) /\ Feeds(c)
  BY DEF PostChunk, Writes, Feeds
<1> SUFFICES ASSUME NEW s \in Segments, s = cmsg[c].seg PROVE ChunkInv'
  BY <1>1, FeederFacts
<1>2. PICK w \in Workers : pseg[w] = s /\ Served(w) /\ InStep(c, w) /\ req[w] = cmsg[c].file
  BY <1>1, FeederHasWorker
<1>3. /\ ~Ready(w) /\ semR[s] = 0 /\ semW[s] = 0 /\ cpos[c] = Position(w) /\ Remaining(w) > 0
      /\ buffer[s] = NextChunk(w)
  BY <1>1, <1>2 DEF InStep
<1>4. /\ UNCHANGED <<ppc, pseg, req, sent, semS, semW, buffer, cmsg>>
      /\ semR'[s] = 1
      /\ \A r \in Segments \ {s} : semR'[r] = semR[r]
      /\ \A d \in CacheWorkers \ {c} : cpc'[d] = cpc[d] /\ cpos'[d] = cpos[d]
      /\ cpc'[c] = "waitW"
      /\ cpos'[c] = cpos[c] + ChunkLen(LengthOf(cmsg[c].file) - cpos[c])
  BY <1>3 DEF PostChunk, Post, CGoto, TypeOK, SegmentTypeOK, CacheWorkerTypeOK, workerVars
<1>5. \A d \in CacheWorkers \ {c} : Feeds(d)' = Feeds(d)
  BY <1>4 DEF Feeds, Writes
<1>6. Elsewhere(s)
  BY <1>4 DEF Elsewhere
<1>7. \A v \in Workers : pseg'[v] = s <=> v = w
  BY <1>2, <1>4, OneHolder
<1>8. /\ Position(w)' = Position(w) /\ Remaining(w)' = Remaining(w)
      /\ NextChunk(w)' = NextChunk(w) /\ Ready(w)' /\ Served(w)'
  BY <1>2, <1>4 DEF Position, Remaining, NextChunk, Ready, Served, Waiting
<1>9. \A d \in CacheWorkers : Feeds(d)' /\ cmsg'[d].seg = s => d = c
  BY <1>1, <1>4, <1>5 DEF ChunkInv, ChannelInv, OneFeeder
<1>10. cpos'[c] = Position(w) + ChunkLen(Remaining(w))
  BY <1>2, <1>3, <1>4 DEF Remaining
<1>11. req'[w] = cmsg'[c].file /\ InStep(c, w)'
  BY <1>2, <1>4, <1>8, <1>10 DEF InStep, Writes
<1>12. ppc'[w] # "copy"
  BY <1>3, <1>4 DEF Ready
<1>13. ChannelInv(s)'
  BY <1>3, <1>4, <1>7, <1>8, <1>9, <1>11, <1>12, BusyAfter DEF OneFeeder
<1> QED BY <1>6, <1>13, OneSegment

\* The chunk was taken: on to the next one.  A cache worker that still waits on
\* a segment after its last chunk may take a post that is not meant for it.
LEMMA ChunkAwaitTaken ==
    ASSUME TypeOK, SegmentOwnership, ChunkInv, NEW c \in CacheWorkers, AwaitTaken(c)
    PROVE  ChunkInv'
<1> SUFFICES ASSUME NEW s \in Segments, s = cmsg[c].seg PROVE ChunkInv'
  BY MessageInHand DEF AwaitTaken
<1>1. cpc[c] = "waitW" /\ ~Writes(c) /\ semW[s] > 0
  BY DEF AwaitTaken, Writes
<1>2. semW[s] = 1
  BY <1>1 DEF ChunkInv, ChannelInv
<1>3. /\ UNCHANGED <<ppc, pseg, req, sent, semS, semR, buffer>>
      /\ semW'[s] = 0
      /\ \A r \in Segments \ {s} : semW'[r] = semW[r]
      /\ \A d \in CacheWorkers \ {c} :
            cpc'[d] = cpc[d] /\ cmsg'[d] = cmsg[d] /\ cpos'[d] = cpos[d]
      /\ \/ /\ cpos[c] < LengthOf(cmsg[c].file)
            /\ cpc'[c] = "write" /\ cpos'[c] = cpos[c] /\ cmsg'[c] = cmsg[c]
         \/ cpos[c] >= LengthOf(cmsg[c].file) /\ cpc'[c] = "idle"
  BY <1>2 DEF AwaitTaken, NextChunkOrIdle, Wait, CGoto, TypeOK, SegmentTypeOK,
     CacheWorkerTypeOK, workerVars
<1>4. /\ \A d \in CacheWorkers \ {c} : Feeds(d)' = Feeds(d) /\ Writes(d)' = Writes(d)
      /\ cpc'[c] = "idle" => ~Feeds(c)'
  BY <1>3 DEF Feeds, Writes
<1>5. Elsewhere(s)
  BY <1>3, <1>4 DEF Elsewhere
<1>6. \A w \in Workers :
         /\ Position(w)' = Position(w) /\ Remaining(w)' = Remaining(w)
         /\ NextChunk(w)' = NextChunk(w) /\ Ready(w)' = Ready(w) /\ Served(w)' = Served(w)
  BY <1>3 DEF Position, Remaining, NextChunk, Ready, Served, Waiting
<1>7. CASE cpc'[c] = "write"
  <2>1. Feeds(c) /\ cpos'[c] = cpos[c] /\ cmsg'[c] = cmsg[c] /\ Writes(c)'
    BY <1>1, <1>3, <1>7 DEF Feeds, Writes
  <2>2. PICK w \in Workers : pseg[w] = s /\ Served(w) /\ InStep(c, w) /\ req[w] = cmsg[c].file
    BY <2>1, FeederHasWorker
  <2>3. ~Ready(w) /\ semR[s] = 0
    BY <1>2, <2>2 DEF ChunkInv, ChannelInv, ChunkReady, Ready
  <2>4. cpos[c] = Position(w) /\ Remaining(w) > 0
    <3>1. cpos[c] = Position(w)
      BY <1>1, <2>2, <2>3 DEF InStep
    <3>2. Position(w) < LengthOf(req[w])
      BY <1>3, <1>7, <2>2, <3>1
    <3>3. Position(w) \in Nat /\ LengthOf(req[w]) \in Nat
      BY <2>2, ServedFacts
    <3> QED BY <3>1, <3>2, <3>3 DEF Remaining
  <2>5. \A v \in Workers : pseg'[v] = s <=> v = w
    BY <1>3, <2>2, OneHolder
  <2>6. \A d \in CacheWorkers : Feeds(d)' /\ cmsg'[d].seg = s => d = c
    BY <1>3, <1>4, <2>1 DEF ChunkInv, ChannelInv, OneFeeder
  <2>7. req'[w] = cmsg'[c].file /\ InStep(c, w)'
    BY <1>3, <1>6, <1>7, <2>1, <2>2, <2>3, <2>4 DEF InStep
  <2>8. ChannelInv(s)'
    BY <1>3, <1>6, <2>2, <2>3, <2>5, <2>6, <2>7, BusyAfter DEF OneFeeder
  <2> QED BY <1>5, <2>8, OneSegment
<1>8. CASE cpc'[c] = "idle"
  <2>1. \A d \in CacheWorkers : Feeds(d)' =>
           d # c /\ Feeds(d) /\ cmsg'[d] = cmsg[d] /\ cpos'[d] = cpos[d] /\ cpc'[d] = cpc[d]
    BY <1>3, <1>4, <1>8
  <2>2. Wanted(s)'
    <3>1. \A d \in CacheWorkers : Feeds(d)' /\ cmsg'[d].seg = s =>
            \E w \in Workers : Served(w)' /\ pseg'[w] = s /\ req'[w] = cmsg'[d].file
      BY <1>3, <1>6, <2>1 DEF ChunkInv, ChannelInv, Wanted
    <3>2. semR'[s] = 1 => \E w \in Workers : Served(w)' /\ pseg'[w] = s
      BY <1>3, <1>6 DEF ChunkInv, ChannelInv, Wanted
    <3> QED BY <3>1, <3>2 DEF Wanted
  <2>3. OneFeeder(s)'
    BY <2>1 DEF ChunkInv, ChannelInv, OneFeeder
  <2>4. ChunkReady(s)' /\ Drained(s)'
    BY <1>3, <1>6 DEF ChunkInv, ChannelInv, ChunkReady, Drained
  <2>5. Fed(s)'
    <3> SUFFICES ASSUME NEW w \in Workers, NEW d \in CacheWorkers,
                        Served(w)', pseg'[w] = s, Feeds(d)', cmsg'[d].seg = s
                 PROVE  InStep(d, w)'
      BY DEF Fed
    <3>1. InStep(d, w) /\ pseg[w] = s
      BY <1>3, <1>6, <2>1 DEF ChunkInv, ChannelInv, Fed
    <3> QED BY <1>3, <1>4, <1>6, <2>1, <3>1 DEF InStep
  <2>6. semR'[s] \in {0, 1}
    BY <1>3 DEF ChunkInv, ChannelInv
  <2>7. ChannelInv(s)'
    BY <1>3, <2>2, <2>3, <2>4, <2>5, <2>6 DEF ChannelInv
  <2> QED BY <1>5, <2>7, OneSegment
<1> QED BY <1>3, <1>7, <1>8
-----------------------------------------------------------------------------
(* What the clients get.                                                    *)

\* At the start nothing is in the segments, and nobody was served.
LEMMA ChunkInit == Init => ChunkInv
<1> SUFFICES ASSUME Init, NEW s \in Segments PROVE ChannelInv(s)
  BY DEF ChunkInv
<1>1. \A w \in Workers : ppc[w] = "idle" /\ ~Served(w)
  BY DEF Init, Served, Waiting
<1>2. \A c \in CacheWorkers : ~Feeds(c)
  BY DEF Init, Feeds, Writes
<1>3. semR[s] = 0 /\ semW[s] = 0
  BY DEF Init
<1> QED BY <1>1, <1>2, <1>3 DEF ChannelInv, Wanted, OneFeeder, ChunkReady, Fed, Drained

LEMMA ReplyInit == Init => ReplyInv
<1> SUFFICES ASSUME Init, NEW w \in Workers PROVE ReplyOK(w)
  BY DEF ReplyInv
<1>1. ppc[w] = "idle" /\ sent[w] = 0 /\ got[w] = << >>
  BY DEF Init
<1> QED BY <1>1 DEF ReplyOK, Answered, InTransfer

\* Every step keeps each segment a one-place buffer.
LEMMA ChunkNext ==
    ASSUME ~SendMayFail, TypeOK, SegmentOwnership, AnswerInv, HeaderInv, ReplyInv, ChunkInv,
           [Next]_vars
    PROVE  ChunkInv'
<1>1. ASSUME NEW w \in Workers, StartRequest(w) \/ WakeSpuriously(w) \/ FailToSend(w)
      PROVE  ChunkInv'
  BY <1>1, ChunkOutside DEF FailToSend
<1>2. ASSUME NEW w \in Workers, ProxyStep(w) PROVE ChunkInv'
  BY <1>2, ChunkOutside, ChunkSignalFree, ChunkInitSegment, ChunkInitWriterSem,
     ChunkSendRequest, ChunkReadLength, ChunkAwaitChunk, ChunkCopyChunk, ChunkSendChunk
     DEF ProxyStep
<1>3. CASE BossReceive \/ BossEnqueue
  BY <1>3, ChunkQueues
<1>4. ASSUME NEW c \in CacheWorkers, CacheStep(c) PROVE ChunkInv'
  BY <1>4, ChunkQueues, ChunkAnnounce, ChunkWriteChunk, ChunkPostChunk, ChunkAwaitTaken
     DEF CacheStep
<1>5. CASE UNCHANGED vars
  BY <1>5, FeedersApart DEF vars, workerVars, segmentVars, cacheVars, cworkerVars
<1> QED BY <1>1, <1>2, <1>3, <1>4, <1>5 DEF Next

\* A worker about which nothing is asked keeps what its client got.
LEMMA ReplyStays ==
    ASSUME NEW w \in Workers, ReplyOK(w),
           req'[w] = req[w], got'[w] = got[w], sent'[w] = sent[w], data'[w] = data[w],
           Answered(w)' = Answered(w), InTransfer(w)' = InTransfer(w),
           ppc'[w] = "send" => ppc[w] = "send"
    PROVE  ReplyOK(w)'
<1>1. LengthOf(req[w])' = LengthOf(req[w])
  BY DEF LengthOf
<1> QED BY <1>1 DEF ReplyOK

\* The bytes of n whole chunks and of one more.
LEMMA WholeChunks ==
    \A n \in Nat : /\ (n + 1) * ChunkSize = n * ChunkSize + ChunkSize
                   /\ n * ChunkSize \in Nat
                   /\ ((n + 1) - 1) * ChunkSize = n * ChunkSize
BY SizesAssumption

\* One more chunk for the client: the next one of its file.
LEMMA ReplySendChunk ==
    ASSUME TypeOK, HeaderInv, ReplyInv, NEW w \in Workers, SendChunk(w)
    PROVE  ReplyOK(w)'
<1> DEFINE L == LengthOf(req[w])
           n == Len(got[w])
<1>1. /\ ppc[w] = "send" /\ Served(w) /\ Position(w) <= L /\ sent'[w] = Position(w)
      /\ ppc'[w] = IF Remaining(w) > 0 THEN "waitR" ELSE "release"
  BY BytesCounted DEF SendChunk
<1>2. /\ L \in Nat /\ Position(w) \in Nat /\ n \in Nat /\ Remaining(w) = L - Position(w)
      /\ got[w] \in Seq(Chunks \cup {Zeroes})
  BY <1>1, ServedFacts DEF TypeOK, ClientTypeOK, Remaining
<1>3. /\ sent[w] = n * ChunkSize /\ sent[w] < L
      /\ data[w] = [file |-> req[w], at |-> sent[w]]
  BY <1>1 DEF ReplyInv, ReplyOK, InTransfer
<1>4. /\ req' = req /\ got'[w] = Append(got[w], data[w])
  BY DEF SendChunk, TypeOK, ClientTypeOK
<1>5. /\ Len(got'[w]) = n + 1 /\ DOMAIN got'[w] = 1 .. (n + 1) /\ DOMAIN got[w] = 1 .. n
      /\ got'[w][n + 1] = data[w] /\ \A i \in 1 .. n : got'[w][i] = got[w][i]
  BY <1>2, <1>4
<1>6. \A i \in DOMAIN got'[w] : got'[w][i] = [file |-> req'[w], at |-> (i - 1) * ChunkSize]
  <2> SUFFICES ASSUME NEW i \in 1 .. (n + 1)
               PROVE  got'[w][i] = [file |-> req[w], at |-> (i - 1) * ChunkSize]
    BY <1>4, <1>5
  <2>1. CASE i \in 1 .. n
    BY <1>5, <2>1 DEF ReplyInv, ReplyOK
  <2>2. CASE i = n + 1
    BY <1>2, <1>3, <1>5, <2>2
  <2> QED BY <1>2, <2>1, <2>2
<1>7. LengthOf(req[w])' = L
  BY <1>4 DEF LengthOf
<1>8. got'[w] # << >>
  BY <1>2, <1>5
<1>9. CASE L - sent[w] < ChunkSize
  <2>1. Position(w) = L
    <3>1. sent[w] \in Nat /\ Position(w) = sent[w] + (L - sent[w])
      BY <1>1, <1>9, ServedFacts DEF Position, ChunkLen
    <3> QED BY <1>2, <3>1
  <2>2. ppc'[w] = "release"
    BY <1>1, <1>2, <2>1
  <2>3. L <= (n + 1) * ChunkSize /\ ((n + 1) - 1) * ChunkSize < L
    BY <1>2, <1>3, <1>9, WholeChunks, SizesAssumption
  <2> QED BY <1>5, <1>6, <1>7, <2>2, <2>3 DEF ReplyOK, Answered, InTransfer
<1>10. CASE ~(L - sent[w] < ChunkSize)
  <2>1. Position(w) = (n + 1) * ChunkSize
    BY <1>1, <1>2, <1>3, <1>10, WholeChunks DEF Position, ChunkLen
  <2>2. ((n + 1) - 1) * ChunkSize < L
    BY <1>2, <1>3, WholeChunks
  <2>3. CASE ppc'[w] = "waitR"
    <3>1. sent'[w] < L
      BY <1>1, <1>2, <2>3
    <3> QED BY <1>1, <1>5, <1>6, <1>7, <2>1, <2>3, <3>1 DEF ReplyOK, Answered, InTransfer
  <2>4. CASE ppc'[w] = "release"
    <3>1. L <= (n + 1) * ChunkSize
      BY <1>1, <1>2, <2>1, <2>4
    <3> QED BY <1>5, <1>6, <1>7, <2>2, <2>4, <3>1 DEF ReplyOK, Answered, InTransfer
  <2> QED BY <1>1, <2>3, <2>4
<1> QED BY <1>9, <1>10

\* The length is known and nothing was sent: a file of length 0 is sent already.
LEMMA ReplyReadLength ==
    ASSUME TypeOK, SegmentOwnership, AnswerInv, HeaderInv, ReplyInv, NEW w \in Workers,
           ReadLength(w)
    PROVE  ReplyOK(w)'
<1>1. ppc[w] = "waitS" /\ req[w] \in Files
  BY HeldSegment DEF ReadLength, Holding
<1>2. LengthOf(req[w]) \in Nat
  BY <1>1, LengthType
<1>3. sent[w] = 0 /\ got[w] = << >>
  BY <1>1 DEF ReplyInv, ReplyOK, Answered
<1>4. /\ UNCHANGED <<req, got, sent>>
      /\ ppc'[w] = IF flen'[w] = 0 THEN "release" ELSE "waitR"
  BY DEF ReadLength, Goto, TypeOK, WorkerTypeOK
<1>5. LengthOf(req[w])' = LengthOf(req[w]) /\ Answered(w)'
  BY <1>4 DEF LengthOf, Answered
<1>6. flen'[w] = LengthOf(req[w])
  BY <1>5, HeaderReadLength DEF HeaderInv
<1>7. 0 * ChunkSize = 0 /\ Len(got[w]) = 0
  BY <1>3, SizesAssumption
<1> QED BY <1>2, <1>3, <1>4, <1>5, <1>6, <1>7 DEF ReplyOK, Answered, InTransfer

\* The chunk that is copied out is the next one of the worker's file.
LEMMA ReplyCopyChunk ==
    ASSUME TypeOK, ReplyInv, ChunkInv, NEW w \in Workers, CopyChunk(w)
    PROVE  ReplyOK(w)'
<1>1. ppc[w] = "copy" /\ Served(w) /\ Ready(w) /\ pseg[w] \in Segments
  BY ServedFacts DEF CopyChunk, Served, Ready
<1>2. buffer[pseg[w]] = [file |-> req[w], at |-> sent[w]]
  BY <1>1 DEF ChunkInv, ChannelInv, ChunkReady, NextChunk, Position
<1>3. /\ UNCHANGED <<req, got, sent>>
      /\ ppc'[w] = "send" /\ data'[w] = buffer[pseg[w]]
  BY DEF CopyChunk, Goto, TypeOK, WorkerTypeOK, clientVars
<1>4. LengthOf(req[w])' = LengthOf(req[w])
  BY <1>3 DEF LengthOf
<1>5. ReplyOK(w)
  BY DEF ReplyInv
<1> QED BY <1>1, <1>2, <1>3, <1>4, <1>5 DEF ReplyOK, Answered, InTransfer

\* The other steps of a worker send nothing.
LEMMA ReplyOthers ==
    ASSUME TypeOK, ReplyInv, NEW w \in Workers,
           \/ StartRequest(w) \/ WakeSpuriously(w) \/ TakeSegment(w) \/ SleepForSegment(w)
           \/ InitSegment(w) \/ InitWriterSem(w) \/ LockForRequest(w) \/ SendRequest(w)
           \/ AwaitChunk(w) \/ ReleaseSegment(w) \/ SignalFree(w) \/ Return(w)
    PROVE  ReplyInv'
<1> SUFFICES ASSUME NEW v \in Workers PROVE ReplyOK(v)'
  BY DEF ReplyInv
<1>1. ReplyOK(v)
  BY DEF ReplyInv
<1>2. CASE StartRequest(w)
  <2>1. \/ v # w /\ UNCHANGED <<ppc[v], req[v]>>
        \/ v = w /\ ~Answered(v) /\ ppc'[v] = "take"
    BY <1>2 DEF StartRequest, Goto, Answered, TypeOK, WorkerTypeOK
  <2>2. UNCHANGED <<got, sent, data>>
    BY <1>2 DEF StartRequest
  <2>3. CASE v # w
    BY <1>1, <2>1, <2>2, <2>3, ReplyStays DEF Answered, InTransfer
  <2>4. CASE v = w
    BY <1>1, <2>1, <2>2, <2>4 DEF ReplyOK, Answered, InTransfer
  <2> QED BY <2>3, <2>4
<1>3. CASE Return(w)
  <2>1. \/ v # w /\ UNCHANGED <<ppc[v], req[v], got[v], sent[v], data[v]>>
        \/ v = w /\ ppc'[v] = "idle" /\ sent'[v] = 0 /\ got'[v] = << >>
    BY <1>3 DEF Return, Goto, TypeOK, WorkerTypeOK, ClientTypeOK
  <2>2. CASE v # w
    BY <1>1, <2>1, <2>2, ReplyStays DEF Answered, InTransfer
  <2>3. CASE v = w
    BY <2>1, <2>3 DEF ReplyOK, Answered, InTransfer
  <2> QED BY <2>2, <2>3
<1>4. CASE SignalFree(w)
  <2>1. /\ UNCHANGED <<req, got, sent, data>>
        /\ \/ ppc'[v] = ppc[v]
           \/ ppc[v] = "signal" /\ ppc'[v] = "return"
           \/ ppc[v] = "asleep" /\ ppc'[v] = "take"
    BY <1>4 DEF SignalFree, Goto, TypeOK, WorkerTypeOK, workerVars
  <2> QED BY <1>1, <2>1, ReplyStays DEF Answered, InTransfer
<1>5. CASE \/ WakeSpuriously(w) \/ TakeSegment(w) \/ SleepForSegment(w)
           \/ InitSegment(w) \/ InitWriterSem(w) \/ LockForRequest(w) \/ SendRequest(w)
           \/ AwaitChunk(w) \/ ReleaseSegment(w)
  <2>1. UNCHANGED <<req, got, sent, data>>
    BY <1>5 DEF WakeSpuriously, TakeSegment, SleepForSegment, InitSegment, InitWriterSem,
       LockForRequest, SendRequest, AwaitChunk, ReleaseSegment, workerVars, clientVars
  <2>2. \/ ppc'[v] = ppc[v]
        \/ ppc[v] = "waitR" /\ ppc'[v] = "copy"
        \/ ppc[v] = "release" /\ ppc'[v] = "signal"
        \/ /\ ppc[v] \in {"asleep", "take", "initS", "initW", "lock", "mqsend"}
           /\ ppc'[v] \in {"take", "asleep", "initS", "initW", "lock", "mqsend", "waitS"}
    BY <1>5 DEF WakeSpuriously, TakeSegment, SleepForSegment, InitSegment, InitWriterSem,
       LockForRequest, SendRequest, AwaitChunk, ReleaseSegment, Goto, TypeOK, WorkerTypeOK
  <2> QED BY <1>1, <2>1, <2>2, ReplyStays DEF Answered, InTransfer
<1> QED BY <1>2, <1>3, <1>4, <1>5

\* Every step keeps what the clients got in order.
LEMMA ReplyNext ==
    ASSUME ~SendMayFail, TypeOK, SegmentOwnership, AnswerInv, HeaderInv, ReplyInv, ChunkInv,
           [Next]_vars
    PROVE  ReplyInv'
<1>1. ASSUME UNCHANGED <<ppc, req, got, sent, data>> PROVE ReplyInv'
  <2> SUFFICES ASSUME NEW v \in Workers PROVE ReplyOK(v)'
    BY DEF ReplyInv
  <2> QED BY <1>1, ReplyStays DEF ReplyInv, Answered, InTransfer
<1>2. ASSUME NEW w \in Workers, ReadLength(w) \/ CopyChunk(w) \/ SendChunk(w) PROVE ReplyInv'
  <2> SUFFICES ASSUME NEW v \in Workers PROVE ReplyOK(v)'
    BY DEF ReplyInv
  <2>1. CASE v = w
    BY <1>2, <2>1, ReplyReadLength, ReplyCopyChunk, ReplySendChunk
  <2>2. CASE v # w
    <3>1. UNCHANGED <<ppc[v], req[v], got[v], sent[v], data[v]>>
      BY <1>2, <2>2 DEF ReadLength, CopyChunk, SendChunk, CountBytes, Goto, TypeOK,
         WorkerTypeOK, ClientTypeOK, clientVars
    <3> QED BY <3>1, ReplyStays DEF ReplyInv, Answered, InTransfer
  <2> QED BY <2>1, <2>2
<1>3. ASSUME NEW w \in Workers,
             StartRequest(w) \/ WakeSpuriously(w) \/ FailToSend(w) \/ ProxyStep(w)
      PROVE  ReplyInv'
  BY <1>2, <1>3, ReplyOthers DEF FailToSend, ProxyStep
<1>4. CASE BossReceive \/ BossEnqueue
  BY <1>1, <1>4 DEF BossReceive, BossEnqueue, workerVars, clientVars
<1>5. ASSUME NEW c \in CacheWorkers, CacheStep(c) PROVE ReplyInv'
  BY <1>1, <1>5 DEF CacheStep, TakePost, PopWork, Announce, WriteChunk, PostChunk, AwaitTaken,
     workerVars, clientVars
<1>6. CASE UNCHANGED vars
  BY <1>1, <1>6 DEF vars, workerVars, clientVars
<1> QED BY <1>3, <1>4, <1>5, <1>6 DEF Next
-----------------------------------------------------------------------------
(* The theorems.                                                            *)

\* Everything that is proved about a transfer.
TransferInv ==
    /\ TypeOK
    /\ SegmentOwnership
    /\ AnswerInv
    /\ HeaderInv
    /\ ChunkInv
    /\ ReplyInv

\* It holds at the start and is kept by every step, if sends do not fail.
LEMMA TransferInit == Init => TransferInv
BY TypeInit, OwnershipInit, AnswerInit, ChunkInit, ReplyInit
   DEF TransferInv, Init, HeaderInv, Answered

LEMMA TransferNext ==
    ASSUME ~SendMayFail
    PROVE  TransferInv /\ [Next]_vars => TransferInv'
BY TypeNext, OwnershipNext, AnswerNext, HeaderNext, ChunkNext, ReplyNext DEF TransferInv

\* While the cache writes a chunk into a segment its worker neither copies from
\* it nor has a chunk there that it did not take: shm_write_data and
\* shm_read_data of handle_with_cache never overlap.
THEOREM NothingOverwritten ==
    ASSUME ~SendMayFail
    PROVE  Spec => []NoOverwrite
<1>1. TransferInv => NoOverwrite
  <2> SUFFICES ASSUME TransferInv, NEW c \in CacheWorkers, NEW w \in Workers,
                      cpc[c] = "write", pseg[w] = cmsg[c].seg
               PROVE  semR[pseg[w]] = 0 /\ ppc[w] # "copy"
    BY DEF NoOverwrite
  <2>1. Writes(c) /\ Feeds(c)
    BY DEF Writes, Feeds
  <2>2. InStep(c, w)
    BY <2>1, FedWorker DEF TransferInv
  <2> QED BY <2>1, <2>2 DEF InStep, Ready
<1> QED BY <1>1, TransferInit, TransferNext, PTL DEF Spec

\* Every client gets the chunks of its own file, in order and without a gap.
THEOREM RepliesWhole ==
    ASSUME ~SendMayFail
    PROVE  Spec => []ReplyIntegrity
<1>1. TransferInv => ReplyIntegrity
  <2> SUFFICES ASSUME TransferInv, NEW w \in Workers
               PROVE  got[w] = [i \in DOMAIN got[w] |->
                                   [file |-> req[w], at |-> (i - 1) * ChunkSize]]
    BY DEF ReplyIntegrity
  <2>1. got[w] \in Seq(Chunks \cup {Zeroes})
    BY DEF TransferInv, TypeOK, ClientTypeOK
  <2>2. \A i \in DOMAIN got[w] : got[w][i] = [file |-> req[w], at |-> (i - 1) * ChunkSize]
    BY DEF TransferInv, ReplyInv, ReplyOK
  <2>3. got[w] = [i \in DOMAIN got[w] |-> got[w][i]]
    BY <2>1
  <2> QED BY <2>2, <2>3
<1> QED BY <1>1, TransferInit, TransferNext, PTL DEF Spec
-----------------------------------------------------------------------------
(* The proxy with its cache implements ProxyService.                        *)

\* Division by a positive number.
LEMMA Quotient ==
    ASSUME NEW a \in Nat, NEW c \in Nat \ {0}
    PROVE  a \div c \in Nat /\ c * (a \div c) <= a /\ a < c * (a \div c) + c
OBVIOUS

LEMMA Multiples ==
    ASSUME NEW c \in Nat \ {0}, NEW m \in Int, NEW n \in Int
    PROVE  m <= n => c * m <= c * n
OBVIOUS

LEMMA SmallerMultiple ==
    ASSUME NEW c \in Nat \ {0}, NEW m \in Int, NEW n \in Int, c * m < c * n
    PROVE  m < n
OBVIOUS

\* After n chunks some of the file is left exactly if it has more than n chunks.
LEMMA ChunksLeft ==
    ASSUME NEW length \in Nat, NEW n \in Nat
    PROVE  n < (length + ChunkSize - 1) \div ChunkSize <=> n * ChunkSize < length
<1> SUFFICES ASSUME NEW c \in Nat \ {0}, c = ChunkSize
             PROVE  n < (length + c - 1) \div c <=> n * c < length
  BY SizesAssumption
<1> DEFINE q == (length + c - 1) \div c
<1>1. length + c - 1 \in Nat
  OBVIOUS
<1>2. q \in Nat /\ c * q <= length + c - 1 /\ length + c - 1 < c * q + c
  BY <1>1, Quotient
<1> HIDE DEF q
<1>3. n * c = c * n /\ c * (n + 1) = c * n + c /\ c * n \in Nat /\ c * q \in Nat
  BY <1>2
<1>4. ASSUME n < q PROVE c * n < length
  <2>1. c * (n + 1) <= c * q
    BY <1>2, <1>4, Multiples
  <2> QED BY <1>2, <1>3, <2>1
<1>5. ASSUME c * n < length PROVE n < q
  <2>1. c * (n + 1) < c * (q + 1)
    BY <1>2, <1>3, <1>5
  <2>2. n + 1 < q + 1
    BY <1>2, <2>1, SmallerMultiple
  <2> QED BY <1>2, <2>2
<1> QED BY <1>3, <1>4, <1>5 DEF q

\* A body that a worker has finished has all chunks of its file.
LEMMA BodyWhole ==
    ASSUME TypeOK, ReplyInv, NEW w \in Workers, Answered(w), ~InTransfer(w)
    PROVE  Len(got[w]) = Service!ChunkCount(req[w])
<1> DEFINE n == Len(got[w])
           L == LengthOf(req[w])
           q == (L + ChunkSize - 1) \div ChunkSize
<1>1. n \in Nat /\ L \in Nat /\ L <= n * ChunkSize /\ (n # 0 => (n - 1) * ChunkSize < L)
  <2>1. got[w] \in Seq(Chunks \cup {Zeroes}) /\ req[w] \in Files
    BY DEF TypeOK, ClientTypeOK, WorkerTypeOK, LiveLocals, Answered
  <2>2. n \in Nat /\ L \in Nat /\ (n # 0 => got[w] # << >>)
    BY <2>1, LengthType
  <2> QED BY <2>2 DEF ReplyInv, ReplyOK
<1>2. q \in Nat
  BY <1>1, SizesAssumption, Quotient
<1>3. n * ChunkSize \in Nat
  BY <1>1, WholeChunks
<1>4. ~(n < q)
  BY <1>1, <1>3, ChunksLeft
<1>5. n # 0 => n - 1 < q
  BY <1>1, ChunksLeft
<1>6. n = q
  BY <1>1, <1>2, <1>4, <1>5
<1> QED BY <1>6 DEF Service!ChunkCount

\* The client has heard "ok" if there is something to send, and else "not found"
\* when its worker is through.
StatusInv ==
    \A w \in Workers : Answered(w) =>
        /\ LengthOf(req[w]) > 0 => status[w] = "ok"
        /\ LengthOf(req[w]) = 0 =>
              status[w] = IF ppc[w] = "return" THEN "notfound" ELSE "none"

\* Every step keeps the headers.
LEMMA StatusNext ==
    ASSUME TypeOK, SegmentOwnership, AnswerInv, HeaderInv, StatusInv, [Next]_vars
    PROVE  StatusInv'
<1>1. ASSUME NEW w \in Workers, Answered(w), UNCHANGED <<req[w], status[w]>>,
             Answered(w)', ppc'[w] = "return" <=> ppc[w] = "return"
      PROVE  /\ LengthOf(req[w])' > 0 => status'[w] = "ok"
             /\ LengthOf(req[w])' = 0 =>
                   status'[w] = IF ppc'[w] = "return" THEN "notfound" ELSE "none"
  BY <1>1 DEF StatusInv, LengthOf
<1>2. ASSUME UNCHANGED <<ppc, req, status>> PROVE StatusInv'
  BY <1>1, <1>2 DEF StatusInv, Answered
<1>3. ASSUME NEW w \in Workers, StartRequest(w) \/ WakeSpuriously(w) \/ FailToSend(w)
      PROVE  StatusInv'
  <2>1. \A v \in Workers : Answered(v)' =>
           Answered(v) /\ UNCHANGED <<req[v], status[v]>>
           /\ (ppc'[v] = "return" <=> ppc[v] = "return")
    BY <1>3 DEF StartRequest, WakeSpuriously, FailToSend, CountBytes, Goto, Answered, TypeOK,
       WorkerTypeOK, workerVars, clientVars
  <2> QED BY <1>1, <2>1 DEF StatusInv
<1>4. ASSUME NEW w \in Workers, ProxyStep(w) PROVE StatusInv'
  <2>1. CASE \/ TakeSegment(w) \/ SleepForSegment(w) \/ InitSegment(w) \/ InitWriterSem(w)
             \/ LockForRequest(w) \/ SendRequest(w) \/ AwaitChunk(w) \/ CopyChunk(w)
             \/ SendChunk(w) \/ ReleaseSegment(w)
    <3>1. \A v \in Workers : Answered(v)' =>
             Answered(v) /\ UNCHANGED <<req[v], status[v]>>
             /\ (ppc'[v] = "return" <=> ppc[v] = "return")
      BY <2>1 DEF TakeSegment, SleepForSegment, InitSegment, InitWriterSem, LockForRequest,
         SendRequest, AwaitChunk, CopyChunk, SendChunk, CountBytes, ReleaseSegment, Goto,
         Answered, TypeOK, WorkerTypeOK, workerVars, clientVars
    <3> QED BY <1>1, <3>1 DEF StatusInv
  <2>2. CASE ReadLength(w)
    <3>1. /\ ppc[w] = "waitS" /\ UNCHANGED req
          /\ \A v \in Workers \ {w} : UNCHANGED <<ppc[v], status[v]>>
          /\ ppc'[w] \in {"waitR", "release"}
          /\ flen'[w] = 0 => status'[w] = status[w]
          /\ flen'[w] # 0 => status'[w] = "ok"
      BY <2>2 DEF ReadLength, Goto, TypeOK, WorkerTypeOK, ClientTypeOK
    <3>2. status[w] = "none"
      BY <3>1 DEF HeaderInv, Answered
    <3>3. flen'[w] = LengthOf(req[w])'
      BY <2>2, <3>1, HeaderReadLength DEF HeaderInv, Answered
    <3>4. \A v \in Workers \ {w} : Answered(v)' =>
             Answered(v) /\ UNCHANGED <<req[v], status[v]>>
             /\ (ppc'[v] = "return" <=> ppc[v] = "return")
      BY <3>1 DEF Answered
    <3> QED BY <1>1, <3>1, <3>2, <3>3, <3>4 DEF StatusInv
  <2>3. CASE SignalFree(w)
    <3>1. /\ ppc[w] = "signal" /\ ppc'[w] = "return" /\ UNCHANGED req
          /\ \A v \in Workers \ {w} :
                /\ status'[v] = status[v]
                /\ ppc'[v] = ppc[v] \/ ppc'[v] = "take"
          /\ status'[w] = IF flen[w] = 0 THEN "notfound" ELSE status[w]
      BY <2>3 DEF SignalFree, Goto, TypeOK, WorkerTypeOK, ClientTypeOK, workerVars
    <3>2. flen[w] = LengthOf(req[w]) /\ LengthOf(req[w])' = LengthOf(req[w]) /\ Answered(w)
      BY <3>1 DEF HeaderInv, Answered, LengthOf
    <3>3. \A v \in Workers \ {w} : Answered(v)' =>
             Answered(v) /\ UNCHANGED <<req[v], status[v]>>
             /\ (ppc'[v] = "return" <=> ppc[v] = "return")
      BY <3>1 DEF Answered
    <3>4. /\ LengthOf(req[w])' > 0 => status'[w] = "ok"
          /\ LengthOf(req[w])' = 0 => status'[w] = "notfound"
      BY <3>1, <3>2 DEF StatusInv
    <3> QED BY <1>1, <3>1, <3>3, <3>4 DEF StatusInv
  <2>4. CASE Return(w)
    <3>1. \A v \in Workers : Answered(v)' =>
             Answered(v) /\ UNCHANGED <<req[v], status[v]>>
             /\ (ppc'[v] = "return" <=> ppc[v] = "return")
      BY <2>4 DEF Return, Goto, Answered, TypeOK, WorkerTypeOK, ClientTypeOK
    <3> QED BY <1>1, <3>1 DEF StatusInv
  <2> QED BY <1>4, <2>1, <2>2, <2>3, <2>4 DEF ProxyStep
<1>5. CASE BossReceive \/ BossEnqueue
  BY <1>2, <1>5 DEF BossReceive, BossEnqueue, workerVars, clientVars
<1>6. ASSUME NEW c \in CacheWorkers, CacheStep(c) PROVE StatusInv'
  BY <1>2, <1>6 DEF CacheStep, TakePost, PopWork, Announce, WriteChunk, PostChunk, AwaitTaken,
     workerVars, clientVars
<1>7. CASE UNCHANGED vars
  BY <1>2, <1>7 DEF vars, workerVars, clientVars
<1> QED BY <1>3, <1>4, <1>5, <1>6, <1>7 DEF Next

\* A client's request is an Ask.
LEMMA AskStep ==
    ASSUME TypeOK, NEW w \in Workers, StartRequest(w)
    PROVE  Service!Ask(w)
<1>1. req[w] = NoFile
  BY DEF StartRequest, TypeOK, LiveLocals
<1> QED BY <1>1 DEF StartRequest, Service!Ask

\* A length other than 0 is an Accept; 0 changes nothing for the client yet.
LEMMA AcceptStep ==
    ASSUME TypeOK, SegmentOwnership, AnswerInv, HeaderInv, NEW w \in Workers, ReadLength(w)
    PROVE  Service!Accept(w) \/ UNCHANGED Service!vars
<1>1. /\ ppc[w] = "waitS" /\ UNCHANGED <<req, got>> /\ req[w] \in Files /\ req[w] # NoFile
      /\ ppc'[w] \in {"waitR", "release"}
  BY HeldSegment, NamesAssumption DEF ReadLength, Goto, Holding, TypeOK, WorkerTypeOK
<1>2. status[w] = "none" /\ LengthOf(req[w]) \in Nat
  BY <1>1, LengthType DEF HeaderInv, Answered
<1>3. flen'[w] = LengthOf(req[w])'
  BY <1>1, HeaderReadLength DEF HeaderInv, Answered
<1>4. flen'[w] = LengthOf(req[w])
  BY <1>1, <1>3 DEF LengthOf
<1>5. CASE flen'[w] = 0
  BY <1>1, <1>5 DEF ReadLength, Service!vars
<1>6. CASE flen'[w] # 0
  <2>1. LengthOf(req[w]) > 0 /\ status' = [status EXCEPT ![w] = "ok"]
    BY <1>2, <1>4, <1>6 DEF ReadLength
  <2> QED BY <1>1, <1>2, <2>1 DEF Service!Accept
<1> QED BY <1>5, <1>6

\* The answer of a request that found nothing is a Refuse.
LEMMA RefuseStep ==
    ASSUME TypeOK, HeaderInv, StatusInv, NEW w \in Workers, SignalFree(w)
    PROVE  Service!Refuse(w) \/ UNCHANGED Service!vars
<1>1. /\ ppc[w] = "signal" /\ UNCHANGED <<req, got>> /\ flen[w] = LengthOf(req[w])
      /\ status' = [status EXCEPT ![w] = IF flen[w] = 0 THEN "notfound" ELSE @]
  BY DEF SignalFree, workerVars, HeaderInv, Answered
<1>2. req[w] # NoFile
  BY <1>1 DEF TypeOK, LiveLocals
<1>3. CASE flen[w] = 0
  <2>1. status[w] = "none"
    BY <1>1, <1>3 DEF StatusInv, Answered
  <2> QED BY <1>1, <1>2, <1>3, <2>1 DEF Service!Refuse
<1>4. CASE flen[w] # 0
  BY <1>1, <1>4 DEF TypeOK, ClientTypeOK, Service!vars
<1> QED BY <1>3, <1>4

\* A chunk sent is a Deliver of the next chunk.
LEMMA DeliverStep ==
    ASSUME TypeOK, HeaderInv, StatusInv, ReplyInv, NEW w \in Workers, SendChunk(w)
    PROVE  Service!Deliver(w)
<1>1. /\ ppc[w] = "send" /\ UNCHANGED <<req, status>>
      /\ got' = [got EXCEPT ![w] = Append(@, data[w])]
  BY DEF SendChunk
<1>2. Served(w) /\ Answered(w) /\ InTransfer(w)
  BY <1>1 DEF Served, Answered, InTransfer
<1>3. /\ Len(got[w]) \in Nat /\ LengthOf(req[w]) \in Nat
      /\ Len(got[w]) * ChunkSize < LengthOf(req[w])
      /\ data[w] = [file |-> req[w], at |-> Len(got[w]) * ChunkSize]
  <2>1. sent[w] = Len(got[w]) * ChunkSize /\ sent[w] < LengthOf(req[w])
        /\ data[w] = [file |-> req[w], at |-> sent[w]]
    BY <1>1, <1>2 DEF ReplyInv, ReplyOK
  <2>2. Len(got[w]) \in Nat
    BY DEF TypeOK, ClientTypeOK
  <2> QED BY <1>2, <2>1, <2>2, ServedFacts
<1>4. Len(got[w]) * ChunkSize \in Nat
  BY <1>3, WholeChunks
<1>5. status[w] = "ok"
  <2>1. LengthOf(req[w]) > 0
    BY <1>3, <1>4
  <2> QED BY <1>2, <2>1 DEF StatusInv
<1>6. Len(got[w]) < Service!ChunkCount(req[w])
  BY <1>3, ChunksLeft DEF Service!ChunkCount
<1>7. data[w] = Service!Chunk(req[w], Len(got[w]) + 1)
  BY <1>3, WholeChunks DEF Service!Chunk
<1> QED BY <1>1, <1>5, <1>6, <1>7 DEF Service!Deliver

\* handle_with_cache returns only when the client has all it was promised.
LEMMA FinishStep ==
    ASSUME TypeOK, StatusInv, ReplyInv, NEW w \in Workers, Return(w)
    PROVE  Service!Finish(w)
<1>1. ppc[w] = "return" /\ Answered(w) /\ ~InTransfer(w) /\ req[w] \in Files
  BY DEF Return, Answered, InTransfer, TypeOK, WorkerTypeOK, LiveLocals
<1>2. status[w] = "notfound" \/ status[w] = "ok"
  BY <1>1, LengthType DEF StatusInv
<1>3. Len(got[w]) = Service!ChunkCount(req[w])
  BY <1>1, BodyWhole
<1> QED BY <1>2, <1>3 DEF Return, Service!Finish

\* Every step is a step of the service, or one that no client sees.
LEMMA ServiceStep ==
    ASSUME TransferInv, StatusInv, [Next]_vars
    PROVE  [Service!Next]_(Service!vars)
<1> USE DEF TransferInv
<1>1. ASSUME NEW w \in Workers, StartRequest(w) \/ WakeSpuriously(w) \/ FailToSend(w)
      PROVE  [Service!Next]_(Service!vars)
  <2>1. CASE StartRequest(w)
    BY <2>1, AskStep DEF Service!Next
  <2>2. CASE WakeSpuriously(w) \/ FailToSend(w)
    BY <2>2 DEF WakeSpuriously, FailToSend, workerVars, clientVars, Service!vars
  <2> QED BY <1>1, <2>1, <2>2
<1>2. ASSUME NEW w \in Workers, ProxyStep(w) PROVE [Service!Next]_(Service!vars)
  <2>1. CASE \/ TakeSegment(w) \/ SleepForSegment(w) \/ InitSegment(w) \/ InitWriterSem(w)
             \/ LockForRequest(w) \/ SendRequest(w) \/ AwaitChunk(w) \/ CopyChunk(w)
             \/ ReleaseSegment(w)
    BY <2>1 DEF TakeSegment, SleepForSegment, InitSegment, InitWriterSem, LockForRequest,
       SendRequest, AwaitChunk, CopyChunk, ReleaseSegment, workerVars, clientVars, Service!vars
  <2>2. CASE ReadLength(w)
    BY <2>2, AcceptStep DEF Service!Next
  <2>3. CASE SendChunk(w)
    BY <2>3, DeliverStep DEF Service!Next
  <2>4. CASE SignalFree(w)
    BY <2>4, RefuseStep DEF Service!Next
  <2>5. CASE Return(w)
    BY <2>5, FinishStep DEF Service!Next
  <2> QED BY <1>2, <2>1, <2>2, <2>3, <2>4, <2>5 DEF ProxyStep
<1>3. CASE BossReceive \/ BossEnqueue
  BY <1>3 DEF BossReceive, BossEnqueue, workerVars, clientVars, Service!vars
<1>4. ASSUME NEW c \in CacheWorkers, CacheStep(c) PROVE [Service!Next]_(Service!vars)
  BY <1>4 DEF CacheStep, TakePost, PopWork, Announce, WriteChunk, PostChunk, AwaitTaken,
     workerVars, clientVars, Service!vars
<1>5. CASE UNCHANGED vars
  BY <1>5 DEF vars, workerVars, clientVars, Service!vars
<1> QED BY <1>1, <1>2, <1>3, <1>4, <1>5 DEF Next

\* Each client sees what ProxyService promises: the right header, then all
\* chunks of its own file in order and nothing else, whatever the interleaving
\* of proxy workers and cache workers.
THEOREM ServiceImplemented ==
    ASSUME ~SendMayFail
    PROVE  Spec => ServiceRefined
<1>1. Init => TransferInv /\ StatusInv /\ Service!Init
  BY TransferInit DEF Init, StatusInv, Answered, Service!Init
<1>2. TransferInv /\ StatusInv /\ [Next]_vars => (TransferInv /\ StatusInv)'
  BY TransferNext, StatusNext DEF TransferInv
<1>3. TransferInv /\ StatusInv /\ [Next]_vars => [Service!Next]_(Service!vars)
  BY ServiceStep
<1> QED BY <1>1, <1>2, <1>3, PTL DEF Spec, ServiceRefined, Service!Spec
=============================================================================
