--------------------------- MODULE DfsServer_proofs ---------------------------
(***************************************************************************)
(* Theorems about DfsServer for every number of clients, server threads,   *)
(* files and contents, with deadlines that pass and clients that die:      *)
(* types, the exclusion of stores, then locks, files and fetches.          *)
(***************************************************************************)
EXTENDS DfsServer, TLAPS, SequenceTheorems

\* Nothing is written, and an unwritten inode is empty.
LEMMA EmptyType == << >> \in Seq(Blocks) /\ Len(<< >>) = 0
BY EmptySeq

\* A content with one more or one other block is a content, and not absent.
LEMMA PutType ==
    ASSUME NEW s \in Seq(Blocks), NEW p \in Nat, NEW b \in Blocks
    PROVE  Put(s, p, b) \in Seq(Blocks) /\ Put(s, p, b) # Absent
<1> DEFINE n == IF p < Len(s) THEN Len(s) ELSE p + 1
<1>1. n \in Nat /\ Len(s) \in Nat /\ s \in [1 .. Len(s) -> Blocks]
  BY LenProperties
<1>2. Hole \in Blocks
  BY DEF Blocks
<1>3. Put(s, p, b) \in [1 .. n -> Blocks]
  BY <1>1, <1>2 DEF Put
<1>4. Put(s, p, b) \in Seq(Blocks)
  BY <1>1, <1>3, SeqDef
<1> QED BY <1>4, DfsAssumption

\* The length of a content, of an absent file's checksum, of a stale stat.
LEMMA LenType == /\ \A s \in Seq(Blocks) : Len(s) \in Nat
                 /\ Sizes \subseteq Nat
<1>1. \A s \in Seq(Blocks) : Len(s) \in Nat
  BY LenProperties
<1> QED BY <1>1, DfsAssumption DEF Sizes

\* The checksum of a content or of an absent file is a content.
LEMMA ChecksumType == \A s \in Seq(Blocks) \cup {Absent} : Checksum(s) \in Seq(Blocks)
BY EmptyType DEF Checksum

\* What stands for "none" is no value of the type it stands beside.
LEMMA Sentinels == Nobody \notin Clients /\ NoThread \notin Threads /\ NoFile \notin Files
                   /\ NoInode \notin Inodes /\ Inodes \subseteq Nat
BY DfsAssumption DEF NoInode, Inodes

\* A thread that waits for a call has typed locals and no open file.
LEMMA IdleType == IdleCall \in Calls /\ IdleCall.pc = "idle" /\ IdleCall.fd = NoInode
                  /\ IdleCall.pos = 0 /\ IdleCall.client = Nobody
BY EmptyType DEF IdleCall, Calls, Labels, LockLabels, StoreLabels

\* The server starts well typed.
LEMMA TypeInit == Init => TypeOK
<1> SUFFICES ASSUME Init PROVE TypeOK
  OBVIOUS
<1>1. StateTypeOK
  BY EmptyType, IdleType, DfsAssumption DEF Init, StateTypeOK
<1>2. LiveCalls
  BY IdleType DEF Init, LiveCalls, LiveLocals
<1> QED BY <1>1, <1>2 DEF TypeOK

\* The handler at h returns: its client no longer waits, nobody else notices.
LEMMA TypeReply ==
    ASSUME TypeOK, NEW h \in Threads, Reply(h), UNCHANGED dir,
           \A c \in Clients : local'[c] = local[c] \/ waits[c] = h
    PROVE  /\ call' \in [Threads -> Calls]
           /\ waits' \in [Clients -> Threads \cup {NoThread}]
           /\ LiveCalls'
<1>1. call' \in [Threads -> Calls]
  BY IdleType DEF TypeOK, StateTypeOK, Reply
<1>2. waits' \in [Clients -> Threads \cup {NoThread}]
  BY DEF TypeOK, StateTypeOK, Reply
<1>3. \A g \in Threads : LiveLocals(g)'
  <2> SUFFICES ASSUME NEW g \in Threads PROVE LiveLocals(g)'
    OBVIOUS
  <2>1. CASE g = h
    <3>1. call'[g] = IdleCall
      BY <2>1 DEF TypeOK, StateTypeOK, Reply
    <3> QED BY <3>1, IdleType DEF LiveLocals
  <2>2. CASE g # h
    <3>1. call'[g] = call[g] /\ LiveLocals(g)
      BY <2>2 DEF TypeOK, StateTypeOK, LiveCalls, Reply
    <3>2. call[g].pc # "idle" /\ Awaited(g)'
             => Awaited(g) /\ local'[call[g].client] = local[call[g].client]
      BY <3>1, <2>2, Sentinels DEF Awaited, Reply, LiveLocals
    <3> QED BY <3>1, <3>2 DEF LiveLocals
  <2> QED BY <2>1, <2>2
<1>4. \A c \in Clients : waits'[c] # NoThread => call'[waits'[c]].client = c
  BY DEF TypeOK, StateTypeOK, LiveCalls, Reply
<1> QED BY <1>1, <1>2, <1>3, <1>4 DEF TypeOK, LiveCalls

\* The handler at h goes on with other locals, for the same client.
LEMMA TypeGoOn ==
    ASSUME TypeOK, NEW h \in Threads, NEW k \in Calls,
           call' = [call EXCEPT ![h] = k], UNCHANGED <<waits, local, dir>>,
           k.client = call[h].client, LiveLocals(h)'
    PROVE  call' \in [Threads -> Calls] /\ LiveCalls'
<1>1. call' \in [Threads -> Calls]
  BY DEF TypeOK, StateTypeOK
<1>2. \A g \in Threads : LiveLocals(g)'
  BY DEF TypeOK, StateTypeOK, LiveCalls, LiveLocals, Awaited
<1>3. \A c \in Clients : waits'[c] # NoThread => call'[waits'[c]].client = c
  BY DEF TypeOK, StateTypeOK, LiveCalls
<1> QED BY <1>1, <1>2, <1>3 DEF TypeOK, LiveCalls

\* The handler at h goes to another label.
LEMMA TypeGoto ==
    ASSUME TypeOK, NEW h \in Threads,
           NEW l \in Labels \ {"idle", "first", "fetch", "compare", "send"},
           Goto(h, l), UNCHANGED <<waits, local, dir>>, call[h].pc # "idle",
           l \in {"write", "next", "end"} => call[h].fd # NoInode,
           l \in {"lock", "check", "open"} => call[h].pos = 0 /\ call[h].sum # << >>,
           l = "write" => call[h].pos < Len(call[h].sum)
    PROVE  call' \in [Threads -> Calls] /\ LiveCalls'
<1> DEFINE k == [call[h] EXCEPT !.pc = l]
<1>1. /\ k \in Calls
      /\ k.client = call[h].client
      /\ call' = [call EXCEPT ![h] = k]
  <2>1. call[h] \in Calls
    BY DEF TypeOK, StateTypeOK
  <2> QED BY <2>1 DEF Calls, Goto
<1>2. LiveLocals(h)'
  BY DEF TypeOK, StateTypeOK, LiveCalls, LiveLocals, Calls, Goto
<1> HIDE DEF k
<1> QED BY <1>1, <1>2, TypeGoOn

\* The bookkeeping of changed files touches nothing else.
LEMMA TouchedType ==
    ASSUME NEW calls \in [Threads -> Calls], NEW f
    PROVE  /\ Touched(calls, f) \in [Threads -> Calls]
           /\ \A h \in Threads :
                 LET k == calls[h] t == Touched(calls, f)[h] IN
                 /\ t.pc = k.pc /\ t.client = k.client /\ t.file = k.file
                 /\ t.sum = k.sum /\ t.fd = k.fd /\ t.pos = k.pos /\ t.size = k.size
<1>1. ASSUME NEW k \in Calls
      PROVE  LET t == [k EXCEPT !.touched = TRUE] IN
             /\ t \in Calls
             /\ t.pc = k.pc /\ t.client = k.client /\ t.file = k.file
             /\ t.sum = k.sum /\ t.fd = k.fd /\ t.pos = k.pos /\ t.size = k.size
  BY <1>1 DEF Calls
<1> QED BY <1>1 DEF Touched

\* The handler at h goes on and changes a file.
LEMMA TypeTouch ==
    ASSUME TypeOK, NEW h \in Threads, NEW k \in Calls, NEW f,
           call' = Touched([call EXCEPT ![h] = k], f), UNCHANGED <<waits, local>>,
           k.client = call[h].client,
           k.pc \notin {"idle", "first", "fetch", "compare", "send"},
           k.client \in Clients, k.file \in Files,
           k.fd # NoInode \/ k.pc \notin {"write", "next", "end"},
           k.pc \notin {"lock", "check", "open"},
           k.pc = "write" => k.pos < Len(k.sum)
    PROVE  /\ call' \in [Threads -> Calls]
           /\ \A g \in Threads : LiveLocals(g)'
           /\ \A c \in Clients : waits'[c] # NoThread => call'[waits'[c]].client = c
<1> DEFINE calls == [call EXCEPT ![h] = k]
<1>1. calls \in [Threads -> Calls] /\ calls[h] = k /\ \A g \in Threads \ {h} : calls[g] = call[g]
  BY DEF TypeOK, StateTypeOK
<1> HIDE DEF calls
<1>2. call' = Touched(calls, f)
  BY DEF calls
<1>3. /\ call' \in [Threads -> Calls]
      /\ \A g \in Threads :
            /\ call'[g].pc = calls[g].pc /\ call'[g].client = calls[g].client
            /\ call'[g].file = calls[g].file /\ call'[g].sum = calls[g].sum
            /\ call'[g].fd = calls[g].fd /\ call'[g].pos = calls[g].pos
            /\ call'[g].size = calls[g].size
  <2> DEFINE t == Touched(calls, f)
  <2>1. /\ t \in [Threads -> Calls]
        /\ \A g \in Threads :
              /\ t[g].pc = calls[g].pc /\ t[g].client = calls[g].client
              /\ t[g].file = calls[g].file /\ t[g].sum = calls[g].sum
              /\ t[g].fd = calls[g].fd /\ t[g].pos = calls[g].pos
              /\ t[g].size = calls[g].size
    BY <1>1, TouchedType
  <2> HIDE DEF t
  <2>2. call' = t
    BY <1>2 DEF t
  <2>3. call' \in [Threads -> Calls]
    BY <2>1, <2>2
  <2>4. ASSUME NEW g \in Threads
        PROVE  /\ call'[g].pc = calls[g].pc /\ call'[g].client = calls[g].client
               /\ call'[g].file = calls[g].file /\ call'[g].sum = calls[g].sum
               /\ call'[g].fd = calls[g].fd /\ call'[g].pos = calls[g].pos
               /\ call'[g].size = calls[g].size
    <3>1. call'[g] = t[g]
      BY <2>2
    <3> QED BY <2>1, <3>1
  <2> QED BY <2>3, <2>4
<1>4. ASSUME NEW g \in Threads PROVE LiveLocals(g)'
  <2>1. CASE g = h
    <3>1. /\ call'[g].pc = k.pc /\ call'[g].client = k.client
          /\ call'[g].file = k.file /\ call'[g].sum = k.sum
          /\ call'[g].fd = k.fd /\ call'[g].pos = k.pos
      BY <2>1, <1>1, <1>3
    <3> QED BY <3>1 DEF LiveLocals
  <2>2. CASE g # h
    <3>1. LiveLocals(g) /\ calls[g] = call[g]
      BY <2>2, <1>1 DEF TypeOK, LiveCalls
    <3>2. /\ call'[g].pc = call[g].pc /\ call'[g].client = call[g].client
          /\ call'[g].file = call[g].file /\ call'[g].sum = call[g].sum
          /\ call'[g].fd = call[g].fd /\ call'[g].pos = call[g].pos
      <4>1. /\ call'[g].pc = calls[g].pc /\ call'[g].client = calls[g].client
            /\ call'[g].file = calls[g].file /\ call'[g].sum = calls[g].sum
            /\ call'[g].fd = calls[g].fd /\ call'[g].pos = calls[g].pos
        BY <1>3
      <4> QED BY <3>1, <4>1
    <3>3. Awaited(g)' => Awaited(g)
      BY <3>2 DEF Awaited
    <3> QED BY <3>1, <3>2, <3>3 DEF LiveLocals
  <2> QED BY <2>1, <2>2
<1>5. \A c \in Clients : waits'[c] # NoThread => call'[waits'[c]].client = c
  <2> SUFFICES ASSUME NEW c \in Clients, waits'[c] # NoThread
               PROVE  call'[waits'[c]].client = c
    OBVIOUS
  <2>1. waits'[c] \in Threads /\ call[waits'[c]].client = c
    BY DEF TypeOK, StateTypeOK, LiveCalls
  <2>2. calls[waits'[c]].client = c
    BY <1>1, <2>1
  <2> QED BY <1>3, <2>1, <2>2
<1> QED BY <1>3, <1>4, <1>5

\* A call that reaches a thread: its client waits for it and for no other.
LEMMA TypeStartCall ==
    ASSUME TypeOK, NEW c \in Clients, NEW h \in Threads, NEW f \in Files,
           NEW l \in {"first", "fetch", "remove", "ask"}, NEW s \in Seq(Blocks),
           StartCall(c, h, l, f, s),
           local' \in [Clients -> [Files -> Seq(Blocks) \cup {Absent}]],
           \A d \in Clients : d # c => local'[d] = local[d]
    PROVE  TypeOK'
<1> DEFINE k == [IdleCall EXCEPT !.pc = l, !.client = c, !.file = f, !.sum = s]
<1>1. /\ k \in Calls /\ k.pc = l /\ k.client = c /\ k.file = f /\ k.pos = 0
      /\ k.fd = NoInode
  BY DEF IdleCall, Calls, Labels, LockLabels, StoreLabels
<1>2. call' = [call EXCEPT ![h] = k]
  BY DEF StartCall
<1> HIDE DEF k
<1>3. call' \in [Threads -> Calls]
  BY <1>1, <1>2 DEF TypeOK, StateTypeOK
<1>4. /\ waits[c] = NoThread /\ call[h].pc = "idle"
      /\ waits' \in [Clients -> Threads \cup {NoThread}]
      /\ started' \in 0 .. MaxCalls
  BY DfsAssumption DEF TypeOK, StateTypeOK, StartCall, At
<1>5. ASSUME NEW g \in Threads PROVE LiveLocals(g)'
  <2>1. CASE g = h
    <3>1. call'[g] = k
      BY <1>2, <2>1 DEF TypeOK, StateTypeOK
    <3> QED BY <1>1, <3>1 DEF LiveLocals
  <2>2. CASE g # h
    <3>1. call'[g] = call[g] /\ LiveLocals(g) /\ call[g] \in Calls
      BY <1>2, <2>2 DEF TypeOK, StateTypeOK, LiveCalls
    <3>2. Awaited(g)' /\ call[g].client \in Clients => Awaited(g) /\ call[g].client # c
      BY <3>1, <1>4, <2>2 DEF Awaited, StartCall, TypeOK, StateTypeOK
    <3> QED BY <3>1, <3>2 DEF LiveLocals
  <2> QED BY <2>1, <2>2
<1>6. \A d \in Clients : waits'[d] # NoThread => call'[waits'[d]].client = d
  <2> SUFFICES ASSUME NEW d \in Clients, waits'[d] # NoThread
               PROVE  call'[waits'[d]].client = d
    OBVIOUS
  <2>1. CASE d = c
    BY <2>1, <1>1, <1>2 DEF TypeOK, StateTypeOK, StartCall
  <2>2. CASE d # c
    <3>1. waits'[d] = waits[d] /\ waits[d] \in Threads /\ call[waits[d]].client = d
      BY <2>2 DEF TypeOK, StateTypeOK, LiveCalls, StartCall
    <3>2. d # Nobody
      BY Sentinels
    <3> QED BY <3>1, <3>2, <1>1, <1>2, <1>4 DEF TypeOK, StateTypeOK, LiveCalls, LiveLocals
  <2> QED BY <2>1, <2>2
<1> QED BY <1>3, <1>4, <1>5, <1>6 DEF TypeOK, StateTypeOK, LiveCalls, StartCall, files, locks

\* Store: the user's new content is a content.
LEMMA TypeStore ==
    ASSUME TypeOK, NEW c \in Clients, NEW h \in Threads, NEW f \in Files, Store(c, h, f)
    PROVE  TypeOK'
<1> PICK v \in Versions : StartCall(c, h, "first", f, v) /\ local' = [local EXCEPT ![c][f] = v]
  BY DEF Store
<1>1. v \in Seq(Blocks)
  BY DfsAssumption
<1>2. /\ local' \in [Clients -> [Files -> Seq(Blocks) \cup {Absent}]]
      /\ \A d \in Clients : d # c => local'[d] = local[d]
  BY <1>1 DEF TypeOK, StateTypeOK
<1> QED BY <1>1, <1>2, TypeStartCall

\* Fetch sends the checksum of what the client has.
LEMMA TypeFetch ==
    ASSUME TypeOK, NEW c \in Clients, NEW h \in Threads, NEW f \in Files, Fetch(c, h, f)
    PROVE  TypeOK'
<1> DEFINE s == Checksum(local[c][f])
<1>1. s \in Seq(Blocks)
  BY ChecksumType DEF TypeOK, StateTypeOK
<1>2. StartCall(c, h, "fetch", f, s) /\ local' = local
  BY DEF Fetch
<1> HIDE DEF s
<1>3. local \in [Clients -> [Files -> Seq(Blocks) \cup {Absent}]]
  BY DEF TypeOK, StateTypeOK
<1> QED BY <1>1, <1>2, <1>3, TypeStartCall

\* Delete and RequestWriteAccess leave the client's own files alone.
LEMMA TypeAsk ==
    ASSUME TypeOK, NEW c \in Clients, NEW h \in Threads, NEW f \in Files,
           Delete(c, h, f) \/ RequestWriteAccess(c, h, f)
    PROVE  TypeOK'
<1>1. local \in [Clients -> [Files -> Seq(Blocks) \cup {Absent}]]
  BY DEF TypeOK, StateTypeOK
<1>2. PICK l \in {"remove", "ask"} : StartCall(c, h, l, f, << >>) /\ local' = local
  BY DEF Delete, RequestWriteAccess
<1> QED BY <1>1, <1>2, EmptyType, TypeStartCall

\* TimeOut and Die: a client waits no longer.
LEMMA TypeGiveUp ==
    ASSUME TypeOK, NEW c \in Clients, TimeOut(c) \/ Die(c)
    PROVE  TypeOK'
<1>1. /\ waits' = [waits EXCEPT ![c] = NoThread]
      /\ UNCHANGED <<local, dir, disk, lockList, call, started, granted>>
      /\ dead' \in SUBSET Clients /\ late' \in SUBSET Clients
  BY DEF TypeOK, StateTypeOK, TimeOut, Die, files, locks
<1>2. \A h \in Threads : LiveLocals(h)'
  <2> SUFFICES ASSUME NEW h \in Threads PROVE LiveLocals(h)'
    OBVIOUS
  <2>1. LiveLocals(h)
    BY DEF TypeOK, LiveCalls
  <2>2. call[h].client \in Clients /\ Awaited(h)' => Awaited(h)
    BY <1>1, Sentinels DEF Awaited, TypeOK, StateTypeOK
  <2> QED BY <1>1, <2>1, <2>2 DEF LiveLocals
<1>3. StateTypeOK'
  BY <1>1 DEF TypeOK, StateTypeOK
<1>4. \A d \in Clients : waits'[d] # NoThread => call'[waits'[d]].client = d
  BY <1>1 DEF TypeOK, StateTypeOK, LiveCalls
<1> QED BY <1>1, <1>2, <1>3, <1>4 DEF TypeOK, LiveCalls

\* ReceiveFirst: only a store with a block to write goes on to lock.
LEMMA TypeReceiveFirst ==
    ASSUME TypeOK, NEW h \in Threads, ReceiveFirst(h)
    PROVE  TypeOK'
<1>1. UNCHANGED <<local, dead, started, late, dir, disk, lockList, granted>>
  BY DEF ReceiveFirst, files, locks
<1>2. CASE Goto(h, "lock") /\ call[h].sum # << >> /\ UNCHANGED waits
  <2>1. call[h].pos = 0 /\ call[h].pc # "idle"
    BY DEF TypeOK, LiveCalls, LiveLocals, ReceiveFirst, At
  <2>2. "lock" \in Labels \ {"idle", "first", "fetch", "compare", "send"}
    BY DEF Labels
  <2>3. call' \in [Threads -> Calls] /\ LiveCalls'
    BY <1>1, <1>2, <2>1, <2>2, TypeGoto
  <2> QED BY <1>1, <1>2, <2>3 DEF TypeOK, StateTypeOK
<1>3. CASE Reply(h)
  BY <1>1, <1>3, TypeReply DEF TypeOK, StateTypeOK
<1> QED BY <1>2, <1>3 DEF ReceiveFirst

\* LockForStore keeps the types, with or without the lock.
LEMMA TypeLockForStore ==
    ASSUME TypeOK, NEW h \in Threads, LockForStore(h)
    PROVE  TypeOK'
<1>1. UNCHANGED <<local, dead, started, late, dir, disk, granted>>
  BY DEF LockForStore, files
<1>2. /\ call[h].pos = 0 /\ call[h].sum # << >> /\ call[h].pc # "idle"
      /\ call[h].file \in Files /\ call[h].client \in Clients
  BY DEF TypeOK, LiveCalls, LiveLocals, LockForStore, At
<1>3. lockList' \in [Files -> Clients \cup {Nobody}]
  BY <1>2 DEF TypeOK, StateTypeOK, LockForStore, Lock
<1>4. CASE Goto(h, "check") /\ UNCHANGED waits
  <2>1. "check" \in Labels \ {"idle", "first", "fetch", "compare", "send"}
    BY DEF Labels, LockLabels
  <2>2. call' \in [Threads -> Calls] /\ LiveCalls'
    BY <1>1, <1>2, <1>4, <2>1, TypeGoto
  <2> QED BY <1>1, <1>3, <1>4, <2>2 DEF TypeOK, StateTypeOK
<1>5. CASE Reply(h)
  BY <1>1, <1>3, <1>5, TypeReply DEF TypeOK, StateTypeOK
<1> QED BY <1>4, <1>5 DEF LockForStore

\* unlock leaves lockList and the granted locks well typed.
LEMMA UnlockType ==
    ASSUME TypeOK, NEW f, Unlock(f)
    PROVE  /\ lockList' \in [Files -> Clients \cup {Nobody}]
           /\ granted' \in SUBSET (Clients \X Files)
BY DEF TypeOK, StateTypeOK, Unlock

\* CompareForStore keeps the types on both ways out.
LEMMA TypeCompareForStore ==
    ASSUME TypeOK, NEW h \in Threads, CompareForStore(h)
    PROVE  TypeOK'
<1>1. UNCHANGED <<local, dead, started, late, dir, disk>>
  BY DEF CompareForStore, files
<1>2. CASE Goto(h, "open") /\ UNCHANGED <<waits, lockList, granted>>
  <2>1. call[h].pos = 0 /\ call[h].sum # << >> /\ call[h].pc # "idle"
    BY DEF TypeOK, LiveCalls, LiveLocals, CompareForStore, At
  <2>2. "open" \in Labels \ {"idle", "first", "fetch", "compare", "send"}
    BY DEF Labels, LockLabels, StoreLabels
  <2>3. call' \in [Threads -> Calls] /\ LiveCalls'
    BY <1>1, <1>2, <2>1, <2>2, TypeGoto
  <2> QED BY <1>1, <1>2, <2>3 DEF TypeOK, StateTypeOK
<1>3. CASE Reply(h) /\ Unlock(call[h].file)
  BY <1>1, <1>3, TypeReply, UnlockType DEF TypeOK, StateTypeOK
<1> QED BY <1>2, <1>3 DEF CompareForStore, locks

\* OpenForStore: the name keeps its inode or gets one that no other name has.
LEMMA TypeOpenForStore ==
    ASSUME TypeOK, NEW h \in Threads, OpenForStore(h)
    PROVE  TypeOK'
<1> DEFINE f == call[h].file
<1>1. /\ call[h].client \in Clients /\ f \in Files /\ call[h].pos = 0
      /\ call[h].sum # << >> /\ call[h] \in Calls
  BY DEF TypeOK, StateTypeOK, LiveCalls, LiveLocals, OpenForStore, At
<1> PICK i \in Target(f) :
       /\ dir' = [dir EXCEPT ![f] = i]
       /\ disk' = [disk EXCEPT ![i] = << >>]
       /\ call' = Touched([call EXCEPT ![h].pc = "write", ![h].fd = i], f)
  BY DEF OpenForStore
<1>2. i \in Inodes /\ i # NoInode
  BY Sentinels DEF Target
<1>3. UNCHANGED <<local, waits, dead, started, late, lockList, granted>>
  BY DEF OpenForStore, clients, locks
<1> DEFINE k == [call[h] EXCEPT !.pc = "write", !.fd = i]
<1>4. /\ k \in Calls /\ k.pc = "write" /\ k.fd = i /\ k.client = call[h].client
      /\ k.file = f /\ k.pos = 0 /\ k.sum = call[h].sum
  BY <1>1, <1>2 DEF Calls, Labels, LockLabels, StoreLabels
<1>5. call' = Touched([call EXCEPT ![h] = k], f)
  BY <1>1 DEF TypeOK, StateTypeOK, Calls
<1>6. 0 < Len(call[h].sum)
  BY <1>1 DEF Calls
<1> HIDE DEF k, f
<1>7. /\ call' \in [Threads -> Calls]
      /\ \A g \in Threads : LiveLocals(g)'
      /\ \A c \in Clients : waits'[c] # NoThread => call'[waits'[c]].client = c
  BY <1>1, <1>2, <1>3, <1>4, <1>5, <1>6, TypeTouch
<1>8. dir' \in [Files -> Inodes \cup {NoInode}] /\ disk' \in [Inodes -> Seq(Blocks)]
  BY <1>1, <1>2, EmptyType DEF TypeOK, StateTypeOK
<1>9. \A a, b \in Files : dir'[a] = dir'[b] /\ dir'[a] # NoInode => a = b
  <2>1. dir[f] = i \/ \A g \in Files : dir[g] # i
    BY DEF Target, InUse
  <2>2. \A a, b \in Files : dir[a] = dir[b] /\ dir[a] # NoInode => a = b
    BY DEF TypeOK, LiveCalls
  <2> QED BY <1>1, <1>2, <2>1, <2>2 DEF TypeOK, StateTypeOK
<1> QED BY <1>3, <1>7, <1>8, <1>9 DEF TypeOK, StateTypeOK, LiveCalls

\* WriteBlock writes a block that was sent to a file that is open.
LEMMA TypeWriteBlock ==
    ASSUME TypeOK, NEW h \in Threads, WriteBlock(h)
    PROVE  TypeOK'
<1> DEFINE k == [call[h] EXCEPT !.pc = "next", !.pos = @ + 1]
           f == call[h].file
           fd == call[h].fd
           p == call[h].pos
           b == call[h].sum[p + 1]
<1>1. /\ call[h] \in Calls /\ call[h].client \in Clients /\ f \in Files
      /\ fd \in Inodes /\ p \in Nat /\ p < Len(call[h].sum)
      /\ call[h].sum \in Seq(Blocks)
  BY DEF TypeOK, StateTypeOK, LiveCalls, LiveLocals, WriteBlock, At, Calls
<1>2. b \in Blocks
  BY <1>1
<1>3. UNCHANGED <<local, waits, dead, started, late, dir, lockList, granted>>
  BY DEF WriteBlock, clients, locks
<1>4. /\ k \in Calls /\ k.pc = "next" /\ k.fd = fd /\ k.client = call[h].client
      /\ k.file = f
  <2>1. "next" \in Labels
    BY DEF Labels, LockLabels, StoreLabels
  <2>2. call[h].pos + 1 \in Nat
    BY <1>1
  <2>3. k \in Calls
    BY <1>1, <2>1, <2>2 DEF Calls
  <2>4. /\ k.pc = "next" /\ k.fd = fd /\ k.client = call[h].client
        /\ k.file = f
    BY <1>1 DEF Calls
  <2> QED BY <2>3, <2>4
<1>5. /\ call' = Touched([call EXCEPT ![h] = k], f)
      /\ disk' = [disk EXCEPT ![fd] = Put(@, p, b)]
  BY <1>1 DEF TypeOK, StateTypeOK, Calls, WriteBlock
<1> HIDE DEF k, f, fd, p, b
<1>6. fd # NoInode
  BY <1>1, Sentinels
<1>7. /\ call' \in [Threads -> Calls]
      /\ \A g \in Threads : LiveLocals(g)'
      /\ \A c \in Clients : waits'[c] # NoThread => call'[waits'[c]].client = c
  BY <1>1, <1>3, <1>4, <1>5, <1>6, TypeTouch
<1>8. disk' \in [Inodes -> Seq(Blocks)]
  <2>1. disk[fd] \in Seq(Blocks)
    BY <1>1 DEF TypeOK, StateTypeOK
  <2>2. Put(disk[fd], p, b) \in Seq(Blocks)
    BY <1>1, <1>2, <2>1, PutType
  <2> QED BY <1>1, <1>5, <2>2 DEF TypeOK, StateTypeOK
<1> QED BY <1>3, <1>7, <1>8 DEF TypeOK, StateTypeOK, LiveCalls

\* ReceiveNext: another block is written only if there is one.
LEMMA TypeReceiveNext ==
    ASSUME TypeOK, NEW h \in Threads, ReceiveNext(h)
    PROVE  TypeOK'
<1>1. UNCHANGED <<local, dead, started, late, dir, disk, lockList, granted>>
  BY DEF ReceiveNext, files, locks
<1>2. call[h].pc = "next" /\ call[h].fd # NoInode
  BY DEF TypeOK, LiveCalls, LiveLocals, ReceiveNext, At
<1>3. {"write", "end"} \subseteq Labels
  BY DEF Labels, LockLabels, StoreLabels
<1>4. CASE Goto(h, "write") /\ call[h].pos < Len(call[h].sum) /\ UNCHANGED waits
  <2>1. call' \in [Threads -> Calls] /\ LiveCalls'
    BY <1>1, <1>2, <1>3, <1>4, TypeGoto
  <2> QED BY <1>1, <1>4, <2>1 DEF TypeOK, StateTypeOK
<1>5. CASE Goto(h, "end") /\ UNCHANGED waits
  <2>1. call' \in [Threads -> Calls] /\ LiveCalls'
    BY <1>1, <1>2, <1>3, <1>5, TypeGoto
  <2> QED BY <1>1, <1>5, <2>1 DEF TypeOK, StateTypeOK
<1>6. CASE Reply(h)
  BY <1>1, <1>6, TypeReply DEF TypeOK, StateTypeOK
<1> QED BY <1>4, <1>5, <1>6 DEF ReceiveNext

\* EndStore keeps the types.
LEMMA TypeEndStore ==
    ASSUME TypeOK, NEW h \in Threads, EndStore(h)
    PROVE  TypeOK'
<1>1. /\ Reply(h) /\ Unlock(call[h].file)
      /\ UNCHANGED <<local, dead, started, late, dir, disk>>
  BY DEF EndStore, files
<1> QED BY <1>1, TypeReply, UnlockType DEF TypeOK, StateTypeOK

\* OpenForFetch opens a file that exists.
LEMMA TypeOpenForFetch ==
    ASSUME TypeOK, NEW h \in Threads, OpenForFetch(h)
    PROVE  TypeOK'
<1>1. UNCHANGED <<local, dead, started, late, dir, disk, lockList, granted>>
  BY DEF OpenForFetch, files, locks
<1>2. CASE Reply(h)
  BY <1>1, <1>2, TypeReply DEF TypeOK, StateTypeOK
<1>3. CASE ~Reply(h)
  <2> DEFINE fd == dir[call[h].file]
             k == [call[h] EXCEPT !.pc = "compare", !.fd = fd]
  <2>1. /\ call[h] \in Calls /\ call[h].client \in Clients /\ call[h].file \in Files
        /\ fd \in Inodes /\ fd # NoInode
    BY <1>3 DEF TypeOK, StateTypeOK, LiveCalls, LiveLocals, OpenForFetch, At
  <2>2. call' = [call EXCEPT ![h] = k] /\ UNCHANGED waits
    BY <1>3 DEF OpenForFetch
  <2> HIDE DEF fd
  <2>3. /\ k \in Calls /\ k.client = call[h].client /\ k.pc = "compare" /\ k.fd = fd
        /\ k.file = call[h].file /\ k.pos = call[h].pos
    BY <2>1 DEF Calls, Labels
  <2> HIDE DEF k
  <2>4. call'[h] = k
    BY <2>2 DEF TypeOK, StateTypeOK
  <2>5. LiveLocals(h)'
    BY <2>1, <2>3, <2>4 DEF LiveLocals, OpenForFetch, TypeOK, LiveCalls, At
  <2>6. call' \in [Threads -> Calls] /\ LiveCalls'
    BY <1>1, <2>2, <2>3, <2>5, TypeGoOn
  <2> QED BY <1>1, <2>2, <2>6 DEF TypeOK, StateTypeOK
<1> QED BY <1>2, <1>3

\* CompareForFetch: also the size of a failed stat is a size.
LEMMA TypeCompareForFetch ==
    ASSUME TypeOK, NEW h \in Threads, CompareForFetch(h)
    PROVE  TypeOK'
<1>1. UNCHANGED <<local, dead, started, late, dir, disk, lockList, granted>>
  BY DEF CompareForFetch, files, locks
<1>2. CASE Reply(h)
  BY <1>1, <1>2, TypeReply DEF TypeOK, StateTypeOK
<1>3. CASE ~Reply(h)
  <2> DEFINE content == Content(call[h].file)
  <2>1. /\ call[h] \in Calls /\ call[h].client \in Clients /\ call[h].file \in Files
    BY DEF TypeOK, StateTypeOK, LiveCalls, LiveLocals, CompareForFetch, At
  <2>2. content = Absent \/ content \in Seq(Blocks)
    BY <2>1 DEF TypeOK, StateTypeOK, Content
  <2>3. PICK n \in IF content = Absent THEN Sizes ELSE {Len(content)} :
           call' = [call EXCEPT ![h].pc = "send", ![h].size = n]
    BY <1>3 DEF CompareForFetch
  <2> HIDE DEF content
  <2>4. n \in Nat
    BY <2>2, LenType
  <2> DEFINE k == [call[h] EXCEPT !.pc = "send", !.size = n]
  <2>5. call' = [call EXCEPT ![h] = k] /\ UNCHANGED waits
    BY <1>3, <2>3 DEF CompareForFetch
  <2>6. /\ k \in Calls /\ k.client = call[h].client /\ k.pc = "send"
        /\ k.file = call[h].file /\ k.pos = call[h].pos
    BY <2>1, <2>4 DEF Calls, Labels
  <2> HIDE DEF k
  <2>7. call'[h] = k
    BY <2>5 DEF TypeOK, StateTypeOK
  <2>8. LiveLocals(h)'
    BY <2>1, <2>6, <2>7 DEF LiveLocals, CompareForFetch, TypeOK, LiveCalls, At
  <2>9. call' \in [Threads -> Calls] /\ LiveCalls'
    BY <1>1, <2>5, <2>6, <2>8, TypeGoOn
  <2> QED BY <1>1, <2>5, <2>9 DEF TypeOK, StateTypeOK
<1> QED BY <1>2, <1>3

\* SendBlock: the client's file exists from the first block on, so that the
\* next one goes behind it.
LEMMA TypeSendBlock ==
    ASSUME TypeOK, NEW h \in Threads, SendBlock(h)
    PROVE  TypeOK'
<1> DEFINE k == call[h]
           good == k.fd # NoInode /\ k.pos < Len(disk[k.fd])
           block == IF good THEN disk[k.fd][k.pos + 1] ELSE Junk
           old == IF k.pos = 0 THEN << >> ELSE local[k.client][k.file]
           new == Put(old, k.pos, block)
           fd == IF good THEN k.fd ELSE NoInode
           q == k.pos + 1
           next == [k EXCEPT !.pos = q, !.fd = fd]
<1>1. /\ k \in Calls /\ k.client \in Clients /\ k.file \in Files /\ k.pc = "send"
      /\ k.pos \in Nat /\ q \in Nat /\ k.fd \in Inodes \cup {NoInode}
  BY DEF TypeOK, StateTypeOK, LiveCalls, LiveLocals, SendBlock, At, Calls
<1>2. UNCHANGED <<waits, dead, started, late, dir, disk, lockList, granted>>
  BY DEF SendBlock, files, locks
<1>3. call' = [call EXCEPT ![h] = next]
  BY DEF SendBlock
<1>4. \/ Awaited(h) /\ local' = [local EXCEPT ![k.client][k.file] = new]
      \/ ~Awaited(h) /\ local' = local
  BY DEF SendBlock
<1>5. block \in Blocks
  <2>1. Junk \in Blocks
    BY DEF Blocks
  <2>2. CASE good
    <3>1. k.fd \in Inodes /\ disk[k.fd] \in Seq(Blocks)
      BY <1>1, <2>2 DEF TypeOK, StateTypeOK
    <3> QED BY <1>1, <2>2, <3>1
  <2> QED BY <2>1, <2>2
<1>6. Awaited(h) => old \in Seq(Blocks)
  BY <1>1, EmptyType DEF TypeOK, StateTypeOK, LiveCalls, LiveLocals
<1>7. fd \in Inodes \cup {NoInode}
  BY <1>1
<1> HIDE DEF fd, q, block, old, good
<1>8. Awaited(h) => new \in Seq(Blocks) /\ new # Absent
  BY <1>1, <1>5, <1>6, PutType
<1>9. /\ next \in Calls /\ next.pc = "send" /\ next.client = k.client
      /\ next.file = k.file /\ next.fd = fd
  BY <1>1, <1>7 DEF Calls
<1> HIDE DEF new, next
<1>10. /\ local' \in [Clients -> [Files -> Seq(Blocks) \cup {Absent}]]
       /\ \A c \in Clients, f \in Files : local[c][f] # Absent => local'[c][f] # Absent
       /\ Awaited(h) => local'[k.client][k.file] # Absent
  <2>1. CASE ~Awaited(h) /\ local' = local
    BY <2>1 DEF TypeOK, StateTypeOK
  <2>2. CASE Awaited(h) /\ local' = [local EXCEPT ![k.client][k.file] = new]
    <3> DEFINE d == k.client
               e == k.file
    <3>1. /\ d \in Clients /\ e \in Files /\ new \in Seq(Blocks) /\ new # Absent
          /\ local' = [local EXCEPT ![d][e] = new]
      BY <1>1, <1>8, <2>2
    <3> HIDE DEF d, e
    <3>2. /\ local' \in [Clients -> [Files -> Seq(Blocks) \cup {Absent}]]
          /\ \A c \in Clients, f \in Files : local[c][f] # Absent => local'[c][f] # Absent
          /\ local'[d][e] # Absent
      BY <3>1 DEF TypeOK, StateTypeOK
    <3> QED BY <3>2 DEF d, e
  <2> QED BY <1>4, <2>1, <2>2
<1>11. call' \in [Threads -> Calls]
  BY <1>3, <1>9 DEF TypeOK, StateTypeOK
<1>12. ASSUME NEW g \in Threads PROVE LiveLocals(g)'
  <2>1. CASE g = h
    <3>1. call'[g] = next
      BY <1>3, <2>1 DEF TypeOK, StateTypeOK
    <3> QED BY <1>1, <1>2, <1>9, <1>10, <2>1, <3>1 DEF LiveLocals, Awaited
  <2>2. CASE g # h
    <3>1. call'[g] = call[g] /\ LiveLocals(g)
      BY <1>3, <2>2 DEF TypeOK, StateTypeOK, LiveCalls
    <3> QED BY <1>2, <1>10, <3>1 DEF LiveLocals, Awaited
  <2> QED BY <2>1, <2>2
<1>13. \A c \in Clients : waits'[c] # NoThread => call'[waits'[c]].client = c
  BY <1>2, <1>3, <1>9 DEF TypeOK, StateTypeOK, LiveCalls
<1> QED BY <1>2, <1>10, <1>11, <1>12, <1>13 DEF TypeOK, StateTypeOK, LiveCalls

\* EndFetch keeps the types.
LEMMA TypeEndFetch ==
    ASSUME TypeOK, NEW h \in Threads, EndFetch(h)
    PROVE  TypeOK'
<1>1. Reply(h) /\ UNCHANGED <<local, dead, started, late, dir, disk, lockList, granted>>
  BY DEF EndFetch, files, locks
<1> QED BY <1>1, TypeReply DEF TypeOK, StateTypeOK

\* RemoveFile takes the name away and no other.
LEMMA TypeRemoveFile ==
    ASSUME TypeOK, NEW h \in Threads, RemoveFile(h)
    PROVE  TypeOK'
<1>1. UNCHANGED <<local, dead, started, late, disk, lockList, granted>>
  BY DEF RemoveFile, locks
<1>2. CASE Reply(h) /\ UNCHANGED dir
  BY <1>1, <1>2, TypeReply DEF TypeOK, StateTypeOK
<1>3. CASE ~(Reply(h) /\ UNCHANGED dir)
  <2> DEFINE f == call[h].file
             k == [call[h] EXCEPT !.pc = "locking"]
  <2>1. call[h] \in Calls /\ call[h].client \in Clients /\ f \in Files
    BY DEF TypeOK, StateTypeOK, LiveCalls, LiveLocals, RemoveFile, At
  <2>2. /\ dir' = [dir EXCEPT ![f] = NoInode]
        /\ call' = Touched([call EXCEPT ![h] = k], f)
        /\ UNCHANGED waits
    BY <1>3 DEF RemoveFile
  <2>3. k \in Calls /\ k.pc = "locking" /\ k.client = call[h].client /\ k.file = f
    BY <2>1 DEF Calls, Labels
  <2> HIDE DEF k, f
  <2>4. /\ call' \in [Threads -> Calls]
        /\ \A g \in Threads : LiveLocals(g)'
        /\ \A c \in Clients : waits'[c] # NoThread => call'[waits'[c]].client = c
    BY <1>1, <2>1, <2>2, <2>3, TypeTouch
  <2>5. /\ dir' \in [Files -> Inodes \cup {NoInode}]
        /\ \A a, b \in Files : dir'[a] = dir'[b] /\ dir'[a] # NoInode => a = b
    BY <2>1, <2>2 DEF TypeOK, StateTypeOK, LiveCalls
  <2> QED BY <1>1, <2>2, <2>4, <2>5 DEF TypeOK, StateTypeOK, LiveCalls
<1> QED BY <1>2, <1>3

\* LockForDelete keeps the types, with or without the lock.
LEMMA TypeLockForDelete ==
    ASSUME TypeOK, NEW h \in Threads, LockForDelete(h)
    PROVE  TypeOK'
<1>1. UNCHANGED <<local, dead, started, late, dir, disk, granted>>
  BY DEF LockForDelete, files
<1>2. call[h].pc # "idle" /\ call[h].file \in Files /\ call[h].client \in Clients
  BY DEF TypeOK, LiveCalls, LiveLocals, LockForDelete, At
<1>3. lockList' \in [Files -> Clients \cup {Nobody}]
  BY <1>2 DEF TypeOK, StateTypeOK, LockForDelete, Lock
<1>4. CASE Goto(h, "unlock") /\ UNCHANGED waits
  <2>1. "unlock" \in Labels \ {"idle", "first", "fetch", "compare", "send"}
    BY DEF Labels, LockLabels
  <2>2. call' \in [Threads -> Calls] /\ LiveCalls'
    BY <1>1, <1>2, <1>4, <2>1, TypeGoto
  <2> QED BY <1>1, <1>3, <1>4, <2>2 DEF TypeOK, StateTypeOK
<1>5. CASE Reply(h)
  BY <1>1, <1>3, <1>5, TypeReply DEF TypeOK, StateTypeOK
<1> QED BY <1>4, <1>5 DEF LockForDelete

\* EndDelete removes a local file of the client that waits for it only.
LEMMA TypeEndDelete ==
    ASSUME TypeOK, NEW h \in Threads, EndDelete(h)
    PROVE  TypeOK'
<1>1. /\ Reply(h) /\ Unlock(call[h].file)
      /\ UNCHANGED <<dead, started, late, dir, disk>>
  BY DEF EndDelete, files
<1>2. call[h].client \in Clients /\ call[h].file \in Files
  BY DEF TypeOK, LiveCalls, LiveLocals, EndDelete, At
<1>3. /\ local' \in [Clients -> [Files -> Seq(Blocks) \cup {Absent}]]
      /\ \A c \in Clients : local'[c] = local[c] \/ waits[c] = h
  <2>1. CASE UNCHANGED local
    BY <2>1 DEF TypeOK, StateTypeOK
  <2>2. CASE Awaited(h) /\ local' = [local EXCEPT ![call[h].client][call[h].file] = Absent]
    <3> DEFINE c == call[h].client
               f == call[h].file
    <3>1. /\ c \in Clients /\ f \in Files /\ waits[c] = h
          /\ local' = [local EXCEPT ![c][f] = Absent]
      BY <1>2, <2>2 DEF Awaited
    <3> HIDE DEF c, f
    <3> QED BY <3>1 DEF TypeOK, StateTypeOK
  <2> QED BY <2>1, <2>2 DEF EndDelete
<1> QED BY <1>1, <1>3, TypeReply, UnlockType DEF TypeOK, StateTypeOK

\* GrantLock keeps the types, with or without the lock.
LEMMA TypeGrantLock ==
    ASSUME TypeOK, NEW h \in Threads, GrantLock(h)
    PROVE  TypeOK'
<1>1. Reply(h) /\ UNCHANGED <<local, dead, started, late, dir, disk>>
  BY DEF GrantLock, files
<1>2. call[h].client \in Clients /\ call[h].file \in Files
  BY DEF TypeOK, LiveCalls, LiveLocals, GrantLock, At
<1>3. /\ lockList' \in [Files -> Clients \cup {Nobody}]
      /\ granted' \in SUBSET (Clients \X Files)
  <2>1. CASE UNCHANGED <<lockList, granted>>
    BY <2>1 DEF TypeOK, StateTypeOK
  <2>2. CASE Lock(h) /\ granted' = granted \cup {<<call[h].client, call[h].file>>}
    <3>1. lockList' \in [Files -> Clients \cup {Nobody}]
      BY <1>2, <2>2 DEF TypeOK, StateTypeOK, Lock
    <3>2. <<call[h].client, call[h].file>> \in Clients \X Files
      BY <1>2
    <3> QED BY <2>2, <3>1, <3>2 DEF TypeOK, StateTypeOK
  <2> QED BY <2>1, <2>2 DEF GrantLock, locks
<1> QED BY <1>1, <1>3, TypeReply DEF TypeOK, StateTypeOK

\* Every step keeps the types: one case per action.
LEMMA TypeNext == TypeOK /\ [Next]_vars => TypeOK'
<1> SUFFICES ASSUME TypeOK, [Next]_vars PROVE TypeOK'
  OBVIOUS
<1>1. ASSUME NEW c \in Clients, ClientStep(c) PROVE TypeOK'
  <2>1. CASE TimeOut(c) \/ Die(c)
    BY <2>1, TypeGiveUp
  <2>2. ASSUME NEW h \in Threads, NEW f \in Files,
               \/ Store(c, h, f) \/ Fetch(c, h, f) \/ Delete(c, h, f)
               \/ RequestWriteAccess(c, h, f)
        PROVE  TypeOK'
    BY <2>2, TypeStore, TypeFetch, TypeAsk
  <2> QED BY <1>1, <2>1, <2>2 DEF ClientStep
<1>2. ASSUME NEW h \in Threads, HandlerStep(h) PROVE TypeOK'
  <2>1. CASE \/ ReceiveFirst(h) \/ LockForStore(h) \/ CompareForStore(h)
             \/ OpenForStore(h) \/ WriteBlock(h) \/ ReceiveNext(h) \/ EndStore(h)
    BY <2>1, TypeReceiveFirst, TypeLockForStore, TypeCompareForStore,
       TypeOpenForStore, TypeWriteBlock, TypeReceiveNext, TypeEndStore
  <2>2. CASE OpenForFetch(h) \/ CompareForFetch(h) \/ SendBlock(h) \/ EndFetch(h)
    BY <2>2, TypeOpenForFetch, TypeCompareForFetch, TypeSendBlock, TypeEndFetch
  <2>3. CASE RemoveFile(h) \/ LockForDelete(h) \/ EndDelete(h) \/ GrantLock(h)
    BY <2>3, TypeRemoveFile, TypeLockForDelete, TypeEndDelete, TypeGrantLock
  <2> QED BY <1>2, <2>1, <2>2, <2>3 DEF HandlerStep
<1>3. CASE UNCHANGED vars
  BY <1>3 DEF vars, TypeOK, StateTypeOK, LiveCalls, LiveLocals, Awaited
<1> QED BY <1>1, <1>2, <1>3 DEF Next

\* TypeOK holds in every reachable state of the handlers and clients: no block is
\* written past the end of what a client sends, none through a closed file, no
\* answer goes to a client that waits for another call, and no two names ever
\* share a file on the server.
THEOREM DfsTypeCorrect == Spec => []TypeOK
BY TypeInit, TypeNext, PTL DEF Spec
-----------------------------------------------------------------------------
(* The argument for StoresExclude: a client that is not late has one call   *)
(* at a time, which it waits for until it dies, and a handler between lock  *)
(* and unlock owns its lock.  Two handlers that store the same file would   *)
(* then be of one client, and so the same handler.                          *)

Busy(h)    == call[h].pc # "idle"
Waited     == \A h \in Threads :
                 Busy(h) /\ call[h].client \notin dead => waits[call[h].client] = h
OneCall    == \A g, h \in Threads :
                 Busy(g) /\ Busy(h) /\ call[g].client = call[h].client => g = h
OwnsLock(h) == call[h].pc \in LockLabels => lockList[call[h].file] = call[h].client

LockInv == late = {} => Waited /\ OneCall /\ \A h \in Threads : OwnsLock(h)

\* Nobody has a call or a lock at the start.
LEMMA LockInit == Init => LockInv
BY IdleType DEF Init, LockInv, Waited, OneCall, OwnsLock, Busy, LockLabels, StoreLabels

\* A step that leaves label, client and file of thread g.
SameCall(g) == call'[g].pc = call[g].pc /\ call'[g].client = call[g].client
               /\ call'[g].file = call[g].file

\* A handler goes on or returns, and every thread still owns its lock.
LEMMA LockHandler ==
    ASSUME TypeOK, LockInv, NEW h \in Threads, Busy(h), UNCHANGED <<dead, late>>,
           \A g \in Threads \ {h} : SameCall(g),
           \/ call'[h].pc = "idle"
           \/ call'[h].client = call[h].client /\ UNCHANGED waits,
           \A c \in Clients : waits'[c] = waits[c] \/ waits[c] = h,
           late = {} => \A g \in Threads : OwnsLock(g)'
    PROVE  LockInv'
<1> SUFFICES ASSUME late = {} PROVE LockInv'
  BY DEF LockInv
<1>1. Waited /\ OneCall
  BY DEF LockInv
<1>2. \A g \in Threads : Busy(g) => call[g].client \in Clients
  BY DEF TypeOK, LiveCalls, LiveLocals, Busy
<1>3. Waited'
  BY <1>1, <1>2 DEF Waited, Busy, SameCall
<1>4. OneCall'
  BY <1>1 DEF OneCall, Busy, SameCall
<1> QED BY <1>3, <1>4 DEF LockInv

\* When lock succeeds, no other handler holds the lock that changes hands.
LEMMA LockOthers ==
    ASSUME TypeOK, LockInv, late = {}, NEW h \in Threads, Busy(h), MayLock(h), Lock(h),
           NEW g \in Threads \ {h}, SameCall(g)
    PROVE  OwnsLock(g)' /\ lockList'[call[h].file] = call[h].client
<1>1. call[h].client \in Clients /\ call[h].file \in Files
  BY DEF TypeOK, LiveCalls, LiveLocals, Busy
<1>2. lockList' = [lockList EXCEPT ![call[h].file] = call[h].client]
  BY DEF Lock
<1>3. lockList'[call[h].file] = call[h].client
  BY <1>1, <1>2 DEF TypeOK, StateTypeOK
<1>4. SUFFICES ASSUME call[g].pc \in LockLabels PROVE lockList'[call[g].file] = call[g].client
  BY <1>3 DEF OwnsLock, SameCall
<1>5. /\ Busy(g) /\ call[g].client \in Clients /\ call[g].file \in Files
      /\ lockList[call[g].file] = call[g].client
  BY <1>4 DEF TypeOK, LiveCalls, LiveLocals, LockInv, OwnsLock, Busy, LockLabels, StoreLabels
<1>6. call[g].file # call[h].file
  <2> SUFFICES ASSUME call[g].file = call[h].file PROVE FALSE
    OBVIOUS
  <2>1. call[g].client = call[h].client
    BY <1>5, Sentinels DEF MayLock
  <2> QED BY <2>1, <1>5 DEF LockInv, OneCall
<1> QED BY <1>2, <1>5, <1>6 DEF TypeOK, StateTypeOK

\* unlock by a handler that owns the lock takes it from nobody else.
LEMMA UnlockOthers ==
    ASSUME TypeOK, LockInv, late = {}, NEW h \in Threads, call[h].pc \in LockLabels,
           Unlock(call[h].file), NEW g \in Threads \ {h}, SameCall(g)
    PROVE  OwnsLock(g)'
<1>1. SUFFICES ASSUME call[g].pc \in LockLabels PROVE lockList'[call[g].file] = call[g].client
  BY DEF OwnsLock, SameCall
<1>2. /\ Busy(g) /\ call[g].file \in Files /\ Busy(h)
      /\ lockList[call[g].file] = call[g].client /\ lockList[call[h].file] = call[h].client
  BY <1>1 DEF TypeOK, LiveCalls, LiveLocals, LockInv, OwnsLock, Busy, LockLabels, StoreLabels
<1>3. call[g].file # call[h].file
  BY <1>2 DEF LockInv, OneCall
<1> QED BY <1>2, <1>3 DEF TypeOK, StateTypeOK, Unlock

\* The handler at h returns: what that means for it and for the others.
LEMMA AfterReply ==
    ASSUME TypeOK, NEW h \in Threads, Reply(h)
    PROVE  /\ \A g \in Threads \ {h} : SameCall(g)
           /\ call'[h].pc = "idle" /\ OwnsLock(h)'
           /\ \A c \in Clients : waits'[c] = waits[c] \/ waits[c] = h
BY IdleType DEF Reply, TypeOK, StateTypeOK, SameCall, OwnsLock, LockLabels, StoreLabels

\* A handler returns without touching lockList.
LEMMA LockReply ==
    ASSUME TypeOK, LockInv, NEW h \in Threads, Busy(h), Reply(h),
           UNCHANGED <<dead, late, lockList>>
    PROVE  LockInv'
<1>1. /\ \A g \in Threads \ {h} : SameCall(g)
      /\ call'[h].pc = "idle" /\ OwnsLock(h)'
      /\ \A c \in Clients : waits'[c] = waits[c] \/ waits[c] = h
  BY AfterReply
<1>2. late = {} => \A g \in Threads : OwnsLock(g)'
  BY <1>1 DEF LockInv, OwnsLock, SameCall
<1> QED BY <1>1, <1>2, LockHandler

\* A handler returns and releases the lock it owns.
LEMMA UnlockReply ==
    ASSUME TypeOK, LockInv, NEW h \in Threads, call[h].pc \in LockLabels, Reply(h),
           Unlock(call[h].file), UNCHANGED <<dead, late>>
    PROVE  LockInv'
<1>1. /\ \A g \in Threads \ {h} : SameCall(g)
      /\ call'[h].pc = "idle" /\ OwnsLock(h)'
      /\ \A c \in Clients : waits'[c] = waits[c] \/ waits[c] = h
  BY AfterReply
<1>2. late = {} => \A g \in Threads : OwnsLock(g)'
  BY <1>1, UnlockOthers
<1>3. Busy(h)
  BY DEF Busy, LockLabels, StoreLabels
<1> QED BY <1>1, <1>2, <1>3, LockHandler

\* A handler goes on without touching lockList, and not into the locked part.
LEMMA LockGoOn ==
    ASSUME TypeOK, LockInv, NEW h \in Threads, Busy(h),
           UNCHANGED <<dead, late, waits, lockList>>, \A g \in Threads \ {h} : SameCall(g),
           call'[h].client = call[h].client, call'[h].file = call[h].file,
           call'[h].pc \in LockLabels => call[h].pc \in LockLabels
    PROVE  LockInv'
<1>1. late = {} => \A g \in Threads : OwnsLock(g)'
  BY DEF LockInv, OwnsLock, SameCall
<1> QED BY <1>1, LockHandler

\* A handler takes the lock and enters the locked part.
LEMMA LockEnter ==
    ASSUME TypeOK, LockInv, NEW h \in Threads, Busy(h), MayLock(h), Lock(h),
           NEW l \in LockLabels, Goto(h, l), UNCHANGED <<dead, late, waits>>
    PROVE  LockInv'
<1>1. /\ \A g \in Threads \ {h} : SameCall(g)
      /\ call'[h].client = call[h].client /\ call'[h].file = call[h].file
  BY DEF Goto, TypeOK, StateTypeOK, SameCall, Calls
<1>2. ASSUME late = {}, NEW g \in Threads PROVE OwnsLock(g)'
  <2>1. CASE g # h
    BY <1>1, <1>2, <2>1, LockOthers
  <2>2. CASE g = h
    <3>1. call[h].file \in Files
      BY DEF TypeOK, LiveCalls, LiveLocals, Busy
    <3>2. lockList'[call[h].file] = call[h].client
      BY <3>1 DEF Lock, TypeOK, StateTypeOK
    <3> QED BY <1>1, <2>2, <3>2 DEF OwnsLock
  <2> QED BY <2>1, <2>2
<1> QED BY <1>1, <1>2, LockHandler

\* Reaching a label by Goto changes neither client nor file.
LEMMA AfterGoto ==
    ASSUME TypeOK, NEW h \in Threads, NEW l, Goto(h, l)
    PROVE  /\ \A g \in Threads \ {h} : SameCall(g)
           /\ call'[h].client = call[h].client /\ call'[h].file = call[h].file
           /\ call'[h].pc = l
BY DEF Goto, TypeOK, StateTypeOK, SameCall, Calls

\* Changing a file changes no label, client or file name of another thread.
LEMMA AfterTouch ==
    ASSUME TypeOK, NEW h \in Threads, NEW k \in Calls, NEW f,
           call' = Touched([call EXCEPT ![h] = k], f)
    PROVE  /\ \A g \in Threads \ {h} : SameCall(g)
           /\ call'[h].client = k.client /\ call'[h].file = k.file /\ call'[h].pc = k.pc
<1> DEFINE calls == [call EXCEPT ![h] = k]
           t == Touched(calls, f)
<1>1. calls \in [Threads -> Calls] /\ calls[h] = k /\ \A g \in Threads \ {h} : calls[g] = call[g]
  BY DEF TypeOK, StateTypeOK
<1>2. call' = t
  OBVIOUS
<1> HIDE DEF calls
<1>3. \A g \in Threads :
         t[g].pc = calls[g].pc /\ t[g].client = calls[g].client /\ t[g].file = calls[g].file
  BY <1>1, TouchedType
<1> HIDE DEF t
<1> QED BY <1>1, <1>2, <1>3 DEF SameCall

\* storeFile
LEMMA LockStore ==
    ASSUME TypeOK, LockInv, NEW h \in Threads,
           \/ ReceiveFirst(h) \/ LockForStore(h) \/ CompareForStore(h)
           \/ OpenForStore(h) \/ WriteBlock(h) \/ ReceiveNext(h) \/ EndStore(h)
    PROVE  LockInv'
<1>1. CASE ReceiveFirst(h)
  <2>1. Busy(h) /\ UNCHANGED <<dead, late, lockList>>
    BY <1>1 DEF ReceiveFirst, At, Busy, locks
  <2>2. CASE Goto(h, "lock") /\ UNCHANGED waits
    <3>1. "lock" \notin LockLabels
      BY DEF LockLabels, StoreLabels
    <3> QED BY <2>1, <2>2, <3>1, AfterGoto, LockGoOn
  <2>3. CASE Reply(h)
    BY <2>1, <2>3, LockReply
  <2> QED BY <1>1, <2>2, <2>3 DEF ReceiveFirst
<1>2. CASE LockForStore(h)
  <2>1. Busy(h) /\ UNCHANGED <<dead, late>>
    BY <1>2 DEF LockForStore, At, Busy
  <2>2. CASE MayLock(h) /\ Lock(h) /\ Goto(h, "check") /\ UNCHANGED waits
    <3>1. "check" \in LockLabels
      BY DEF LockLabels
    <3> QED BY <2>1, <2>2, <3>1, LockEnter
  <2>3. CASE Reply(h) /\ UNCHANGED lockList
    BY <2>1, <2>3, LockReply
  <2> QED BY <1>2, <2>2, <2>3 DEF LockForStore
<1>3. CASE CompareForStore(h)
  <2>1. call[h].pc \in LockLabels /\ Busy(h) /\ UNCHANGED <<dead, late>>
    BY <1>3 DEF CompareForStore, At, Busy, LockLabels
  <2>2. CASE Unlock(call[h].file) /\ Reply(h)
    BY <2>1, <2>2, UnlockReply
  <2>3. CASE Goto(h, "open") /\ UNCHANGED <<waits, lockList>>
    BY <2>1, <2>3, AfterGoto, LockGoOn
  <2> QED BY <1>3, <2>2, <2>3 DEF CompareForStore, locks
<1>4. CASE OpenForStore(h)
  <2>1. call[h].pc \in LockLabels /\ Busy(h) /\ UNCHANGED <<dead, late, waits, lockList>>
    BY <1>4 DEF OpenForStore, At, Busy, LockLabels, StoreLabels, clients, locks
  <2>2. PICK i \in Target(call[h].file) :
           call' = Touched([call EXCEPT ![h].pc = "write", ![h].fd = i], call[h].file)
    BY <1>4 DEF OpenForStore
  <2> DEFINE k == [call[h] EXCEPT !.pc = "write", !.fd = i]
  <2>3. call[h] \in Calls /\ i \in Inodes
    BY DEF TypeOK, StateTypeOK, Target
  <2>4. k \in Calls /\ k.client = call[h].client /\ k.file = call[h].file
    BY <2>3 DEF Calls, Labels, LockLabels, StoreLabels
  <2>5. call' = Touched([call EXCEPT ![h] = k], call[h].file)
    BY <2>2, <2>3 DEF TypeOK, StateTypeOK
  <2> HIDE DEF k
  <2> QED BY <2>1, <2>4, <2>5, AfterTouch, LockGoOn
<1>7. CASE WriteBlock(h)
  <2>1. call[h].pc \in LockLabels /\ Busy(h) /\ UNCHANGED <<dead, late, waits, lockList>>
    BY <1>7 DEF WriteBlock, At, Busy, LockLabels, StoreLabels, clients, locks
  <2> DEFINE k == [call[h] EXCEPT !.pc = "next", !.pos = @ + 1]
  <2>2. call[h] \in Calls /\ call[h].pos + 1 \in Nat /\ "next" \in Labels
    BY DEF TypeOK, StateTypeOK, Calls, Labels, LockLabels, StoreLabels
  <2>3. k \in Calls /\ k.client = call[h].client /\ k.file = call[h].file
    BY <2>2 DEF Calls
  <2>4. call' = Touched([call EXCEPT ![h] = k], call[h].file)
    BY <1>7, <2>2 DEF WriteBlock, TypeOK, StateTypeOK
  <2> HIDE DEF k
  <2> QED BY <2>1, <2>3, <2>4, AfterTouch, LockGoOn
<1>5. CASE ReceiveNext(h)
  <2>1. call[h].pc \in LockLabels /\ Busy(h) /\ UNCHANGED <<dead, late, lockList>>
    BY <1>5 DEF ReceiveNext, At, Busy, LockLabels, StoreLabels, locks
  <2>2. CASE (Goto(h, "write") \/ Goto(h, "end")) /\ UNCHANGED waits
    BY <2>1, <2>2, AfterGoto, LockGoOn
  <2>3. CASE Reply(h)
    BY <2>1, <2>3, LockReply
  <2> QED BY <1>5, <2>2, <2>3 DEF ReceiveNext
<1>6. CASE EndStore(h)
  <2>1. call[h].pc \in LockLabels /\ UNCHANGED <<dead, late>>
    BY <1>6 DEF EndStore, At, LockLabels, StoreLabels
  <2> QED BY <1>6, <2>1, UnlockReply DEF EndStore
<1> QED BY <1>1, <1>2, <1>3, <1>4, <1>5, <1>6, <1>7

\* fetchFile
LEMMA LockFetch ==
    ASSUME TypeOK, LockInv, NEW h \in Threads,
           OpenForFetch(h) \/ CompareForFetch(h) \/ SendBlock(h) \/ EndFetch(h)
    PROVE  LockInv'
<1>1. Busy(h) /\ UNCHANGED <<dead, late, lockList>>
  BY DEF OpenForFetch, CompareForFetch, SendBlock, EndFetch, At, Busy, locks
<1>2. CASE Reply(h)
  BY <1>1, <1>2, LockReply
<1>3. CASE ~Reply(h)
  <2>1. UNCHANGED waits
    BY <1>3 DEF OpenForFetch, CompareForFetch, SendBlock, EndFetch
  <2>2. \A g \in Threads \ {h} : SameCall(g)
    BY <1>3 DEF OpenForFetch, CompareForFetch, SendBlock, EndFetch, TypeOK, StateTypeOK,
       SameCall
  <2>3. /\ call'[h].client = call[h].client /\ call'[h].file = call[h].file
        /\ call'[h].pc \notin LockLabels
    <3>1. {"compare", "send"} \cap LockLabels = {}
      BY DEF LockLabels, StoreLabels
    <3> QED BY <1>3, <3>1 DEF OpenForFetch, CompareForFetch, SendBlock, EndFetch, TypeOK,
            StateTypeOK, Calls, At
  <2> QED BY <1>1, <2>1, <2>2, <2>3, LockGoOn
<1> QED BY <1>2, <1>3

\* deleteFile and requestLock
LEMMA LockDelete ==
    ASSUME TypeOK, LockInv, NEW h \in Threads,
           RemoveFile(h) \/ LockForDelete(h) \/ EndDelete(h) \/ GrantLock(h)
    PROVE  LockInv'
<1>1. Busy(h) /\ UNCHANGED <<dead, late>>
  BY DEF RemoveFile, LockForDelete, EndDelete, GrantLock, At, Busy
<1>2. CASE RemoveFile(h)
  <2>1. UNCHANGED lockList
    BY <1>2 DEF RemoveFile, locks
  <2>2. CASE Reply(h)
    BY <1>1, <2>1, <2>2, LockReply
  <2>3. CASE ~Reply(h)
    <3> DEFINE k == [call[h] EXCEPT !.pc = "locking"]
    <3>1. call' = Touched([call EXCEPT ![h] = k], call[h].file) /\ UNCHANGED waits
      BY <1>2, <2>3 DEF RemoveFile
    <3>2. k \in Calls /\ k.client = call[h].client /\ k.file = call[h].file
          /\ k.pc \notin LockLabels
      <4>1. "locking" \in Labels /\ "locking" \notin LockLabels
        BY DEF Labels, LockLabels, StoreLabels
      <4>2. call[h] \in Calls
        BY DEF TypeOK, StateTypeOK
      <4> QED BY <4>1, <4>2 DEF Calls
    <3> HIDE DEF k
    <3> QED BY <1>1, <2>1, <3>1, <3>2, AfterTouch, LockGoOn
  <2> QED BY <2>2, <2>3
<1>3. CASE LockForDelete(h)
  <2>1. CASE MayLock(h) /\ Lock(h) /\ Goto(h, "unlock") /\ UNCHANGED waits
    <3>1. "unlock" \in LockLabels
      BY DEF LockLabels
    <3> QED BY <1>1, <2>1, <3>1, LockEnter
  <2>2. CASE Reply(h) /\ UNCHANGED lockList
    BY <1>1, <2>2, LockReply
  <2> QED BY <1>3, <2>1, <2>2 DEF LockForDelete
<1>4. CASE EndDelete(h)
  <2>1. call[h].pc \in LockLabels
    BY <1>4 DEF EndDelete, At, LockLabels
  <2> QED BY <1>1, <1>4, <2>1, UnlockReply DEF EndDelete
<1>5. CASE GrantLock(h)
  <2>1. Reply(h)
    BY <1>5 DEF GrantLock
  <2>2. CASE UNCHANGED lockList
    BY <1>1, <2>1, <2>2, LockReply
  <2>3. CASE MayLock(h) /\ Lock(h)
    <3>1. /\ \A g \in Threads \ {h} : SameCall(g)
          /\ call'[h].pc = "idle" /\ OwnsLock(h)'
          /\ \A c \in Clients : waits'[c] = waits[c] \/ waits[c] = h
      BY <2>1, AfterReply
    <3>2. late = {} => \A g \in Threads : OwnsLock(g)'
      BY <1>1, <2>3, <3>1, LockOthers
    <3> QED BY <1>1, <3>1, <3>2, LockHandler
  <2> QED BY <1>5, <2>2, <2>3 DEF GrantLock, locks
<1> QED BY <1>2, <1>3, <1>4, <1>5

\* A client that starts a call has no other one.
LEMMA LockStartCall ==
    ASSUME TypeOK, LockInv, NEW c \in Clients, NEW h \in Threads, NEW f \in Files,
           NEW l \in {"first", "fetch", "remove", "ask"}, NEW s, StartCall(c, h, l, f, s)
    PROVE  LockInv'
<1> SUFFICES ASSUME late = {} PROVE Waited' /\ OneCall' /\ \A g \in Threads : OwnsLock(g)'
  BY DEF LockInv, StartCall
<1>1. /\ UNCHANGED <<dead, lockList>> /\ c \notin dead /\ ~Busy(h)
      /\ waits[c] = NoThread /\ waits' = [waits EXCEPT ![c] = h]
  BY DEF StartCall, locks, At, Busy
<1>2. call'[h].client = c /\ call'[h].pc = l
  BY DEF StartCall, TypeOK, StateTypeOK, IdleCall
<1>3. \A g \in Threads \ {h} : call'[g] = call[g]
  BY DEF StartCall, TypeOK, StateTypeOK
<1>4. \A g \in Threads : Busy(g) => call[g].client \in Clients /\ call[g].client # c
  BY <1>1, Sentinels DEF TypeOK, LiveCalls, LiveLocals, LockInv, Waited, Busy
<1>5. Waited'
  BY <1>1, <1>2, <1>3, <1>4 DEF LockInv, Waited, Busy, TypeOK, StateTypeOK
<1>6. OneCall'
  BY <1>1, <1>2, <1>3, <1>4 DEF LockInv, OneCall, Busy
<1>7. \A g \in Threads : OwnsLock(g)'
  <2>1. l \notin LockLabels
    BY DEF LockLabels, StoreLabels
  <2> QED BY <1>1, <1>2, <1>3, <2>1 DEF LockInv, OwnsLock
<1> QED BY <1>5, <1>6, <1>7

\* Every step keeps LockInv: one case per action.
LEMMA LockNext == TypeOK /\ LockInv /\ [Next]_vars => LockInv'
<1> SUFFICES ASSUME TypeOK, LockInv, [Next]_vars PROVE LockInv'
  OBVIOUS
<1>1. ASSUME NEW c \in Clients, ClientStep(c) PROVE LockInv'
  <2>1. CASE TimeOut(c)
    <3>1. late' # {}
      BY <2>1 DEF TimeOut
    <3> QED BY <3>1 DEF LockInv
  <2>2. CASE Die(c)
    <3>1. /\ UNCHANGED <<late, lockList, call>> /\ dead' = dead \cup {c}
          /\ \A d \in Clients \ {c} : waits'[d] = waits[d]
      BY <2>2 DEF Die, locks, TypeOK, StateTypeOK
    <3>2. \A h \in Threads : Busy(h) => call[h].client \in Clients
      BY DEF TypeOK, LiveCalls, LiveLocals, Busy
    <3>3. Waited => Waited'
      BY <3>1, <3>2 DEF Waited, Busy
    <3> QED BY <3>1, <3>3 DEF LockInv, OneCall, OwnsLock, Busy
  <2>3. ASSUME NEW h \in Threads, NEW f \in Files,
               \/ Store(c, h, f) \/ Fetch(c, h, f) \/ Delete(c, h, f)
               \/ RequestWriteAccess(c, h, f)
        PROVE  LockInv'
    <3>1. \E l \in {"first", "fetch", "remove", "ask"} : \E s : StartCall(c, h, l, f, s)
      BY <2>3 DEF Store, Fetch, Delete, RequestWriteAccess
    <3> QED BY <3>1, LockStartCall
  <2> QED BY <1>1, <2>1, <2>2, <2>3 DEF ClientStep
<1>2. ASSUME NEW h \in Threads, HandlerStep(h) PROVE LockInv'
  BY <1>2, LockStore, LockFetch, LockDelete DEF HandlerStep
<1>3. CASE UNCHANGED vars
  BY <1>3 DEF vars, LockInv, Waited, OneCall, OwnsLock, Busy
<1> QED BY <1>1, <1>2, <1>3 DEF Next

\* Two handlers that both hold the lock of a file are the same.
LEMMA LockExcludes == TypeOK /\ LockInv => StoresExclude
<1> SUFFICES ASSUME TypeOK, LockInv, late = {}, NEW g \in Threads, NEW h \in Threads,
                    call[g].pc \in StoreLabels, call[h].pc \in StoreLabels,
                    call[g].file = call[h].file
             PROVE  g = h
  BY DEF StoresExclude, OneWriter
<1>1. Busy(g) /\ Busy(h) /\ call[g].client = call[h].client
  BY DEF LockInv, OwnsLock, LockLabels, StoreLabels, Busy
<1> QED BY <1>1 DEF LockInv, OneCall

\* StoresExclude holds in every reachable state: while no client has gone on
\* after a deadline, lockList lets at most one handler write a file, whatever
\* the others delete and whenever a client dies.
THEOREM ExclusionCorrect == Spec => []StoresExclude
<1>1. Init => TypeOK /\ LockInv
  BY TypeInit, LockInit
<1>2. TypeOK /\ LockInv /\ [Next]_vars => (TypeOK /\ LockInv)'
  BY TypeNext, LockNext
<1>3. TypeOK /\ LockInv => StoresExclude
  BY LockExcludes
<1> QED BY <1>1, <1>2, <1>3, PTL DEF Spec
-----------------------------------------------------------------------------
(* Locks.  A handler keeps its lock on one way out only, the one on which    *)
(* the call is found to be cancelled.  That its client is dead then, and did *)
(* not merely stop waiting, holds because Store sets no deadline:            *)
(* StoreAwaited says so of every handler of a store, also before it has the  *)
(* lock.                                                                     *)

StoreCall    == {"first", "lock", "check"} \cup StoreLabels
StoreAwaited == \A h \in Threads :
                   call[h].pc \in StoreCall => Awaited(h) \/ call[h].client \in dead
OwnerInv     == LockHasOwner /\ StoreAwaited

\* The handler at h is where lockList says that the lock of f is needed.
Owns(h, f) == call[h].pc \in LockLabels /\ call[h].file = f /\ call[h].client = lockList[f]

\* Nobody has a lock or a call at the start.
LEMMA OwnerInit == Init => OwnerInv
BY IdleType DEF Init, OwnerInv, LockHasOwner, StoreAwaited, StoreCall, StoreLabels

\* A thread with a call has a client and a file.
LEMMA CallerType ==
    ASSUME TypeOK, NEW h \in Threads, Busy(h)
    PROVE  call[h].client \in Clients /\ call[h].file \in Files
BY DEF TypeOK, LiveCalls, LiveLocals, Busy

\* A handler's step leaves every lock with a reason when, of each file, the
\* lock ends up free, granted, with the handler, or as it was with its reason.
LEMMA OwnersKept ==
    ASSUME LockHasOwner, NEW h \in Threads, UNCHANGED dead,
           \A g \in Threads \ {h} : SameCall(g),
           \A f \in Files :
              \/ lockList'[f] = Nobody
              \/ <<lockList'[f], f>> \in granted'
              \/ Owns(h, f)'
              \/ /\ lockList'[f] = lockList[f]
                 /\ <<lockList[f], f>> \in granted => <<lockList[f], f>> \in granted'
                 /\ ~Owns(h, f) \/ call[h].client \in dead
    PROVE  LockHasOwner'
<1> SUFFICES ASSUME NEW f \in Files, lockList'[f] # Nobody
             PROVE  \/ \E g \in Threads : Owns(g, f)'
                    \/ <<lockList'[f], f>> \in granted'
                    \/ lockList'[f] \in dead'
  BY DEF LockHasOwner, Owns
<1> SUFFICES ASSUME lockList'[f] = lockList[f],
                    <<lockList[f], f>> \in granted => <<lockList[f], f>> \in granted',
                    ~Owns(h, f) \/ call[h].client \in dead
             PROVE  \/ \E g \in Threads : Owns(g, f)'
                    \/ <<lockList'[f], f>> \in granted'
                    \/ lockList'[f] \in dead'
  OBVIOUS
<1>1. CASE \E g \in Threads : Owns(g, f)
  <2>1. PICK g \in Threads : Owns(g, f)
    BY <1>1
  <2>2. CASE g = h
    BY <2>1, <2>2 DEF Owns
  <2>3. CASE g # h
    <3>1. Owns(g, f)'
      BY <2>1, <2>3 DEF Owns, SameCall
    <3> QED BY <3>1
  <2> QED BY <2>2, <2>3
<1>2. CASE ~\E g \in Threads : Owns(g, f)
  BY <1>2 DEF LockHasOwner, Owns
<1> QED BY <1>1, <1>2

\* A handler goes on with its store, or returns, and the others go on waiting.
LEMMA AwaitedKept ==
    ASSUME TypeOK, StoreAwaited, NEW h \in Threads, UNCHANGED dead,
           \A g \in Threads \ {h} : SameCall(g),
           \/ call'[h].pc \notin StoreCall
           \/ call[h].pc \in StoreCall /\ call'[h].client = call[h].client /\ UNCHANGED waits,
           \A c \in Clients : waits'[c] = waits[c] \/ waits[c] = h
    PROVE  StoreAwaited'
<1> SUFFICES ASSUME NEW g \in Threads, call'[g].pc \in StoreCall
             PROVE  waits'[call'[g].client] = g \/ call'[g].client \in dead
  BY DEF StoreAwaited, Awaited
<1>1. CASE g = h
  BY <1>1 DEF StoreAwaited, Awaited
<1>2. CASE g # h
  <2>1. call[g].pc \in StoreCall /\ call'[g].client = call[g].client
    BY <1>2 DEF SameCall
  <2>2. Busy(g)
    BY <2>1 DEF Busy, StoreCall, StoreLabels
  <2> QED BY <1>2, <2>1, <2>2, CallerType DEF StoreAwaited, Awaited
<1> QED BY <1>1, <1>2

\* A handler returns; others go on waiting and their labels stay.
LEMMA OwnerAfterReply ==
    ASSUME TypeOK, StoreAwaited, NEW h \in Threads, Reply(h), UNCHANGED dead
    PROVE  StoreAwaited' /\ \A g \in Threads \ {h} : SameCall(g)
<1>1. /\ \A g \in Threads \ {h} : SameCall(g)
      /\ call'[h].pc = "idle"
      /\ \A c \in Clients : waits'[c] = waits[c] \/ waits[c] = h
  BY AfterReply
<1>2. "idle" \notin StoreCall
  BY DEF StoreCall, StoreLabels
<1> QED BY <1>1, <1>2, AwaitedKept

\* A handler returns without the lock of its file, or its client is dead.
LEMMA OwnerReply ==
    ASSUME TypeOK, OwnerInv, NEW h \in Threads, Reply(h), UNCHANGED <<dead, lockList>>,
           granted \subseteq granted', call[h].pc \notin LockLabels \/ call[h].client \in dead
    PROVE  OwnerInv'
<1>1. StoreAwaited' /\ \A g \in Threads \ {h} : SameCall(g)
  BY OwnerAfterReply DEF OwnerInv
<1>2. LockHasOwner'
  BY <1>1, OwnersKept DEF OwnerInv, Owns
<1> QED BY <1>1, <1>2 DEF OwnerInv

\* A handler returns after unlock.
LEMMA OwnerUnlock ==
    ASSUME TypeOK, OwnerInv, NEW h \in Threads, Busy(h), Reply(h), UNCHANGED dead,
           Unlock(call[h].file)
    PROVE  OwnerInv'
<1>1. StoreAwaited' /\ \A g \in Threads \ {h} : SameCall(g)
  BY OwnerAfterReply DEF OwnerInv
<1>2. ASSUME NEW f \in Files
      PROVE  \/ lockList'[f] = Nobody
             \/ /\ lockList'[f] = lockList[f]
                /\ <<lockList[f], f>> \in granted => <<lockList[f], f>> \in granted'
                /\ ~Owns(h, f)
  <2>1. lockList \in [Files -> Clients \cup {Nobody}]
    BY DEF TypeOK, StateTypeOK
  <2>2. CASE f = call[h].file
    BY <2>1, <2>2 DEF Unlock
  <2>3. CASE f # call[h].file
    BY <2>1, <2>3 DEF Unlock, Owns
  <2> QED BY <2>2, <2>3
<1>3. LockHasOwner'
  BY <1>1, <1>2, OwnersKept DEF OwnerInv
<1> QED BY <1>1, <1>3 DEF OwnerInv

\* A handler goes on: with lockList as it is, and if it was between lock and
\* unlock it still is.
LEMMA OwnerGoOn ==
    ASSUME TypeOK, OwnerInv, NEW h \in Threads, UNCHANGED <<dead, waits, locks>>,
           \A g \in Threads \ {h} : SameCall(g),
           call'[h].client = call[h].client, call'[h].file = call[h].file,
           call[h].pc \in LockLabels => call'[h].pc \in LockLabels,
           call'[h].pc \in StoreCall => call[h].pc \in StoreCall
    PROVE  OwnerInv'
<1>1. StoreAwaited'
  BY AwaitedKept DEF OwnerInv
<1>2. LockHasOwner'
  BY OwnersKept DEF OwnerInv, Owns, locks
<1> QED BY <1>1, <1>2 DEF OwnerInv

\* A handler takes the lock of its file, and is its reason from then on.
LEMMA OwnerEnter ==
    ASSUME TypeOK, OwnerInv, NEW h \in Threads, Busy(h), Lock(h), NEW l \in LockLabels,
           Goto(h, l), UNCHANGED <<dead, waits, granted>>,
           l \in StoreCall => call[h].pc \in StoreCall
    PROVE  OwnerInv'
<1>1. /\ \A g \in Threads \ {h} : SameCall(g)
      /\ call'[h].client = call[h].client /\ call'[h].file = call[h].file
      /\ call'[h].pc = l
  BY AfterGoto
<1>2. StoreAwaited'
  BY <1>1, AwaitedKept DEF OwnerInv
<1>3. ASSUME NEW f \in Files
      PROVE  \/ Owns(h, f)'
             \/ lockList'[f] = lockList[f] /\ ~Owns(h, f)
  <2>1. lockList \in [Files -> Clients \cup {Nobody}]
    BY DEF TypeOK, StateTypeOK
  <2>2. CASE f = call[h].file
    BY <1>1, <2>1, <2>2 DEF Lock, Owns
  <2>3. CASE f # call[h].file
    BY <2>1, <2>3 DEF Lock, Owns
  <2> QED BY <2>2, <2>3
<1>4. LockHasOwner'
  BY <1>1, <1>3, OwnersKept DEF OwnerInv
<1> QED BY <1>2, <1>4 DEF OwnerInv

\* storeFile up to the open: every path on which the lock was taken clears it.
LEMMA OwnerStoreStart ==
    ASSUME TypeOK, OwnerInv, NEW h \in Threads,
           ReceiveFirst(h) \/ LockForStore(h) \/ CompareForStore(h)
    PROVE  OwnerInv'
<1>1. Busy(h) /\ UNCHANGED dead
  BY DEF ReceiveFirst, LockForStore, CompareForStore, At, Busy
<1>2. CASE ReceiveFirst(h)
  <2>1. UNCHANGED locks /\ call[h].pc = "first"
    BY <1>2 DEF ReceiveFirst, At
  <2>2. "first" \notin LockLabels /\ "first" \in StoreCall
    BY DEF LockLabels, StoreLabels, StoreCall
  <2>3. CASE Goto(h, "lock") /\ UNCHANGED waits
    BY <1>1, <2>1, <2>2, <2>3, AfterGoto, OwnerGoOn
  <2>4. CASE Reply(h)
    BY <1>1, <2>1, <2>2, <2>4, OwnerReply DEF locks
  <2> QED BY <1>2, <2>3, <2>4 DEF ReceiveFirst
<1>3. CASE LockForStore(h)
  <2>1. UNCHANGED granted /\ call[h].pc = "lock"
    BY <1>3 DEF LockForStore, At
  <2>2. "lock" \notin LockLabels /\ "lock" \in StoreCall /\ "check" \in LockLabels
    BY DEF LockLabels, StoreLabels, StoreCall
  <2>3. CASE Lock(h) /\ Goto(h, "check") /\ UNCHANGED waits
    BY <1>1, <2>1, <2>2, <2>3, OwnerEnter
  <2>4. CASE Reply(h) /\ UNCHANGED lockList
    BY <1>1, <2>1, <2>2, <2>4, OwnerReply
  <2> QED BY <1>3, <2>3, <2>4 DEF LockForStore
<1>4. CASE CompareForStore(h)
  <2>1. call[h].pc = "check" /\ "open" \in LockLabels /\ "check" \in StoreCall
    BY <1>4 DEF CompareForStore, At, LockLabels, StoreLabels, StoreCall
  <2>2. CASE Unlock(call[h].file) /\ Reply(h)
    BY <1>1, <2>2, OwnerUnlock
  <2>3. CASE Goto(h, "open") /\ UNCHANGED <<waits, locks>>
    BY <1>1, <2>1, <2>3, AfterGoto, OwnerGoOn
  <2> QED BY <1>4, <2>2, <2>3 DEF CompareForStore
<1> QED BY <1>2, <1>3, <1>4

\* A handler between open and the end of a store changes its file and its own
\* locals: its label stays within the store.
LEMMA OwnerTouch ==
    ASSUME TypeOK, OwnerInv, NEW h \in Threads, UNCHANGED <<dead, waits, locks>>,
           call[h].pc \in StoreLabels, NEW k \in Calls,
           k.client = call[h].client, k.file = call[h].file, k.pc \in StoreLabels,
           call' = Touched([call EXCEPT ![h] = k], call[h].file)
    PROVE  OwnerInv'
<1>1. StoreLabels \subseteq LockLabels \cap StoreCall
  BY DEF LockLabels, StoreCall
<1> QED BY <1>1, AfterTouch, OwnerGoOn

\* storeFile from the open on.  The way out of ReceiveNext that keeps the lock
\* is taken only by a handler whose client no longer waits: it is dead.
LEMMA OwnerStoreRest ==
    ASSUME TypeOK, OwnerInv, NEW h \in Threads,
           OpenForStore(h) \/ WriteBlock(h) \/ ReceiveNext(h) \/ EndStore(h)
    PROVE  OwnerInv'
<1>1. Busy(h) /\ UNCHANGED dead /\ call[h].pc \in StoreLabels
  BY DEF OpenForStore, WriteBlock, ReceiveNext, EndStore, At, Busy, clients, StoreLabels
<1>2. call[h] \in Calls
  BY DEF TypeOK, StateTypeOK
<1>3. CASE OpenForStore(h)
  <2>1. UNCHANGED <<waits, locks>>
    BY <1>3 DEF OpenForStore, clients
  <2>2. PICK i \in Target(call[h].file) :
           call' = Touched([call EXCEPT ![h].pc = "write", ![h].fd = i], call[h].file)
    BY <1>3 DEF OpenForStore
  <2> DEFINE k == [call[h] EXCEPT !.pc = "write", !.fd = i]
  <2>3. i \in Inodes
    BY DEF Target
  <2>4. /\ k \in Calls /\ k.client = call[h].client /\ k.file = call[h].file
        /\ k.pc \in StoreLabels
    BY <1>2, <2>3 DEF Calls, Labels, LockLabels, StoreLabels
  <2>5. call' = Touched([call EXCEPT ![h] = k], call[h].file)
    BY <2>2, <1>2 DEF TypeOK, StateTypeOK
  <2> HIDE DEF k
  <2> QED BY <1>1, <2>1, <2>4, <2>5, OwnerTouch
<1>4. CASE WriteBlock(h)
  <2>1. UNCHANGED <<waits, locks>>
    BY <1>4 DEF WriteBlock, clients
  <2> DEFINE k == [call[h] EXCEPT !.pc = "next", !.pos = @ + 1]
  <2>2. call[h].pos + 1 \in Nat /\ "next" \in Labels /\ "next" \in StoreLabels
    BY <1>2 DEF Calls, Labels, LockLabels, StoreLabels
  <2>3. /\ k \in Calls /\ k.client = call[h].client /\ k.file = call[h].file
        /\ k.pc \in StoreLabels
    BY <1>2, <2>2 DEF Calls
  <2>4. call' = Touched([call EXCEPT ![h] = k], call[h].file)
    BY <1>4, <1>2 DEF WriteBlock, TypeOK, StateTypeOK
  <2> HIDE DEF k
  <2> QED BY <1>1, <2>1, <2>3, <2>4, OwnerTouch
<1>5. CASE ReceiveNext(h)
  <2>1. UNCHANGED locks
    BY <1>5 DEF ReceiveNext
  <2>2. ASSUME NEW l \in {"write", "end"}, Goto(h, l), UNCHANGED waits PROVE OwnerInv'
    <3>1. l \in LockLabels /\ call[h].pc \in StoreCall
      BY <1>1 DEF LockLabels, StoreLabels, StoreCall
    <3> QED BY <1>1, <2>1, <2>2, <3>1, AfterGoto, OwnerGoOn
  <2>3. CASE ~Awaited(h) /\ Reply(h)
    <3>1. call[h].client \in dead
      BY <1>1, <2>3 DEF OwnerInv, StoreAwaited, StoreCall
    <3> QED BY <1>1, <2>1, <2>3, <3>1, OwnerReply DEF locks
  <2> QED BY <1>5, <2>2, <2>3 DEF ReceiveNext
<1>6. CASE EndStore(h)
  BY <1>1, <1>6, OwnerUnlock DEF EndStore
<1> QED BY <1>3, <1>4, <1>5, <1>6

\* fetchFile has no lock, and waits for none.
LEMMA OwnerFetch ==
    ASSUME TypeOK, OwnerInv, NEW h \in Threads,
           OpenForFetch(h) \/ CompareForFetch(h) \/ SendBlock(h) \/ EndFetch(h)
    PROVE  OwnerInv'
<1>1. {"fetch", "compare", "send"} \cap (LockLabels \cup StoreCall) = {}
  BY DEF LockLabels, StoreLabels, StoreCall
<1>2. UNCHANGED <<dead, locks>> /\ call[h].pc \in {"fetch", "compare", "send"}
  BY DEF OpenForFetch, CompareForFetch, SendBlock, EndFetch, At
<1>3. CASE Reply(h)
  BY <1>1, <1>2, <1>3, OwnerReply DEF locks
<1>4. CASE ~Reply(h)
  <2>1. UNCHANGED waits
    BY <1>4 DEF OpenForFetch, CompareForFetch, SendBlock, EndFetch
  <2>2. /\ \A g \in Threads \ {h} : SameCall(g)
        /\ call'[h].client = call[h].client /\ call'[h].file = call[h].file
        /\ call'[h].pc \in {"compare", "send"}
    BY <1>4 DEF OpenForFetch, CompareForFetch, SendBlock, EndFetch, TypeOK, StateTypeOK,
       SameCall, Calls, At
  <2> QED BY <1>1, <1>2, <2>1, <2>2, OwnerGoOn
<1> QED BY <1>3, <1>4

\* deleteFile and requestLock
LEMMA OwnerDelete ==
    ASSUME TypeOK, OwnerInv, NEW h \in Threads,
           RemoveFile(h) \/ LockForDelete(h) \/ EndDelete(h) \/ GrantLock(h)
    PROVE  OwnerInv'
<1>1. Busy(h) /\ UNCHANGED dead
  BY DEF RemoveFile, LockForDelete, EndDelete, GrantLock, At, Busy
<1>2. /\ {"remove", "locking", "ask"} \cap (LockLabels \cup StoreCall) = {}
      /\ "unlock" \in LockLabels /\ "unlock" \notin StoreCall
  BY DEF LockLabels, StoreLabels, StoreCall
<1>3. CASE RemoveFile(h)
  <2>1. UNCHANGED locks /\ call[h].pc = "remove"
    BY <1>3 DEF RemoveFile, At
  <2>2. CASE Reply(h)
    BY <1>1, <1>2, <2>1, <2>2, OwnerReply DEF locks
  <2>3. CASE ~Reply(h)
    <3> DEFINE k == [call[h] EXCEPT !.pc = "locking"]
    <3>1. call' = Touched([call EXCEPT ![h] = k], call[h].file) /\ UNCHANGED waits
      BY <1>3, <2>3 DEF RemoveFile
    <3>2. k \in Calls /\ k.client = call[h].client /\ k.file = call[h].file /\ k.pc = "locking"
      <4>1. "locking" \in Labels /\ call[h] \in Calls
        BY DEF Labels, TypeOK, StateTypeOK
      <4> QED BY <4>1 DEF Calls
    <3> HIDE DEF k
    <3> QED BY <1>1, <1>2, <2>1, <3>1, <3>2, AfterTouch, OwnerGoOn, ZenonT(60)
  <2> QED BY <2>2, <2>3
<1>4. CASE LockForDelete(h)
  <2>1. UNCHANGED granted /\ call[h].pc = "locking"
    BY <1>4 DEF LockForDelete, At
  <2>2. CASE Lock(h) /\ Goto(h, "unlock") /\ UNCHANGED waits
    BY <1>1, <1>2, <2>1, <2>2, OwnerEnter
  <2>3. CASE Reply(h) /\ UNCHANGED lockList
    BY <1>1, <1>2, <2>1, <2>3, OwnerReply
  <2> QED BY <1>4, <2>2, <2>3 DEF LockForDelete
<1>5. CASE EndDelete(h)
  BY <1>1, <1>5, OwnerUnlock DEF EndDelete
<1>6. CASE GrantLock(h)
  <2>1. Reply(h) /\ call[h].pc = "ask"
    BY <1>6 DEF GrantLock, At
  <2>2. CASE UNCHANGED locks
    BY <1>1, <1>2, <2>1, <2>2, OwnerReply DEF locks
  <2>3. CASE Lock(h) /\ granted' = granted \cup {<<call[h].client, call[h].file>>}
    <3>1. StoreAwaited' /\ \A g \in Threads \ {h} : SameCall(g)
      BY <1>1, <2>1, OwnerAfterReply DEF OwnerInv
    <3>2. ASSUME NEW f \in Files
          PROVE  \/ <<lockList'[f], f>> \in granted'
                 \/ lockList'[f] = lockList[f] /\ ~Owns(h, f)
      <4>1. lockList \in [Files -> Clients \cup {Nobody}]
        BY DEF TypeOK, StateTypeOK
      <4> QED BY <1>2, <2>1, <2>3, <4>1 DEF Lock, Owns
    <3>3. granted \subseteq granted'
      BY <2>3
    <3>4. LockHasOwner'
      BY <1>1, <3>1, <3>2, <3>3, OwnersKept DEF OwnerInv
    <3> QED BY <3>1, <3>4 DEF OwnerInv
  <2> QED BY <1>6, <2>2, <2>3 DEF GrantLock
<1> QED BY <1>3, <1>4, <1>5, <1>6

\* A client starts a call: it waits for no other, so that no store of its own
\* is under way, and the thread it gets had none.
LEMMA OwnerStartCall ==
    ASSUME TypeOK, OwnerInv, NEW c \in Clients, NEW h \in Threads, NEW f \in Files,
           NEW l \in {"first", "fetch", "remove", "ask"}, NEW s, StartCall(c, h, l, f, s)
    PROVE  OwnerInv'
<1>1. /\ UNCHANGED <<dead, locks>> /\ call[h].pc = "idle"
      /\ waits[c] = NoThread /\ waits' = [waits EXCEPT ![c] = h]
  BY DEF StartCall, At
<1>2. call'[h].client = c /\ waits'[c] = h /\ \A g \in Threads \ {h} : SameCall(g)
  BY <1>1 DEF StartCall, TypeOK, StateTypeOK, IdleCall, SameCall
<1>3. LockHasOwner'
  <2>1. "idle" \notin LockLabels
    BY DEF LockLabels, StoreLabels
  <2> QED BY <1>1, <1>2, <2>1, OwnersKept DEF OwnerInv, Owns, locks
<1>4. ASSUME NEW g \in Threads, call'[g].pc \in StoreCall
      PROVE  waits'[call'[g].client] = g \/ call'[g].client \in dead
  <2>1. CASE g = h
    BY <1>2, <2>1
  <2>2. CASE g # h
    <3>1. call[g].pc \in StoreCall /\ call'[g].client = call[g].client
      BY <1>2, <1>4, <2>2 DEF SameCall
    <3>2. waits[call[g].client] = g \/ call[g].client \in dead
      BY <3>1 DEF OwnerInv, StoreAwaited, Awaited
    <3>3. waits[call[g].client] = g => call[g].client # c
      BY <1>1, Sentinels
    <3> QED BY <1>1, <3>1, <3>2, <3>3, CallerType DEF TypeOK, StateTypeOK, Busy, StoreCall,
            StoreLabels
  <2> QED BY <2>1, <2>2
<1> QED BY <1>1, <1>3, <1>4 DEF OwnerInv, StoreAwaited, Awaited

\* Every step keeps OwnerInv: one case per action.
LEMMA OwnerNext == TypeOK /\ OwnerInv /\ [Next]_vars => OwnerInv'
<1> SUFFICES ASSUME TypeOK, OwnerInv, [Next]_vars PROVE OwnerInv'
  OBVIOUS
<1>1. ASSUME NEW c \in Clients, ClientStep(c) PROVE OwnerInv'
  <2>1. CASE TimeOut(c)
    <3>1. /\ UNCHANGED <<dead, locks, call>> /\ waits' = [waits EXCEPT ![c] = NoThread]
          /\ call[waits[c]].pc \in {"remove", "locking", "unlock", "ask"}
      BY <2>1 DEF TimeOut
    <3>2. LockHasOwner'
      BY <3>1 DEF OwnerInv, LockHasOwner, locks
    <3>3. {"remove", "locking", "unlock", "ask"} \cap StoreCall = {}
      BY DEF StoreCall, StoreLabels
    <3>4. StoreAwaited'
      BY <3>1, <3>3 DEF OwnerInv, StoreAwaited, Awaited, TypeOK, StateTypeOK
    <3> QED BY <3>2, <3>4 DEF OwnerInv
  <2>2. CASE Die(c)
    <3>1. /\ UNCHANGED <<locks, call>> /\ dead' = dead \cup {c}
          /\ waits' = [waits EXCEPT ![c] = NoThread]
      BY <2>2 DEF Die
    <3>2. LockHasOwner'
      BY <3>1 DEF OwnerInv, LockHasOwner, locks
    <3>3. StoreAwaited'
      BY <3>1 DEF OwnerInv, StoreAwaited, Awaited, TypeOK, StateTypeOK
    <3> QED BY <3>2, <3>3 DEF OwnerInv
  <2>3. ASSUME NEW h \in Threads, NEW f \in Files,
               \/ Store(c, h, f) \/ Fetch(c, h, f) \/ Delete(c, h, f)
               \/ RequestWriteAccess(c, h, f)
        PROVE  OwnerInv'
    <3>1. \E l \in {"first", "fetch", "remove", "ask"} : \E s : StartCall(c, h, l, f, s)
      BY <2>3 DEF Store, Fetch, Delete, RequestWriteAccess
    <3> QED BY <3>1, OwnerStartCall
  <2> QED BY <1>1, <2>1, <2>2, <2>3 DEF ClientStep
<1>2. ASSUME NEW h \in Threads, HandlerStep(h) PROVE OwnerInv'
  BY <1>2, OwnerStoreStart, OwnerStoreRest, OwnerFetch, OwnerDelete DEF HandlerStep
<1>3. CASE UNCHANGED vars
  BY <1>3 DEF vars, OwnerInv, LockHasOwner, StoreAwaited, Awaited
<1> QED BY <1>1, <1>2, <1>3 DEF Next

\* No path through storeFile, deleteFile or requestLock leaves a lock behind
\* without a holder, unless the client that held it has died; deadlines that
\* pass, deletes and refused stores do not.
THEOREM NoLockForgotten == Spec => []LockHasOwner
<1>1. Init => TypeOK /\ OwnerInv
  BY TypeInit, OwnerInit
<1>2. TypeOK /\ OwnerInv /\ [Next]_vars => (TypeOK /\ OwnerInv)'
  BY TypeNext, OwnerNext
<1>3. OwnerInv => LockHasOwner
  BY DEF OwnerInv
<1> QED BY <1>1, <1>2, <1>3, PTL DEF Spec
-----------------------------------------------------------------------------
(* Files.  What a handler has written so far is the beginning of what its    *)
(* client sends, because nobody else writes that inode: another store of the *)
(* same name is kept out by the lock, and one that creates a file, also when *)
(* the name has been removed meanwhile, takes an inode nobody has open.      *)

Writing(h) == call[h].pc \in {"write", "next", "end"}
Storing(h) == call[h].pc \in {"first", "lock", "check", "open", "write", "next", "end"}

\* Begins, block by block.
Starts(s, v) == Len(s) <= Len(v) /\ \A i \in 1 .. Len(s) : s[i] = v[i]

\* A store sends a version, and has written the beginning of it; it ends early
\* only when its client is dead.
Written(h) ==
    /\ Storing(h) => call[h].sum \in Versions
    /\ Writing(h) => /\ Starts(disk[call[h].fd], call[h].sum)
                     /\ Len(disk[call[h].fd]) = call[h].pos
    /\ call[h].pc = "end" => call[h].pos = Len(call[h].sum) \/ call[h].client \in dead

\* The inode that a handler writes has no other writer and no other name.
OwnInode(h) ==
    Writing(h) => /\ \A f \in Files : dir[f] = call[h].fd => f = call[h].file
                  /\ \A g \in Threads : Writing(g) /\ call[g].fd = call[h].fd => g = h

\* A file is the beginning of a version, and all of it with two exceptions.
Whole(f) ==
    dir[f] # NoInode =>
        /\ \E v \in Versions : Starts(disk[dir[f]], v)
        /\ \/ disk[dir[f]] \in Versions
           \/ dead # {}
           \/ \E h \in Threads : Writing(h) /\ call[h].fd = dir[f]

FilesInv ==
    late = {} => /\ \A h \in Threads : Written(h) /\ OwnInode(h)
                 /\ \A f \in Files : Whole(f)

\* There is no file and no handler at the start.
LEMMA FilesInit == Init => FilesInv
BY IdleType DEF Init, FilesInv, Written, OwnInode, Whole, Writing, Storing

\* A content that starts a version of its length is that version, and Starts
\* says what Begins says.
LEMMA StartsBegins ==
    ASSUME NEW s \in Seq(Blocks), NEW v \in Seq(Blocks), Starts(s, v)
    PROVE  Begins(s, v) /\ (Len(s) = Len(v) => s = v)
<1>1. /\ Len(s) \in Nat /\ Len(v) \in Nat /\ Len(s) <= Len(v)
      /\ \A i \in 1 .. Len(s) : s[i] = v[i]
  BY LenProperties DEF Starts
<1>2. ASSUME NEW t \in Seq(Blocks), Len(t) = Len(s), \A i \in 1 .. Len(s) : t[i] = s[i]
      PROVE  s = t
  BY <1>2, SeqEqual
<1>3. s = SubSeq(v, 1, Len(s))
  <2>1. \A i \in 1 .. Len(s) : v[i] \in Blocks
    BY <1>1
  <2>2. /\ SubSeq(v, 1, Len(s)) \in Seq(Blocks)
        /\ Len(SubSeq(v, 1, Len(s))) = IF 1 <= Len(s) THEN Len(s) - 1 + 1 ELSE 0
        /\ \A i \in 1 .. Len(s) - 1 + 1 : SubSeq(v, 1, Len(s))[i] = v[1 + i - 1]
    BY <1>1, <2>1, SubSeqProperties
  <2>3. Len(SubSeq(v, 1, Len(s))) = Len(s)
    BY <1>1, <2>2
  <2>4. \A i \in 1 .. Len(s) : SubSeq(v, 1, Len(s))[i] = s[i]
    BY <1>1, <2>2
  <2> QED BY <2>2, <2>3, <2>4, <1>2
<1>4. Len(s) = Len(v) => s = v
  BY <1>1, <1>2
<1> QED BY <1>1, <1>3, <1>4 DEF Begins

\* The next block of a version, written after what is there.
LEMMA StartsNext ==
    ASSUME NEW s \in Seq(Blocks), NEW v \in Seq(Blocks), Starts(s, v), Len(s) < Len(v)
    PROVE  /\ Starts(Put(s, Len(s), v[Len(s) + 1]), v)
           /\ Len(Put(s, Len(s), v[Len(s) + 1])) = Len(s) + 1
<1> DEFINE n == Len(s)
           t == Put(s, n, v[n + 1])
<1>1. n \in Nat /\ Len(v) \in Nat /\ s \in [1 .. n -> Blocks]
  BY LenProperties
<1>2. t = [i \in 1 .. n + 1 |-> IF i = n + 1 THEN v[n + 1] ELSE IF i <= n THEN s[i] ELSE Hole]
  BY <1>1 DEF Put
<1>3. v[n + 1] \in Blocks /\ t \in Seq(Blocks)
  <2>1. n + 1 \in 1 .. Len(v)
    BY <1>1
  <2>2. v[n + 1] \in Blocks
    BY <2>1, ElementOfSeq
  <2> QED BY <1>1, <2>2, PutType
<1>4. Len(t) = n + 1
  <2>1. DOMAIN t = 1 .. n + 1
    BY <1>2
  <2> HIDE DEF t, n
  <2> QED BY <1>1, <1>3, <2>1, LenProperties
<1>5. \A i \in 1 .. n + 1 : t[i] = v[i]
  <2> SUFFICES ASSUME NEW i \in 1 .. n + 1 PROVE t[i] = v[i]
    OBVIOUS
  <2>1. t[i] = IF i = n + 1 THEN v[n + 1] ELSE IF i <= n THEN s[i] ELSE Hole
    BY <1>2
  <2> QED BY <1>1, <2>1 DEF Starts
<1> HIDE DEF t, n
<1>6. Starts(t, v)
  BY <1>1, <1>4, <1>5 DEF Starts, n
<1> QED BY <1>4, <1>6 DEF t, n

\* A step that leaves what thread g writes, and for whom.
SameWriter(g) ==
    /\ call'[g].pc = call[g].pc /\ call'[g].client = call[g].client
    /\ call'[g].file = call[g].file /\ call'[g].sum = call[g].sum
    /\ call'[g].fd = call[g].fd /\ call'[g].pos = call[g].pos

\* A step of the handler at h that writes nothing: names may go, and a handler
\* that stops writing leaves a version behind, or its client is dead.
LEMMA FilesStay ==
    ASSUME TypeOK, FilesInv, late = {}, NEW h \in Threads, UNCHANGED disk,
           dead \subseteq dead',
           \A f \in Files : dir'[f] \in {dir[f], NoInode},
           \A g \in Threads \ {h} : SameWriter(g),
           Written(h)',
           Writing(h)' => /\ Writing(h) /\ call'[h].fd = call[h].fd
                          /\ call'[h].file = call[h].file,
           Writing(h) /\ ~Writing(h)' => disk[call[h].fd] \in Versions \/ dead' # {}
    PROVE  FilesInv'
<1>1. /\ \A g \in Threads : Written(g) /\ OwnInode(g)
      /\ \A f \in Files : Whole(f)
  BY DEF FilesInv
<1>2. ASSUME NEW g \in Threads PROVE Written(g)'
  <2>1. CASE g = h
    BY <2>1
  <2>2. CASE g # h
    BY <1>1, <2>2 DEF Written, SameWriter, Writing, Storing
  <2> QED BY <2>1, <2>2
<1>3. \A g \in Threads : Writing(g)' => /\ Writing(g) /\ call'[g].fd = call[g].fd
                                        /\ call'[g].file = call[g].file
  BY DEF SameWriter, Writing
<1>4. \A g \in Threads : Writing(g) => call[g].fd # NoInode
  BY DEF Writing, TypeOK, LiveCalls, LiveLocals
<1>5. ASSUME NEW g \in Threads PROVE OwnInode(g)'
  BY <1>1, <1>3, <1>4 DEF OwnInode, Writing
<1>6. ASSUME NEW f \in Files PROVE Whole(f)'
  <2> SUFFICES ASSUME dir'[f] # NoInode
               PROVE  /\ \E v \in Versions : Starts(disk[dir[f]], v)
                      /\ \/ disk[dir[f]] \in Versions
                         \/ dead' # {}
                         \/ \E g \in Threads : call'[g].pc \in {"write", "next", "end"}
                                               /\ call'[g].fd = dir[f]
    BY DEF Whole, Writing
  <2>1. Whole(f) /\ dir[f] # NoInode
    BY <1>1
  <2>2. ASSUME NEW g \in Threads, Writing(g), call[g].fd = dir[f]
        PROVE  \/ disk[dir[f]] \in Versions
               \/ dead' # {}
               \/ call'[g].pc \in {"write", "next", "end"} /\ call'[g].fd = dir[f]
    <3>1. CASE g = h
      BY <2>2, <3>1 DEF Writing
    <3>2. CASE g # h
      BY <2>2, <3>2 DEF Writing, SameWriter
    <3> QED BY <3>1, <3>2
  <2> QED BY <2>1, <2>2 DEF Whole
<1> QED BY <1>2, <1>5, <1>6 DEF FilesInv

\* What a handler that returns leaves at its thread.
LEMMA FilesReply ==
    ASSUME TypeOK, NEW h \in Threads, Reply(h)
    PROVE  /\ \A g \in Threads \ {h} : SameWriter(g)
           /\ Written(h)' /\ ~Writing(h)'
BY IdleType DEF Reply, TypeOK, StateTypeOK, SameWriter, Written, Writing, Storing

\* Goto changes nothing but the label.
LEMMA FilesGoto ==
    ASSUME TypeOK, NEW h \in Threads, NEW l, Goto(h, l)
    PROVE  /\ \A g \in Threads \ {h} : SameWriter(g)
           /\ call'[h].pc = l /\ call'[h].client = call[h].client
           /\ call'[h].file = call[h].file /\ call'[h].sum = call[h].sum
           /\ call'[h].fd = call[h].fd /\ call'[h].pos = call[h].pos
BY DEF Goto, TypeOK, StateTypeOK, SameWriter, Calls

\* A handler that changes a file changes its own call and marks of others.
LEMMA FilesTouch ==
    ASSUME TypeOK, NEW h \in Threads, NEW k \in Calls, NEW f,
           call' = Touched([call EXCEPT ![h] = k], f)
    PROVE  /\ \A g \in Threads \ {h} : SameWriter(g)
           /\ call'[h].pc = k.pc /\ call'[h].client = k.client /\ call'[h].file = k.file
           /\ call'[h].sum = k.sum /\ call'[h].fd = k.fd /\ call'[h].pos = k.pos
<1> DEFINE calls == [call EXCEPT ![h] = k]
           t == Touched(calls, f)
<1>1. calls \in [Threads -> Calls] /\ calls[h] = k /\ \A g \in Threads \ {h} : calls[g] = call[g]
  BY DEF TypeOK, StateTypeOK
<1>2. call' = t
  OBVIOUS
<1> HIDE DEF calls
<1>3. \A g \in Threads :
         /\ t[g].pc = calls[g].pc /\ t[g].client = calls[g].client
         /\ t[g].file = calls[g].file /\ t[g].sum = calls[g].sum
         /\ t[g].fd = calls[g].fd /\ t[g].pos = calls[g].pos
  BY <1>1, TouchedType
<1> HIDE DEF t
<1> QED BY <1>1, <1>2, <1>3 DEF SameWriter

\* storeFile before the open, and after the last write.
LEMMA FilesStoreStart ==
    ASSUME TypeOK, FilesInv, late = {}, NEW h \in Threads,
           ReceiveFirst(h) \/ LockForStore(h) \/ CompareForStore(h)
    PROVE  FilesInv'
<1>1. /\ UNCHANGED <<dead, dir, disk>> /\ Storing(h) /\ ~Writing(h)
      /\ Reply(h) \/ Goto(h, "lock") \/ Goto(h, "check") \/ Goto(h, "open")
  BY DEF ReceiveFirst, LockForStore, CompareForStore, files, At, Storing, Writing
<1>2. CASE Reply(h)
  BY <1>1, <1>2, FilesReply, FilesStay
<1>3. ASSUME NEW l \in {"lock", "check", "open"}, Goto(h, l) PROVE FilesInv'
  <2>1. call[h].sum \in Versions
    BY <1>1 DEF FilesInv, Written
  <2>2. /\ \A g \in Threads \ {h} : SameWriter(g)
        /\ call'[h].pc = l /\ call'[h].sum = call[h].sum
    BY <1>3, FilesGoto
  <2>3. Written(h)' /\ ~Writing(h)'
    BY <2>1, <2>2 DEF Written, Writing, Storing
  <2> QED BY <1>1, <2>2, <2>3, FilesStay
<1> QED BY <1>1, <1>2, <1>3

\* ReceiveNext: the store goes on, or ends with the whole version or a death.
LEMMA FilesReceiveNext ==
    ASSUME TypeOK, LockInv, FilesInv, late = {}, NEW h \in Threads, ReceiveNext(h)
    PROVE  FilesInv'
<1>1. /\ UNCHANGED <<dead, dir, disk>> /\ call[h].pc = "next" /\ call[h] \in Calls
      /\ Written(h) /\ Writing(h) /\ Storing(h) /\ call[h].fd \in Inodes
  BY DEF ReceiveNext, At, files, FilesInv, Writing, Storing, TypeOK, StateTypeOK, LiveCalls,
     LiveLocals, Calls
<1>2. ~Awaited(h) => call[h].client \in dead
  BY <1>1 DEF LockInv, Waited, Busy, Awaited
<1>3. call[h].pos <= Len(call[h].sum)
  BY <1>1 DEF Written, Starts
<1>4. CASE ~Awaited(h) /\ Reply(h)
  <2>1. dead' # {}
    BY <1>1, <1>2, <1>4
  <2> QED BY <1>1, <1>4, <2>1, FilesReply, FilesStay
<1>5. ASSUME NEW l \in {"write", "end"}, Goto(h, l),
             l = "end" => call[h].pos = Len(call[h].sum) \/ call[h].client \in dead
      PROVE  FilesInv'
  <2>1. /\ \A g \in Threads \ {h} : SameWriter(g)
        /\ call'[h].pc = l /\ call'[h].client = call[h].client
        /\ call'[h].file = call[h].file /\ call'[h].sum = call[h].sum
        /\ call'[h].fd = call[h].fd /\ call'[h].pos = call[h].pos
    BY <1>5, FilesGoto
  <2>2. Written(h)' /\ Writing(h)'
    BY <1>1, <1>5, <2>1 DEF Written, Writing, Storing
  <2> QED BY <1>1, <2>1, <2>2, FilesStay
<1>6. call[h].pos \in Nat /\ Len(call[h].sum) \in Nat
  BY <1>1, LenType DEF Calls
<1>7. ~(call[h].pos < Len(call[h].sum)) => call[h].pos = Len(call[h].sum)
  BY <1>3, <1>6
<1> QED BY <1>2, <1>4, <1>5, <1>7 DEF ReceiveNext

\* EndStore: the file is the version that was sent, or its client is dead.
LEMMA FilesEndStore ==
    ASSUME TypeOK, FilesInv, late = {}, NEW h \in Threads, EndStore(h)
    PROVE  FilesInv'
<1>1. /\ UNCHANGED <<dead, dir, disk>> /\ call[h].pc = "end" /\ call[h] \in Calls /\ Reply(h)
      /\ Written(h) /\ Writing(h) /\ Storing(h) /\ call[h].fd \in Inodes
  BY DEF EndStore, At, files, FilesInv, Writing, Storing, TypeOK, StateTypeOK, LiveCalls,
     LiveLocals, Calls
<1>2. disk[call[h].fd] \in Versions \/ dead # {}
  <2>1. CASE call[h].client \in dead
    BY <2>1
  <2>2. CASE call[h].pos = Len(call[h].sum)
    <3>1. disk[call[h].fd] \in Seq(Blocks) /\ call[h].sum \in Seq(Blocks)
      BY <1>1 DEF TypeOK, StateTypeOK, Calls
    <3> QED BY <1>1, <2>2, <3>1, StartsBegins DEF Written
  <2> QED BY <1>1, <2>1, <2>2 DEF Written
<1> QED BY <1>1, <1>2, FilesReply, FilesStay

\* OpenForStore: the inode is that of the name, which nobody else writes while
\* this handler has the lock, or one that nobody has open.
LEMMA FilesOpen ==
    ASSUME TypeOK, LockInv, FilesInv, late = {}, NEW h \in Threads, OpenForStore(h)
    PROVE  FilesInv'
<1> DEFINE f == call[h].file
<1>1. /\ call[h].pc = "open" /\ call[h] \in Calls /\ f \in Files /\ call[h].pos = 0
      /\ call[h].sum \in Versions /\ UNCHANGED <<dead, late>> /\ call[h].sum \in Seq(Blocks)
  BY DEF OpenForStore, At, FilesInv, Written, Storing, TypeOK, StateTypeOK, LiveCalls,
     LiveLocals, clients, Calls
<1> PICK i \in Target(f) :
       /\ dir' = [dir EXCEPT ![f] = i]
       /\ disk' = [disk EXCEPT ![i] = << >>]
       /\ call' = Touched([call EXCEPT ![h].pc = "write", ![h].fd = i], f)
  BY DEF OpenForStore
<1>2. i \in Inodes /\ i # NoInode /\ i \in Nat
  BY Sentinels DEF Target
<1> DEFINE k == [call[h] EXCEPT !.pc = "write", !.fd = i]
<1>3. /\ k \in Calls /\ k.pc = "write" /\ k.fd = i /\ k.client = call[h].client
      /\ k.file = f /\ k.pos = 0 /\ k.sum = call[h].sum
  BY <1>1, <1>2 DEF Calls, Labels, LockLabels, StoreLabels
<1>4. call' = Touched([call EXCEPT ![h] = k], f)
  BY <1>1 DEF TypeOK, StateTypeOK, Calls
<1> HIDE DEF k
<1>5. /\ \A g \in Threads \ {h} : SameWriter(g)
      /\ call'[h].pc = "write" /\ call'[h].client = call[h].client /\ call'[h].file = f
      /\ call'[h].sum = call[h].sum /\ call'[h].fd = i /\ call'[h].pos = 0
  <2>1. /\ \A g \in Threads \ {h} : SameWriter(g)
        /\ call'[h].pc = k.pc /\ call'[h].client = k.client /\ call'[h].file = k.file
        /\ call'[h].sum = k.sum /\ call'[h].fd = k.fd /\ call'[h].pos = k.pos
    <3>1. k \in Calls
      BY <1>3
    <3> QED BY <3>1, <1>4, FilesTouch, ZenonT(60)
  <2> QED BY <1>3, <2>1
<1>6. /\ dir' = [dir EXCEPT ![f] = i] /\ disk' = [disk EXCEPT ![i] = << >>]
      /\ dir \in [Files -> Inodes \cup {NoInode}] /\ disk \in [Inodes -> Seq(Blocks)]
      /\ \A a, b \in Files : dir[a] = dir[b] /\ dir[a] # NoInode => a = b
  BY DEF TypeOK, StateTypeOK, LiveCalls
<1>7. /\ \A g \in Threads : Written(g) /\ OwnInode(g)
      /\ \A e \in Files : Whole(e)
  BY DEF FilesInv
<1>8. StoresExclude
  BY LockExcludes
<1>9. ASSUME NEW g \in Threads \ {h}, Writing(g) PROVE call[g].fd # i
  <2>1. CASE dir[f] # NoInode
    <3> SUFFICES ASSUME call[g].fd = i PROVE FALSE
      OBVIOUS
    <3>1. dir[f] = i
      BY <2>1 DEF Target
    <3>2. f = call[g].file
      BY <1>1, <1>7, <1>9, <3>1 DEF OwnInode
    <3> QED BY <1>1, <1>8, <1>9, <3>2 DEF StoresExclude, OneWriter, Writing, StoreLabels
  <2>2. CASE dir[f] = NoInode
    BY <2>2 DEF Target, InUse
  <2> QED BY <2>1, <2>2
<1>10. ASSUME NEW e \in Files, e # f PROVE dir[e] # i /\ dir'[e] = dir[e]
  <2>1. dir[f] = i \/ \A g \in Files : dir[g] # i
    BY DEF Target, InUse
  <2> QED BY <1>1, <1>2, <1>6, <1>10, <2>1
<1> HIDE DEF f
<1>11. ASSUME NEW g \in Threads PROVE Written(g)'
  <2>1. CASE g = h
    <3>1. disk'[i] = << >>
      BY <1>2, <1>6
    <3>2. Len(<< >>) = 0 /\ 0 <= Len(call[h].sum)
      BY <1>1, EmptyType, LenType
    <3>3. Starts(disk'[i], call[h].sum) /\ Len(disk'[i]) = 0
      BY <3>1, <3>2 DEF Starts
    <3> QED BY <1>1, <1>5, <2>1, <3>3 DEF Written, Writing, Storing
  <2>2. CASE g # h
    <3>1. Written(g) /\ SameWriter(g)
      BY <1>5, <1>7, <2>2
    <3>2. Writing(g) => disk'[call[g].fd] = disk[call[g].fd]
      <4>1. Writing(g) => call[g].fd # i /\ call[g].fd \in Inodes
        BY <1>9, <2>2 DEF Writing, TypeOK, StateTypeOK, LiveCalls, LiveLocals, Calls
      <4> QED BY <1>6, <4>1
    <3> QED BY <1>1, <3>1, <3>2 DEF Written, Writing, Storing, SameWriter
  <2> QED BY <2>1, <2>2
<1>12. ASSUME NEW g \in Threads PROVE OwnInode(g)'
  <2>1. ASSUME NEW j \in Threads \ {h}
        PROVE  call'[j].pc = call[j].pc /\ call'[j].fd = call[j].fd
               /\ call'[j].file = call[j].file
    BY <1>5, <2>1 DEF SameWriter
  <2>2. dir'[f] = i
    BY <1>1, <1>6
  <2>3. CASE g = h
    <3>1. \A e \in Files : dir'[e] = call'[g].fd => e = call'[g].file
      BY <1>5, <1>10, <2>3
    <3>2. \A j \in Threads : Writing(j)' /\ call'[j].fd = call'[g].fd => j = g
      BY <1>5, <1>9, <2>1, <2>3, ZenonT(60) DEF Writing
    <3> QED BY <3>1, <3>2 DEF OwnInode, Writing
  <2>4. CASE g # h
    <3> SUFFICES ASSUME Writing(g)
                 PROVE  /\ \A e \in Files : dir'[e] = call[g].fd => e = call[g].file
                        /\ \A j \in Threads :
                              call'[j].pc \in {"write", "next", "end"} /\ call'[j].fd = call[g].fd
                                 => j = g
      BY <2>1, <2>4 DEF OwnInode, Writing
    <3>1. call[g].fd # i /\ OwnInode(g)
      BY <1>7, <1>9, <2>4
    <3>2. \A e \in Files : dir'[e] = call[g].fd => e = call[g].file
      BY <1>10, <2>2, <3>1 DEF OwnInode
    <3>3. \A j \in Threads :
             call'[j].pc \in {"write", "next", "end"} /\ call'[j].fd = call[g].fd => j = g
      BY <1>5, <2>1, <3>1 DEF OwnInode, Writing
    <3> QED BY <3>2, <3>3
  <2> QED BY <2>3, <2>4
<1>13. ASSUME NEW e \in Files PROVE Whole(e)'
  <2>1. CASE e = f
    <3>1. dir'[e] = i /\ disk'[i] = << >> /\ Writing(h)' /\ call'[h].fd = i
      BY <1>2, <1>5, <1>6, <2>1 DEF Writing
    <3>2. \E v \in Versions : Starts(disk'[i], v)
      <4>1. Starts(disk'[i], call[h].sum)
        BY <1>1, <3>1, EmptyType, LenType DEF Starts
      <4> QED BY <1>1, <4>1
    <3> QED BY <3>1, <3>2 DEF Whole
  <2>2. CASE e # f
    <3> SUFFICES ASSUME dir[e] # NoInode
                 PROVE  /\ \E v \in Versions : Starts(disk'[dir[e]], v)
                        /\ \/ disk'[dir[e]] \in Versions
                           \/ dead' # {}
                           \/ \E g \in Threads : call'[g].pc \in {"write", "next", "end"}
                                                 /\ call'[g].fd = dir[e]
      BY <1>10, <2>2 DEF Whole, Writing
    <3>1. dir[e] # i /\ dir[e] \in Inodes /\ Whole(e)
      BY <1>6, <1>7, <1>10, <2>2
    <3>2. disk'[dir[e]] = disk[dir[e]]
      BY <1>6, <3>1
    <3>3. ASSUME NEW g \in Threads, Writing(g), call[g].fd = dir[e]
          PROVE  call'[g].pc \in {"write", "next", "end"} /\ call'[g].fd = dir[e]
      <4>1. g # h
        BY <1>1, <3>3 DEF Writing
      <4> QED BY <1>5, <3>3, <4>1 DEF SameWriter, Writing
    <3> QED BY <1>1, <3>1, <3>2, <3>3 DEF Whole
  <2> QED BY <2>1, <2>2
<1> QED BY <1>11, <1>12, <1>13 DEF FilesInv

\* WriteBlock: the next block of the version goes to the end of what is there,
\* and no other handler or name has that inode.
LEMMA FilesWrite ==
    ASSUME TypeOK, FilesInv, late = {}, NEW h \in Threads, WriteBlock(h)
    PROVE  FilesInv'
<1> DEFINE i == call[h].fd
           p == call[h].pos
           v == call[h].sum
           t == Put(disk[i], p, v[p + 1])
<1>1. /\ call[h].pc = "write" /\ call[h] \in Calls /\ call[h].file \in Files
      /\ Writing(h) /\ Storing(h) /\ UNCHANGED <<dead, dir>>
      /\ i \in Inodes /\ p \in Nat /\ p < Len(v) /\ v \in Seq(Blocks)
      /\ disk \in [Inodes -> Seq(Blocks)] /\ dir \in [Files -> Inodes \cup {NoInode}]
  BY DEF WriteBlock, At, clients, Writing, Storing, TypeOK, StateTypeOK, LiveCalls,
     LiveLocals, Calls
<1>2. /\ \A g \in Threads : Written(g) /\ OwnInode(g)
      /\ \A f \in Files : Whole(f)
  BY DEF FilesInv
<1> DEFINE k == [call[h] EXCEPT !.pc = "next", !.pos = @ + 1]
<1>3. /\ k \in Calls /\ k.pc = "next" /\ k.fd = i /\ k.client = call[h].client
      /\ k.file = call[h].file /\ k.pos = p + 1 /\ k.sum = v
  <2>1. "next" \in Labels /\ p + 1 \in Nat
    BY <1>1 DEF Labels, LockLabels, StoreLabels
  <2> QED BY <1>1, <2>1 DEF Calls
<1>4. /\ call' = Touched([call EXCEPT ![h] = k], call[h].file)
      /\ disk' = [disk EXCEPT ![i] = t]
  BY <1>1 DEF TypeOK, StateTypeOK, Calls, WriteBlock
<1> HIDE DEF k
<1>5. /\ \A g \in Threads \ {h} : SameWriter(g)
      /\ call'[h].pc = "next" /\ call'[h].client = call[h].client
      /\ call'[h].file = call[h].file /\ call'[h].sum = v /\ call'[h].fd = i
      /\ call'[h].pos = p + 1
  BY <1>1, <1>3, <1>4, FilesTouch
<1>6. Starts(t, v) /\ Len(t) = p + 1
  <2>1. Starts(disk[i], v) /\ Len(disk[i]) = p /\ disk[i] \in Seq(Blocks)
    BY <1>1, <1>2 DEF Written
  <2> QED BY <1>1, <2>1, StartsNext
<1>7. disk'[i] = t /\ \A j \in Inodes \ {i} : disk'[j] = disk[j]
  BY <1>1, <1>4
<1>8. v \in Versions
  BY <1>1, <1>2 DEF Written
<1>9. \A g \in Threads : /\ Writing(g)' <=> Writing(g)
                         /\ call'[g].fd = call[g].fd /\ call'[g].file = call[g].file
  BY <1>1, <1>5 DEF Writing, SameWriter
<1> HIDE DEF i, p, v, t
<1>10. ASSUME NEW g \in Threads PROVE Written(g)'
  <2>1. CASE g = h
    BY <1>5, <1>6, <1>7, <1>8, <2>1 DEF Written, Writing, Storing
  <2>2. CASE g # h
    <3>1. Written(g) /\ SameWriter(g)
      BY <1>2, <1>5, <2>2
    <3>2. Writing(g) => disk'[call[g].fd] = disk[call[g].fd]
      <4>1. Writing(g) => call[g].fd # i
        BY <1>1, <1>2, <2>2 DEF OwnInode, i
      <4>2. Writing(g) => call[g].fd \in Inodes
        BY DEF Writing, TypeOK, StateTypeOK, LiveCalls, LiveLocals, Calls
      <4> QED BY <1>7, <4>1, <4>2
    <3> QED BY <1>1, <3>1, <3>2 DEF Written, Writing, Storing, SameWriter
  <2> QED BY <2>1, <2>2
<1>11. ASSUME NEW g \in Threads PROVE OwnInode(g)'
  <2>1. OwnInode(g) /\ dir' = dir
    BY <1>1, <1>2
  <2>2. \A j \in Threads : /\ call'[j].pc \in {"write", "next", "end"} => Writing(j)
                            /\ call'[j].fd = call[j].fd /\ call'[j].file = call[j].file
    BY <1>9 DEF Writing
  <2> SUFFICES ASSUME Writing(g)
               PROVE  /\ \A f \in Files : dir[f] = call[g].fd => f = call[g].file
                      /\ \A j \in Threads : Writing(j) /\ call[j].fd = call[g].fd => j = g
    BY <2>1, <2>2 DEF OwnInode, Writing
  <2> QED BY <2>1 DEF OwnInode
<1>12. ASSUME NEW f \in Files PROVE Whole(f)'
  <2> SUFFICES ASSUME dir[f] # NoInode
               PROVE  /\ \E w \in Versions : Starts(disk'[dir[f]], w)
                      /\ \/ disk'[dir[f]] \in Versions
                         \/ dead # {}
                         \/ \E g \in Threads : Writing(g) /\ call[g].fd = dir[f]
    BY <1>1, <1>9 DEF Whole, Writing
  <2>1. CASE dir[f] = i
    <3>1. \E g \in Threads : Writing(g) /\ call[g].fd = dir[f]
      BY <1>1, <2>1 DEF i
    <3> QED BY <1>6, <1>7, <1>8, <2>1, <3>1
  <2>2. CASE dir[f] # i
    <3>1. disk'[dir[f]] = disk[dir[f]]
      BY <1>1, <1>7, <2>2
    <3> QED BY <1>2, <3>1 DEF Whole
  <2> QED BY <2>1, <2>2
<1> QED BY <1>10, <1>11, <1>12 DEF FilesInv

\* fetchFile changes no file, and its handlers do not store.
LEMMA FilesFetch ==
    ASSUME TypeOK, FilesInv, late = {}, NEW h \in Threads,
           OpenForFetch(h) \/ CompareForFetch(h) \/ SendBlock(h) \/ EndFetch(h)
    PROVE  FilesInv'
<1>1. UNCHANGED <<dead, dir, disk>> /\ ~Writing(h)
  BY DEF OpenForFetch, CompareForFetch, SendBlock, EndFetch, At, files, Writing
<1>2. CASE Reply(h)
  BY <1>1, <1>2, FilesReply, FilesStay
<1>3. CASE ~Reply(h)
  <2>1. (\A g \in Threads \ {h} : SameWriter(g)) /\ call'[h].pc \in {"compare", "send"}
    BY <1>3 DEF OpenForFetch, CompareForFetch, SendBlock, EndFetch, TypeOK, StateTypeOK,
       SameWriter, Calls, At
  <2>2. Written(h)' /\ ~Writing(h)'
    BY <2>1 DEF Written, Writing, Storing
  <2> QED BY <1>1, <2>1, <2>2, FilesStay
<1> QED BY <1>2, <1>3

\* deleteFile takes a name away from its inode; requestLock changes no file.
LEMMA FilesDelete ==
    ASSUME TypeOK, FilesInv, late = {}, NEW h \in Threads,
           RemoveFile(h) \/ LockForDelete(h) \/ EndDelete(h) \/ GrantLock(h)
    PROVE  FilesInv'
<1>1. /\ UNCHANGED <<dead, disk>> /\ ~Writing(h) /\ call[h] \in Calls
      /\ \A f \in Files : dir'[f] \in {dir[f], NoInode}
  BY DEF RemoveFile, LockForDelete, EndDelete, GrantLock, At, files, Writing, TypeOK,
     StateTypeOK
<1>2. CASE Reply(h)
  BY <1>1, <1>2, FilesReply, FilesStay
<1>3. CASE Goto(h, "unlock")
  <2>1. (\A g \in Threads \ {h} : SameWriter(g)) /\ call'[h].pc = "unlock"
    BY <1>3, FilesGoto
  <2>2. Written(h)' /\ ~Writing(h)'
    BY <2>1 DEF Written, Writing, Storing
  <2> QED BY <1>1, <2>1, <2>2, FilesStay
<1>4. CASE call' = Touched([call EXCEPT ![h].pc = "locking"], call[h].file)
  <2> DEFINE k == [call[h] EXCEPT !.pc = "locking"]
  <2>1. k \in Calls /\ k.pc = "locking"
    BY <1>1 DEF Calls, Labels
  <2>2. call' = Touched([call EXCEPT ![h] = k], call[h].file)
    BY <1>4
  <2> HIDE DEF k
  <2>3. (\A g \in Threads \ {h} : SameWriter(g)) /\ call'[h].pc = "locking"
    BY <2>1, <2>2, FilesTouch
  <2>4. Written(h)' /\ ~Writing(h)'
    BY <2>3 DEF Written, Writing, Storing
  <2> QED BY <1>1, <2>3, <2>4, FilesStay
<1> QED BY <1>2, <1>3, <1>4 DEF RemoveFile, LockForDelete, EndDelete, GrantLock

\* A call reaches an idle thread; a store brings a version.
LEMMA FilesStartCall ==
    ASSUME TypeOK, FilesInv, late = {}, NEW c \in Clients, NEW h \in Threads, NEW f \in Files,
           NEW l \in {"first", "fetch", "remove", "ask"}, NEW s,
           l = "first" => s \in Versions, StartCall(c, h, l, f, s)
    PROVE  FilesInv'
<1>1. UNCHANGED <<dead, dir, disk>> /\ ~Writing(h)
  BY DEF StartCall, At, files, Writing
<1>2. (\A g \in Threads \ {h} : SameWriter(g)) /\ call'[h].pc = l /\ call'[h].sum = s
  BY DEF StartCall, TypeOK, StateTypeOK, IdleCall, SameWriter
<1>3. Written(h)' /\ ~Writing(h)'
  BY <1>2 DEF Written, Writing, Storing
<1> QED BY <1>1, <1>2, <1>3, FilesStay

\* Every step keeps FilesInv: one case per action.
LEMMA FilesNext == TypeOK /\ LockInv /\ FilesInv /\ [Next]_vars => FilesInv'
<1> SUFFICES ASSUME TypeOK, LockInv, FilesInv, [Next]_vars PROVE FilesInv'
  OBVIOUS
<1>1. ASSUME NEW c \in Clients, ClientStep(c) PROVE FilesInv'
  <2>1. CASE TimeOut(c)
    <3>1. late' # {}
      BY <2>1 DEF TimeOut
    <3> QED BY <3>1 DEF FilesInv
  <2>2. CASE Die(c)
    <3>1. UNCHANGED <<late, dir, disk, call>> /\ dead' = dead \cup {c}
      BY <2>2 DEF Die, files
    <3> QED BY <3>1 DEF FilesInv, Written, OwnInode, Whole, Writing, Storing
  <2>3. ASSUME NEW h \in Threads, NEW f \in Files,
               \/ Store(c, h, f) \/ Fetch(c, h, f) \/ Delete(c, h, f)
               \/ RequestWriteAccess(c, h, f)
        PROVE  FilesInv'
    <3>1. \E l \in {"first", "fetch", "remove", "ask"} : \E s :
             (l = "first" => s \in Versions) /\ StartCall(c, h, l, f, s)
      BY <2>3 DEF Store, Fetch, Delete, RequestWriteAccess
    <3>2. UNCHANGED late
      BY <3>1 DEF StartCall
    <3> QED BY <3>1, <3>2, FilesStartCall DEF FilesInv
  <2> QED BY <1>1, <2>1, <2>2, <2>3 DEF ClientStep
<1>2. ASSUME NEW h \in Threads, HandlerStep(h) PROVE FilesInv'
  <2>1. UNCHANGED late
    BY <1>2 DEF HandlerStep, ReceiveFirst, LockForStore, CompareForStore, OpenForStore,
       WriteBlock, ReceiveNext, EndStore, OpenForFetch, CompareForFetch, SendBlock, EndFetch,
       RemoveFile, LockForDelete, EndDelete, GrantLock, clients
  <2> SUFFICES ASSUME late = {} PROVE FilesInv'
    BY <2>1 DEF FilesInv
  <2> QED BY <1>2, FilesStoreStart, FilesOpen, FilesWrite, FilesReceiveNext, FilesEndStore,
          FilesFetch, FilesDelete DEF HandlerStep
<1>3. CASE UNCHANGED vars
  BY <1>3 DEF vars, FilesInv, Written, OwnInode, Whole, Writing, Storing
<1> QED BY <1>1, <1>2, <1>3 DEF Next

\* What FilesInv says of inodes is what ServerFileWhole says of contents.
LEMMA FilesWhole == TypeOK /\ FilesInv /\ late = {} => ServerFileWhole
<1> SUFFICES ASSUME TypeOK, FilesInv, late = {}, NEW f \in Files, Content(f) # Absent
             PROVE  /\ \E v \in Versions : Begins(Content(f), v)
                    /\ \/ Content(f) \in Versions
                       \/ dead # {}
                       \/ \E h \in Threads : call[h].pc \in StoreLabels /\ call[h].fd = dir[f]
  BY DEF ServerFileWhole
<1>1. dir[f] # NoInode /\ Content(f) = disk[dir[f]] /\ Whole(f)
  BY DEF Content, FilesInv
<1>2. disk[dir[f]] \in Seq(Blocks)
  BY <1>1 DEF TypeOK, StateTypeOK
<1>3. PICK v \in Versions : Starts(disk[dir[f]], v)
  BY <1>1 DEF Whole
<1>4. v \in Seq(Blocks)
  BY DfsAssumption
<1>5. Begins(Content(f), v)
  BY <1>1, <1>2, <1>3, <1>4, StartsBegins
<1>6. \/ Content(f) \in Versions
      \/ dead # {}
      \/ \E h \in Threads : call[h].pc \in StoreLabels /\ call[h].fd = dir[f]
  BY <1>1 DEF Whole, Writing, StoreLabels
<1> QED BY <1>5, <1>6

\* Once a client has gone on after a deadline, ServerFileWhole claims nothing.
LEMMA LateWhole == late # {} => ServerFileWhole
BY DEF ServerFileWhole

\* A file on the server is never a mixture of two stores, and it is a whole
\* version unless its store is going on or a client died, for any interleaving
\* of stores, fetches, deletes and lock requests of clients that wait for answers.
THEOREM FilesAreWhole == Spec => []ServerFileWhole
<1>1. Init => TypeOK /\ LockInv /\ FilesInv
  BY TypeInit, LockInit, FilesInit
<1>2. TypeOK /\ LockInv /\ FilesInv /\ [Next]_vars => (TypeOK /\ LockInv /\ FilesInv)'
  BY TypeNext, LockNext, FilesNext
<1>3. TypeOK /\ FilesInv => ServerFileWhole
  BY FilesWhole, LateWhole
<1> QED BY <1>1, <1>2, <1>3, PTL DEF Spec
-----------------------------------------------------------------------------
(* Fetches.                                                                 *)

\* A fetch that has the server's file open, and nobody has changed it since.
Fetching(h) == call[h].pc \in {"compare", "send"} /\ ~call[h].touched

\* It reads the file that has the name, and its client has the beginning of it.
Fetched(h) ==
    LET k == call[h] IN
    Fetching(h) =>
        /\ dir[k.file] = k.fd /\ k.fd # NoInode
        /\ k.pc = "send" =>
              /\ k.size = Len(disk[k.fd]) /\ k.pos <= k.size
              /\ k.pos > 0 /\ Awaited(h) =>
                    /\ Len(local[k.client][k.file]) = k.pos
                    /\ Starts(local[k.client][k.file], disk[k.fd])

\* An inode that is being written has no other name than its writer's.
NameOwned(h) == Writing(h) => \A f \in Files : dir[f] = call[h].fd => f = call[h].file

FetchInv == \A h \in Threads : Fetched(h) /\ NameOwned(h)

\* A step of others that the fetch at h does not notice, unless it marks it.
SameFetch(h) ==
    /\ SameWriter(h) /\ call'[h].size = call[h].size
    /\ Fetching(h)' => /\ Fetching(h)
                       /\ dir'[call[h].file] = dir[call[h].file]
                       /\ disk'[call[h].fd] = disk[call[h].fd]
    /\ Awaited(h)' => Awaited(h) /\ local'[call[h].client] = local[call[h].client]

\* There is no handler at the start.
LEMMA FetchInit == Init => FetchInv
BY IdleType DEF Init, FetchInv, Fetched, NameOwned, Fetching, Writing

\* What is not noticed leaves the fetch as it was.
LEMMA FetchKept ==
    ASSUME TypeOK, NEW h \in Threads, Fetched(h), SameFetch(h)
    PROVE  Fetched(h)'
<1> SUFFICES ASSUME Fetching(h)' PROVE Fetched(h)'
  BY DEF Fetched
<1> DEFINE c == call[h].client
           f == call[h].file
           i == call[h].fd
<1>1. /\ Fetching(h) /\ dir'[f] = dir[f] /\ disk'[i] = disk[i]
      /\ Awaited(h)' => Awaited(h) /\ local'[c] = local[c]
      /\ call'[h].pc = call[h].pc /\ call'[h].client = c /\ call'[h].file = f
      /\ call'[h].fd = i /\ call'[h].pos = call[h].pos /\ call'[h].size = call[h].size
  BY DEF SameFetch, SameWriter
<1>2. /\ dir[f] = i /\ i # NoInode
      /\ call[h].pc = "send" =>
            /\ call[h].size = Len(disk[i]) /\ call[h].pos <= call[h].size
            /\ call[h].pos > 0 /\ Awaited(h) =>
                  Len(local[c][f]) = call[h].pos /\ Starts(local[c][f], disk[i])
  BY <1>1 DEF Fetched
<1> SUFFICES /\ dir'[f] = i /\ i # NoInode
             /\ call[h].pc = "send" =>
                   /\ call[h].size = Len(disk'[i]) /\ call[h].pos <= call[h].size
                   /\ call[h].pos > 0 /\ Awaited(h)' =>
                         /\ Len(local'[c][f]) = call[h].pos
                         /\ Starts(local'[c][f], disk'[i])
  BY <1>1 DEF Fetched, Starts
<1> QED BY <1>1, <1>2

\* A step that writes no file leaves the writers the names they had.
LEMMA NamesKept ==
    ASSUME TypeOK, NEW h \in Threads, NameOwned(h),
           \A f \in Files : dir'[f] \in {dir[f], NoInode},
           Writing(h)' => /\ Writing(h) /\ call'[h].fd = call[h].fd
                          /\ call'[h].file = call[h].file
    PROVE  NameOwned(h)'
<1>1. Writing(h) => call[h].fd # NoInode
  BY DEF Writing, TypeOK, LiveCalls, LiveLocals
<1> QED BY <1>1 DEF NameOwned, Writing

\* A handler that changes a file marks the fetches that have it open.
LEMMA FetchMarked ==
    ASSUME TypeOK, NEW g \in Threads, NEW k, NEW f,
           call' = Touched([call EXCEPT ![g] = k], f), NEW h \in Threads \ {g}
    PROVE  /\ SameWriter(h) /\ call'[h].size = call[h].size
           /\ Fetching(h)' => Fetching(h) /\ call[h].file # f
<1>1. call[h] \in Calls
  BY DEF TypeOK, StateTypeOK
<1>2. call'[h] = IF call[h].file = f /\ call[h].pc \in {"compare", "send"}
                 THEN [call[h] EXCEPT !.touched = TRUE] ELSE call[h]
  BY DEF Touched, TypeOK, StateTypeOK
<1>3. call[h].file = f /\ call[h].pc \in {"compare", "send"} => call'[h].touched
  BY <1>1, <1>2 DEF Calls
<1>4. call'[h] = call[h] \/ call'[h].touched
  BY <1>2, <1>3
<1>5. SameWriter(h) /\ call'[h].size = call[h].size
  BY <1>1, <1>2 DEF SameWriter, Calls
<1> QED BY <1>3, <1>4, <1>5 DEF Fetching, SameWriter

\* A handler's own step, when it is no step of a fetch: it ends no longer in one.
LEMMA FetchOwn ==
    ASSUME TypeOK, NEW g \in Threads,
           call'[g].pc \notin {"compare", "send"}
    PROVE  Fetched(g)'
BY DEF Fetched, Fetching

\* The steps of others that change no file.  A client's file is changed by the
\* handler that it waits for.
LEMMA FetchAside ==
    ASSUME TypeOK, FetchInv, NEW g \in Threads, UNCHANGED <<dir, disk>>,
           \A h \in Threads \ {g} : call'[h] = call[h],
           \A c \in Clients : waits'[c] \in {waits[c], NoThread, g},
           \A c \in Clients : local'[c] = local[c] \/ waits[c] \in {g, NoThread},
           Fetched(g)',
           Writing(g)' => /\ Writing(g) /\ call'[g].fd = call[g].fd
                          /\ call'[g].file = call[g].file
    PROVE  FetchInv'
<1>1. ASSUME NEW h \in Threads \ {g} PROVE Fetched(h)'
  <2>1. Awaited(h)' /\ Fetching(h)' => Awaited(h) /\ local'[call[h].client] = local[call[h].client]
    <3> SUFFICES ASSUME Awaited(h)', Fetching(h)'
                 PROVE  Awaited(h) /\ local'[call[h].client] = local[call[h].client]
      OBVIOUS
    <3>1. call[h].client \in Clients /\ h # NoThread
      BY Sentinels DEF TypeOK, LiveCalls, LiveLocals, Fetching
    <3>2. waits'[call[h].client] = h
      BY DEF Awaited
    <3>3. waits[call[h].client] = h
      BY <3>1, <3>2
    <3> QED BY <3>1, <3>3 DEF Awaited
  <2>2. CASE Fetching(h)'
    <3>1. SameFetch(h)
      BY <2>1, <2>2 DEF SameFetch, SameWriter, Fetching
    <3> QED BY <3>1, FetchKept DEF FetchInv
  <2> QED BY <2>2 DEF Fetched
<1>2. ASSUME NEW h \in Threads PROVE NameOwned(h)'
  <2>1. Writing(h)' => /\ Writing(h) /\ call'[h].fd = call[h].fd
                       /\ call'[h].file = call[h].file
    BY DEF Writing
  <2> QED BY <2>1, NamesKept DEF FetchInv
<1> QED BY <1>1, <1>2 DEF FetchInv

\* The handler at g returns.
LEMMA FetchReply ==
    ASSUME TypeOK, FetchInv, NEW g \in Threads, Reply(g), UNCHANGED <<dir, disk>>,
           \A c \in Clients : local'[c] = local[c] \/ waits[c] = g
    PROVE  FetchInv'
<1>1. /\ call'[g].pc = "idle" /\ \A h \in Threads \ {g} : call'[h] = call[h]
      /\ \A c \in Clients : waits'[c] \in {waits[c], NoThread}
  BY IdleType DEF Reply, TypeOK, StateTypeOK
<1>2. ~Writing(g)' /\ Fetched(g)'
  BY <1>1, FetchOwn DEF Writing
<1> QED BY <1>1, <1>2, FetchAside

\* The handler at g goes on, and not with a fetch.
LEMMA FetchGoto ==
    ASSUME TypeOK, FetchInv, NEW g \in Threads, NEW l, Goto(g, l),
           UNCHANGED <<dir, disk, waits, local>>, l \notin {"compare", "send"},
           l \in {"write", "next", "end"} => Writing(g)
    PROVE  FetchInv'
<1>1. /\ call'[g].pc = l /\ call'[g].fd = call[g].fd /\ call'[g].file = call[g].file
      /\ \A h \in Threads \ {g} : call'[h] = call[h]
  BY DEF Goto, TypeOK, StateTypeOK, Calls
<1>2. Fetched(g)'
  BY <1>1, FetchOwn
<1> QED BY <1>1, <1>2, FetchAside DEF Writing

\* A call reaches an idle thread.
LEMMA FetchStartCall ==
    ASSUME TypeOK, FetchInv, NEW c \in Clients, NEW g \in Threads, NEW f,
           NEW l \in {"first", "fetch", "remove", "ask"}, NEW s, StartCall(c, g, l, f, s),
           \A d \in Clients \ {c} : local'[d] = local[d]
    PROVE  FetchInv'
<1>1. /\ waits[c] = NoThread /\ UNCHANGED <<dir, disk>> /\ call'[g].pc = l
      /\ \A h \in Threads \ {g} : call'[h] = call[h]
      /\ \A d \in Clients : waits'[d] \in {waits[d], g}
  BY DEF StartCall, files, TypeOK, StateTypeOK, IdleCall
<1>2. ~Writing(g)' /\ Fetched(g)'
  BY <1>1, FetchOwn DEF Writing
<1> QED BY <1>1, <1>2, FetchAside

\* A client stops to wait, or dies.
LEMMA FetchGiveUp ==
    ASSUME TypeOK, FetchInv, NEW c \in Clients, TimeOut(c) \/ Die(c)
    PROVE  FetchInv'
<1>1. /\ UNCHANGED <<dir, disk, call, local>>
      /\ \A d \in Clients : waits'[d] \in {waits[d], NoThread}
  BY DEF TimeOut, Die, files, TypeOK, StateTypeOK
<1>2. ASSUME NEW h \in Threads PROVE Fetched(h)'
  <2>1. CASE Fetching(h)'
    <3>1. call[h].client \in Clients /\ h # NoThread
      BY <1>1, <2>1, Sentinels DEF TypeOK, LiveCalls, LiveLocals, Fetching
    <3>2. Awaited(h)' => Awaited(h)
      BY <1>1, <3>1 DEF Awaited
    <3>3. SameFetch(h)
      BY <1>1, <2>1, <3>2 DEF SameFetch, SameWriter, Fetching
    <3> QED BY <3>3, FetchKept DEF FetchInv
  <2> QED BY <2>1 DEF Fetched
<1>3. \A h \in Threads : NameOwned(h)'
  BY <1>1 DEF FetchInv, NameOwned, Writing
<1> QED BY <1>2, <1>3 DEF FetchInv

\* fetchFile opens the file that has the name.
LEMMA FetchOpen ==
    ASSUME TypeOK, FetchInv, NEW g \in Threads, OpenForFetch(g)
    PROVE  FetchInv'
<1>1. UNCHANGED <<dir, disk, local>>
  BY DEF OpenForFetch, files
<1>2. CASE Reply(g)
  BY <1>1, <1>2, FetchReply
<1>3. CASE ~Reply(g)
  <2> DEFINE f == call[g].file
  <2>1. /\ call' = [call EXCEPT ![g].pc = "compare", ![g].fd = dir[f]]
        /\ dir[f] # NoInode /\ UNCHANGED waits
    BY <1>3 DEF OpenForFetch
  <2>2. /\ call'[g].pc = "compare" /\ call'[g].fd = dir[f] /\ call'[g].file = f
        /\ \A h \in Threads \ {g} : call'[h] = call[h]
    BY <2>1 DEF TypeOK, StateTypeOK, Calls
  <2>3. Fetched(g)'
    BY <1>1, <2>1, <2>2 DEF Fetched
  <2>4. ~Writing(g)'
    BY <2>2 DEF Writing
  <2> QED BY <1>1, <2>1, <2>2, <2>3, <2>4, FetchAside
<1> QED BY <1>2, <1>3

\* It takes the size of that file.
LEMMA FetchCompare ==
    ASSUME TypeOK, FetchInv, NEW g \in Threads, CompareForFetch(g)
    PROVE  FetchInv'
<1>1. UNCHANGED <<dir, disk, local>>
  BY DEF CompareForFetch, files
<1>2. CASE Reply(g)
  BY <1>1, <1>2, FetchReply
<1>3. CASE ~Reply(g)
  <2> DEFINE f == call[g].file
  <2>1. PICK n \in IF Content(f) = Absent THEN Sizes ELSE {Len(Content(f))} :
           call' = [call EXCEPT ![g].pc = "send", ![g].size = n]
    BY <1>3 DEF CompareForFetch
  <2>2. UNCHANGED waits /\ call[g].pc = "compare" /\ call[g].pos = 0 /\ call[g].fd # NoInode
    BY <1>3 DEF CompareForFetch, At, TypeOK, LiveCalls, LiveLocals
  <2>3. /\ call'[g].pc = "send" /\ call'[g].fd = call[g].fd /\ call'[g].file = f
        /\ call'[g].size = n /\ call'[g].pos = 0 /\ call'[g].touched = call[g].touched
        /\ \A h \in Threads \ {g} : call'[h] = call[h]
    BY <2>1, <2>2 DEF TypeOK, StateTypeOK, Calls
  <2>4. Fetched(g)'
    <3> SUFFICES ASSUME ~call[g].touched
                 PROVE  /\ dir[f] = call[g].fd /\ call[g].fd # NoInode
                        /\ n = Len(disk[call[g].fd]) /\ 0 <= n
      BY <1>1, <2>3 DEF Fetched, Fetching
    <3>1. dir[f] = call[g].fd /\ call[g].fd # NoInode
      BY <2>2 DEF FetchInv, Fetched, Fetching
    <3>2. call[g].fd \in Inodes /\ disk[call[g].fd] \in Seq(Blocks)
      BY <3>1 DEF TypeOK, StateTypeOK, Calls
    <3>3. Content(f) = disk[call[g].fd] /\ Content(f) # Absent
      BY <3>1, <3>2, DfsAssumption DEF Content
    <3> QED BY <2>1, <3>1, <3>2, <3>3
  <2>5. ~Writing(g)'
    BY <2>3 DEF Writing
  <2> QED BY <1>1, <2>2, <2>3, <2>4, <2>5, FetchAside
<1> QED BY <1>2, <1>3

\* It sends the next block, and its client puts it behind the ones it has.
LEMMA FetchSend ==
    ASSUME TypeOK, FetchInv, NEW g \in Threads, SendBlock(g)
    PROVE  FetchInv'
<1> DEFINE c == call[g].client
           f == call[g].file
           p == call[g].pos
           i == call[g].fd
           good == i # NoInode /\ p < Len(disk[i])
           block == IF good THEN disk[i][p + 1] ELSE Junk
           old == IF p = 0 THEN << >> ELSE local[c][f]
<1>1. /\ call[g].pc = "send" /\ c \in Clients /\ f \in Files /\ p \in Nat /\ p < call[g].size
      /\ i \in Inodes \cup {NoInode} /\ UNCHANGED <<dir, disk, waits>>
      /\ call' = [call EXCEPT ![g].pos = @ + 1, ![g].fd = IF good THEN @ ELSE NoInode]
      /\ local' = IF Awaited(g) THEN [local EXCEPT ![c][f] = Put(old, p, block)] ELSE local
  BY DEF SendBlock, At, files, TypeOK, StateTypeOK, LiveCalls, LiveLocals, Calls
<1>2. /\ call'[g].pc = "send" /\ call'[g].file = f /\ call'[g].client = c
      /\ call'[g].size = call[g].size /\ call'[g].pos = p + 1
      /\ call'[g].touched = call[g].touched /\ call'[g].fd = IF good THEN i ELSE NoInode
      /\ \A h \in Threads \ {g} : call'[h] = call[h]
  <2> HIDE DEF good
  <2> QED BY <1>1 DEF TypeOK, StateTypeOK, Calls
<1>3. \A d \in Clients : local'[d] = local[d] \/ waits[d] = g
  BY <1>1 DEF Awaited, TypeOK, StateTypeOK
<1>4. ~Writing(g)'
  BY <1>2 DEF Writing
<1>5. Fetched(g)'
  <2> SUFFICES ASSUME ~call[g].touched PROVE Fetched(g)'
    BY <1>2 DEF Fetched, Fetching
  <2>1. /\ dir[f] = i /\ i # NoInode /\ call[g].size = Len(disk[i])
        /\ p > 0 /\ Awaited(g) => Len(local[c][f]) = p /\ Starts(local[c][f], disk[i])
    BY <1>1 DEF FetchInv, Fetched, Fetching
  <2>2. i \in Inodes /\ disk[i] \in Seq(Blocks) /\ good
    BY <1>1, <2>1 DEF TypeOK, StateTypeOK
  <2>3. block = disk[i][p + 1]
    BY <2>2
  <2>4. Awaited(g) => old \in Seq(Blocks) /\ Len(old) = p /\ Starts(old, disk[i])
    <3>1. CASE p = 0
      <4>1. Len(disk[i]) \in Nat
        BY <2>2
      <4> QED BY <3>1, <4>1, EmptyType DEF Starts
    <3>2. CASE p # 0
      <4>1. Awaited(g) => local[c][f] \in Seq(Blocks)
        BY <1>1, <3>2 DEF TypeOK, StateTypeOK, LiveCalls, LiveLocals
      <4> QED BY <1>1, <2>1, <3>2, <4>1
    <3> QED BY <3>1, <3>2
  <2> HIDE DEF old, block
  <2>5. Awaited(g) => /\ Len(Put(old, p, block)) = p + 1
                      /\ Starts(Put(old, p, block), disk[i])
    BY <2>2, <2>3, <2>4, StartsNext
  <2>6. Awaited(g) => local'[c][f] = Put(old, p, block)
    BY <1>1 DEF TypeOK, StateTypeOK
  <2>7. Awaited(g)' => Awaited(g)
    BY <1>1, <1>2 DEF Awaited
  <2>8. p + 1 <= Len(disk[i])
    BY <1>1, <2>2
  <2> SUFFICES /\ dir'[f] = i /\ i # NoInode /\ call[g].size = Len(disk'[i])
               /\ p + 1 <= call[g].size
               /\ Awaited(g)' => /\ Len(local'[c][f]) = p + 1
                                 /\ Starts(local'[c][f], disk'[i])
    <3> HIDE DEF good
    <3> QED BY <1>2, <2>2 DEF Fetched, Starts
  <2> QED BY <1>1, <2>1, <2>5, <2>6, <2>7, <2>8
<1> QED BY <1>1, <1>2, <1>3, <1>4, <1>5, FetchAside

\* The handler at g changes a file that no unmarked fetch reads.
LEMMA FetchChange ==
    ASSUME TypeOK, FetchInv, NEW g \in Threads, NEW k, NEW f,
           call' = Touched([call EXCEPT ![g] = k], f), UNCHANGED <<waits, local>>,
           call'[g].pc \notin {"compare", "send"},
           \A h \in Threads : Fetching(h) /\ call[h].file # f =>
                                 /\ dir'[call[h].file] = dir[call[h].file]
                                 /\ disk'[call[h].fd] = disk[call[h].fd],
           \A h \in Threads : NameOwned(h)'
    PROVE  FetchInv'
<1>1. ASSUME NEW h \in Threads \ {g} PROVE Fetched(h)'
  <2>1. /\ SameWriter(h) /\ call'[h].size = call[h].size
        /\ Fetching(h)' => Fetching(h) /\ call[h].file # f
    BY FetchMarked
  <2>2. Awaited(h)' => Awaited(h)
    BY <2>1 DEF Awaited, SameWriter
  <2>3. SameFetch(h)
    BY <2>1, <2>2 DEF SameFetch
  <2> QED BY <2>3, FetchKept DEF FetchInv
<1>2. Fetched(g)'
  BY FetchOwn
<1> QED BY <1>1, <1>2 DEF FetchInv

\* OpenForStore takes the inode of the name, or one that nobody has open.
LEMMA FetchOpenForStore ==
    ASSUME TypeOK, FetchInv, NEW g \in Threads, OpenForStore(g)
    PROVE  FetchInv'
<1> DEFINE f == call[g].file
<1>1. /\ call[g] \in Calls /\ f \in Files /\ UNCHANGED <<waits, local>>
  BY DEF OpenForStore, At, TypeOK, StateTypeOK, LiveCalls, LiveLocals, clients
<1> PICK i \in Target(f) :
       /\ dir' = [dir EXCEPT ![f] = i]
       /\ disk' = [disk EXCEPT ![i] = << >>]
       /\ call' = Touched([call EXCEPT ![g].pc = "write", ![g].fd = i], f)
  BY DEF OpenForStore
<1>2. i \in Inodes /\ i # NoInode
  BY Sentinels DEF Target
<1> DEFINE k == [call[g] EXCEPT !.pc = "write", !.fd = i]
<1>3. k \in Calls /\ k.pc = "write" /\ k.fd = i /\ k.file = f
  BY <1>1, <1>2 DEF Calls, Labels, LockLabels, StoreLabels
<1>4. call' = Touched([call EXCEPT ![g] = k], f)
  BY <1>1 DEF TypeOK, StateTypeOK, Calls
<1> HIDE DEF k
<1>5. /\ \A h \in Threads \ {g} : SameWriter(h)
      /\ call'[g].pc = k.pc /\ call'[g].file = k.file /\ call'[g].fd = k.fd
  <2>1. k \in Calls
    BY <1>3
  <2> QED BY <2>1, <1>4, FilesTouch
<1>6. dir'[f] = i /\ \A e \in Files \ {f} : dir'[e] = dir[e] /\ dir[e] # i
  <2>1. dir'[f] = i /\ \A e \in Files \ {f} : dir'[e] = dir[e]
    BY <1>1 DEF TypeOK, StateTypeOK
  <2>2. CASE dir[f] # NoInode
    <3>1. i = dir[f]
      BY <2>2 DEF Target
    <3> QED BY <1>1, <1>2, <2>1, <3>1 DEF TypeOK, LiveCalls
  <2>3. CASE dir[f] = NoInode
    <3>1. ~InUse(i)
      BY <2>3 DEF Target
    <3> QED BY <2>1, <3>1 DEF InUse
  <2> QED BY <2>2, <2>3
<1>7. ASSUME NEW h \in Threads, Fetching(h), call[h].file # f
      PROVE  /\ dir'[call[h].file] = dir[call[h].file]
             /\ disk'[call[h].fd] = disk[call[h].fd]
  <2>1. call[h].file \in Files \ {f} /\ dir[call[h].file] = call[h].fd
    BY <1>7 DEF FetchInv, Fetched, Fetching, TypeOK, LiveCalls, LiveLocals
  <2>2. call[h].fd # i
    BY <1>6, <2>1
  <2>3. call[h].fd \in Inodes
    BY <1>7, <2>1 DEF FetchInv, Fetched, TypeOK, StateTypeOK
  <2> QED BY <1>6, <2>1, <2>2, <2>3 DEF TypeOK, StateTypeOK
<1>8. ASSUME NEW h \in Threads PROVE NameOwned(h)'
  <2>1. CASE h = g
    <3>1. \A e \in Files : dir'[e] = i => e = f
      BY <1>6
    <3> QED BY <1>3, <1>5, <2>1, <3>1 DEF NameOwned
  <2>2. CASE h # g
    <3> SUFFICES ASSUME Writing(h) PROVE \A e \in Files : dir'[e] = call[h].fd => e = call[h].file
      BY <1>5, <2>2 DEF NameOwned, Writing, SameWriter
    <3>1. \A e \in Files : dir[e] = call[h].fd => e = call[h].file
      BY DEF FetchInv, NameOwned
    <3>2. i = call[h].fd => f = call[h].file
      <4>1. i = call[h].fd => InUse(i)
        BY DEF InUse
      <4>2. InUse(i) => dir[f] = i
        BY DEF Target
      <4> QED BY <1>1, <3>1, <4>1, <4>2
    <3> QED BY <1>6, <3>1, <3>2
  <2> QED BY <2>1, <2>2
<1>9. call'[g].pc \notin {"compare", "send"}
  BY <1>3, <1>5
<1> QED BY <1>1, <1>4, <1>7, <1>8, <1>9, FetchChange

\* The inode that is written has no other name.
LEMMA FetchWrite ==
    ASSUME TypeOK, FetchInv, NEW g \in Threads, WriteBlock(g)
    PROVE  FetchInv'
<1> DEFINE f == call[g].file
           i == call[g].fd
           p == call[g].pos
           k == [call[g] EXCEPT !.pc = "next", !.pos = p + 1]
<1>1. /\ call[g] \in Calls /\ f \in Files /\ p \in Nat /\ Writing(g)
      /\ UNCHANGED <<waits, local, dir>>
      /\ disk' = [disk EXCEPT ![i] = Put(@, p, call[g].sum[p + 1])]
      /\ call' = Touched([call EXCEPT ![g].pc = "next", ![g].pos = p + 1], f)
  BY DEF WriteBlock, At, TypeOK, StateTypeOK, LiveCalls, LiveLocals, clients, Calls, Writing
<1>2. k \in Calls /\ k.pc = "next" /\ k.fd = i /\ k.file = f
  <2>1. "next" \in Labels /\ p + 1 \in Nat
    BY <1>1 DEF Labels, LockLabels, StoreLabels
  <2> QED BY <1>1, <2>1 DEF Calls
<1>3. call' = Touched([call EXCEPT ![g] = k], f)
  BY <1>1 DEF TypeOK, StateTypeOK, Calls
<1> HIDE DEF k
<1>4. /\ \A h \in Threads \ {g} : SameWriter(h)
      /\ call'[g].pc = k.pc /\ call'[g].file = k.file /\ call'[g].fd = k.fd
  <2>1. k \in Calls
    BY <1>2
  <2> QED BY <2>1, <1>3, FilesTouch
<1>5. ASSUME NEW h \in Threads, Fetching(h), call[h].file # f
      PROVE  /\ dir'[call[h].file] = dir[call[h].file]
             /\ disk'[call[h].fd] = disk[call[h].fd]
  <2>1. call[h].file \in Files \ {f} /\ dir[call[h].file] = call[h].fd
    BY <1>5 DEF FetchInv, Fetched, Fetching, TypeOK, LiveCalls, LiveLocals
  <2>2. call[h].fd # i
    BY <1>1, <2>1 DEF FetchInv, NameOwned
  <2>3. call[h].fd \in Inodes
    BY <1>5, <2>1 DEF FetchInv, Fetched, TypeOK, StateTypeOK
  <2> QED BY <1>1, <2>2, <2>3 DEF TypeOK, StateTypeOK
<1>6. ASSUME NEW h \in Threads PROVE NameOwned(h)'
  <2>1. Writing(h)' => /\ Writing(h) /\ call'[h].fd = call[h].fd
                       /\ call'[h].file = call[h].file
    BY <1>1, <1>2, <1>4 DEF Writing, SameWriter
  <2> QED BY <1>1, <2>1, NamesKept DEF FetchInv
<1>7. call'[g].pc \notin {"compare", "send"}
  BY <1>2, <1>4
<1> QED BY <1>1, <1>3, <1>5, <1>6, <1>7, FetchChange

\* A name goes; who has the inode open goes on with it.
LEMMA FetchRemove ==
    ASSUME TypeOK, FetchInv, NEW g \in Threads, RemoveFile(g)
    PROVE  FetchInv'
<1>1. UNCHANGED <<disk, local>>
  BY DEF RemoveFile
<1>2. CASE Reply(g) /\ UNCHANGED dir
  BY <1>1, <1>2, FetchReply
<1>3. CASE ~(Reply(g) /\ UNCHANGED dir)
  <2> DEFINE f == call[g].file
             k == [call[g] EXCEPT !.pc = "locking"]
  <2>1. /\ dir' = [dir EXCEPT ![f] = NoInode] /\ UNCHANGED waits
        /\ call' = Touched([call EXCEPT ![g].pc = "locking"], f)
    BY <1>3 DEF RemoveFile
  <2>2. call[g] \in Calls /\ k \in Calls /\ k.pc = "locking"
    BY ZenonT(60) DEF TypeOK, StateTypeOK, Calls, Labels
  <2>3. call' = Touched([call EXCEPT ![g] = k], f)
    BY <2>1, <2>2 DEF TypeOK, StateTypeOK, Calls
  <2> HIDE DEF k
  <2>4. (\A h \in Threads \ {g} : SameWriter(h)) /\ call'[g].pc = k.pc
    <3>1. k \in Calls
      BY <2>2
    <3> QED BY <3>1, <2>3, FilesTouch
  <2>5. \A e \in Files : dir'[e] \in {dir[e], NoInode} /\ (e # f => dir'[e] = dir[e])
    BY <2>1 DEF TypeOK, StateTypeOK
  <2>6. ASSUME NEW h \in Threads PROVE NameOwned(h)'
    <3>1. Writing(h)' => /\ Writing(h) /\ call'[h].fd = call[h].fd
                         /\ call'[h].file = call[h].file
      BY <2>2, <2>4 DEF Writing, SameWriter
    <3> QED BY <2>5, <3>1, NamesKept DEF FetchInv
  <2>7. \A h \in Threads : Fetching(h) => call[h].file \in Files
    BY DEF Fetching, TypeOK, LiveCalls, LiveLocals
  <2>8. call'[g].pc \notin {"compare", "send"}
    BY <2>2, <2>4
  <2>9. \A h \in Threads : Fetching(h) /\ call[h].file # f =>
                               /\ dir'[call[h].file] = dir[call[h].file]
                               /\ disk'[call[h].fd] = disk[call[h].fd]
    BY <1>1, <2>5, <2>7
  <2>10. UNCHANGED <<waits, local>>
    BY <1>1, <2>1
  <2> HIDE DEF f
  <2> QED BY <2>3, <2>6, <2>8, <2>9, <2>10, FetchChange
<1> QED BY <1>2, <1>3

\* Every step keeps FetchInv.
LEMMA FetchNext == TypeOK /\ FetchInv /\ [Next]_vars => FetchInv'
<1> SUFFICES ASSUME TypeOK, FetchInv, [Next]_vars PROVE FetchInv'
  OBVIOUS
<1>1. ASSUME NEW c \in Clients, ClientStep(c) PROVE FetchInv'
  <2>1. CASE TimeOut(c) \/ Die(c)
    BY <2>1, FetchGiveUp
  <2>2. ASSUME NEW g \in Threads, NEW f \in Files,
               \/ Store(c, g, f) \/ Fetch(c, g, f) \/ Delete(c, g, f)
               \/ RequestWriteAccess(c, g, f)
        PROVE  FetchInv'
    <3>1. \E l \in {"first", "fetch", "remove", "ask"} : \E s : StartCall(c, g, l, f, s)
      BY <2>2 DEF Store, Fetch, Delete, RequestWriteAccess
    <3>2. \A d \in Clients \ {c} : local'[d] = local[d]
      BY <2>2 DEF Store, Fetch, Delete, RequestWriteAccess, TypeOK, StateTypeOK
    <3> QED BY <3>1, <3>2, FetchStartCall
  <2> QED BY <1>1, <2>1, <2>2 DEF ClientStep
<1>2. ASSUME NEW g \in Threads, HandlerStep(g) PROVE FetchInv'
  <2>1. CASE \/ ReceiveFirst(g) \/ LockForStore(g) \/ CompareForStore(g) \/ LockForDelete(g)
             \/ GrantLock(g) \/ EndFetch(g)
    <3>1. UNCHANGED <<dir, disk, local>>
      BY <2>1 DEF ReceiveFirst, LockForStore, CompareForStore, LockForDelete, GrantLock,
         EndFetch, files
    <3>2. \/ Reply(g)
          \/ UNCHANGED waits /\ \E l \in {"lock", "check", "open", "unlock"} : Goto(g, l)
      BY <2>1 DEF ReceiveFirst, LockForStore, CompareForStore, LockForDelete, GrantLock,
         EndFetch
    <3> QED BY <3>1, <3>2, FetchReply, FetchGoto
  <2>2. CASE ReceiveNext(g)
    <3>1. UNCHANGED <<dir, disk, local>> /\ Writing(g)
      BY <2>2 DEF ReceiveNext, files, At, Writing
    <3>2. Reply(g) \/ (UNCHANGED waits /\ \E l \in {"write", "end"} : Goto(g, l))
      BY <2>2 DEF ReceiveNext
    <3> QED BY <3>1, <3>2, FetchReply, FetchGoto
  <2>3. CASE EndStore(g) \/ EndDelete(g)
    <3>1. Reply(g) /\ UNCHANGED <<dir, disk>>
      BY <2>3 DEF EndStore, EndDelete, files
    <3>2. \A c \in Clients : local'[c] = local[c] \/ waits[c] = g
      BY <2>3 DEF EndStore, EndDelete, Awaited, TypeOK, StateTypeOK
    <3> QED BY <3>1, <3>2, FetchReply
  <2> QED BY <1>2, <2>1, <2>2, <2>3, FetchOpen, FetchCompare, FetchSend, FetchOpenForStore,
             FetchWrite, FetchRemove DEF HandlerStep
<1>3. CASE UNCHANGED vars
  <2>1. UNCHANGED <<dir, disk, call, waits, local>>
    BY <1>3 DEF vars
  <2> QED BY <2>1 DEF FetchInv, Fetched, NameOwned, Fetching, Writing, Awaited, Starts
<1> QED BY <1>1, <1>2, <1>3 DEF Next

\* The step that ends a fetch.
LEMMA FetchEnds ==
    ASSUME TypeOK, FetchInv, [Next]_vars, NEW h \in Threads,
           call[h].pc = "send", call'[h].pc = "idle", ~call[h].touched, call[h].size > 0,
           Awaited(h)
    PROVE  local'[call[h].client][call[h].file] = Content(call[h].file)
<1> DEFINE c == call[h].client
           f == call[h].file
           i == call[h].fd
<1>1. EndFetch(h)
  <2>1. call[h] # call'[h]
    OBVIOUS
  <2>2. ASSUME NEW d \in Clients, NEW g \in Threads, NEW e \in Files,
               \/ Store(d, g, e) \/ Fetch(d, g, e) \/ Delete(d, g, e)
               \/ RequestWriteAccess(d, g, e)
        PROVE  FALSE
    <3>1. \E l \in {"first", "fetch", "remove", "ask"} : \E s : StartCall(d, g, l, e, s)
      BY <2>2 DEF Store, Fetch, Delete, RequestWriteAccess
    <3> QED BY <2>1, <3>1 DEF StartCall, At, TypeOK, StateTypeOK
  <2>3. ~UNCHANGED vars /\ ~\E d \in Clients : TimeOut(d) \/ Die(d)
    BY <2>1 DEF vars, TimeOut, Die
  <2>4. PICK g \in Threads : HandlerStep(g)
    BY <2>2, <2>3 DEF Next, ClientStep
  <2>5. ASSUME g # h PROVE call'[h].pc = call[h].pc
    <3>1. CASE OpenForStore(g) \/ WriteBlock(g) \/ RemoveFile(g)
      <4>1. call[h] \in Calls /\ call \in [Threads -> Calls]
        BY DEF TypeOK, StateTypeOK
      <4>2. call'[h] \in {call[h], [call[h] EXCEPT !.touched = TRUE]}
        <5>1. CASE OpenForStore(g)
          BY <2>5, <4>1, <5>1 DEF OpenForStore, Touched
        <5>2. CASE WriteBlock(g)
          BY <2>5, <4>1, <5>2 DEF WriteBlock, Touched
        <5>3. CASE RemoveFile(g)
          BY <2>5, <4>1, <5>3 DEF RemoveFile, Touched, Reply
        <5> QED BY <3>1, <5>1, <5>2, <5>3
      <4> QED BY <4>1, <4>2 DEF Calls
    <3>2. CASE ~(OpenForStore(g) \/ WriteBlock(g) \/ RemoveFile(g))
      <4>1. call'[h] = call[h]
        BY <2>4, <2>5, <3>2 DEF HandlerStep, ReceiveFirst, LockForStore, CompareForStore,
           ReceiveNext, EndStore, OpenForFetch, CompareForFetch, SendBlock, EndFetch,
           LockForDelete, EndDelete, GrantLock, Goto, Reply, TypeOK, StateTypeOK
      <4> QED BY <4>1
    <3> QED BY <3>1, <3>2
  <2>6. HandlerStep(h)
    BY <2>4, <2>5
  <2>7. EndFetch(h) \/ SendBlock(h)
    BY <2>6 DEF HandlerStep, ReceiveFirst, LockForStore, CompareForStore, OpenForStore,
       WriteBlock, ReceiveNext, EndStore, OpenForFetch, CompareForFetch, RemoveFile,
       LockForDelete, EndDelete, GrantLock, At
  <2>8. SendBlock(h) => call'[h].pc = "send"
    <3> SUFFICES ASSUME SendBlock(h) PROVE call'[h].pc = "send"
      OBVIOUS
    <3>1. \E q, d : call' = [call EXCEPT ![h].pos = q, ![h].fd = d]
      BY DEF SendBlock
    <3> QED BY <3>1 DEF TypeOK, StateTypeOK, Calls
  <2> QED BY <2>7, <2>8
<1>2. /\ call[h].pos >= call[h].size /\ local' = local
      /\ c \in Clients /\ f \in Files /\ call[h].pos \in Nat /\ call[h].size \in Nat
  BY <1>1 DEF EndFetch, TypeOK, StateTypeOK, LiveCalls, LiveLocals, Calls
<1>3. /\ dir[f] = i /\ i # NoInode
      /\ call[h].size = Len(disk[i]) /\ call[h].pos <= call[h].size
      /\ call[h].pos > 0 => Len(local[c][f]) = call[h].pos /\ Starts(local[c][f], disk[i])
  BY DEF FetchInv, Fetched, Fetching
<1>4. call[h].pos > 0 /\ call[h].pos = Len(disk[i])
  BY <1>2, <1>3
<1>5. local[c][f] \in Seq(Blocks) /\ disk[i] \in Seq(Blocks)
  <2>1. local[c][f] # Absent
    BY <1>4 DEF TypeOK, LiveCalls, LiveLocals
  <2> QED BY <1>2, <1>3, <2>1 DEF TypeOK, StateTypeOK
<1>6. local[c][f] = disk[i]
  BY <1>3, <1>4, <1>5, StartsBegins
<1> QED BY <1>2, <1>3, <1>6 DEF Content

\* A fetch during which nobody changed the file gives its client exactly the
\* server's content, whatever others store, delete and fetch beside it.
THEOREM FetchesAreFaithful == Spec => FetchFaithful
<1>1. Init => TypeOK /\ FetchInv
  BY TypeInit, FetchInit
<1>2. TypeOK /\ FetchInv /\ [Next]_vars => (TypeOK /\ FetchInv)'
  BY TypeNext, FetchNext
<1> DEFINE Faithful ==
        \A h \in Threads :
            LET k == call[h] IN
            k.pc = "send" /\ call'[h].pc = "idle" /\ ~k.touched /\ k.size > 0 /\ Awaited(h)
                => local'[k.client][k.file] = Content(k.file)
<1>3. TypeOK /\ FetchInv /\ [Next]_vars => [Faithful]_vars
  BY FetchEnds
<1> HIDE DEF Faithful
<1>4. Spec => [][Faithful]_vars
  BY <1>1, <1>2, <1>3, PTL DEF Spec
<1> QED BY <1>4 DEF FetchFaithful, Faithful
=============================================================================
