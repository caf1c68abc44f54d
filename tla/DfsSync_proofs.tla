---------------------------- MODULE DfsSync_proofs ----------------------------
(***************************************************************************)
(* Theorems about DfsSync for every number of clients and files, every set *)
(* of contents, every length of inotify's queue and every scenario.        *)
(***************************************************************************)
EXTENDS DfsSync, TLAPS, SequenceTheorems, FiniteSetTheorems

-----------------------------------------------------------------------------
(* Contents, files and queues of events.                                    *)

\* A content is a sequence of blocks, and so is every beginning of it.
LEMMA ContentsType ==
    ASSUME NEW d \in Contents
    PROVE  /\ Len(d) \in Nat
           /\ \A n \in 0 .. Len(d) : SubSeq(d, 1, n) \in Contents
<1>1. d \in Seq(Blocks) /\ Len(d) \in Nat
  BY LenProperties DEF Contents
<1>2. ASSUME NEW n \in 0 .. Len(d) PROVE SubSeq(d, 1, n) \in Contents
  <2>1. \A i \in 1 .. n : d[i] \in Blocks
    BY <1>1, ElementOfSeq
  <2> QED BY <1>1, <2>1, SubSeqProperties DEF Contents
<1> QED BY <1>1, <1>2

\* So is a content with the rest of another laid over it.
LEMMA OverlaidType ==
    ASSUME NEW old \in Contents, NEW data \in Contents, NEW n \in Nat
    PROVE  Overlaid(old, data, n) \in Contents
<1> DEFINE m    == IF Len(old) > Len(data) THEN Len(old) ELSE Len(data)
           b(i) == IF i \in n + 1 .. Len(data) THEN data[i]
                   ELSE IF i <= Len(old) THEN old[i] ELSE Hole
<1>1. Len(old) \in Nat /\ Len(data) \in Nat /\ m \in Nat
  BY ContentsType
<1>2. ASSUME NEW i \in 1 .. m PROVE b(i) \in Blocks
  <2>1. CASE i \in n + 1 .. Len(data)
    <3>1. i \in 1 .. Len(data)
      BY <1>1, <2>1
    <3>2. data[i] \in Blocks
      BY <3>1, ElementOfSeq DEF Contents
    <3> QED BY <2>1, <3>2
  <2>2. CASE i \notin n + 1 .. Len(data) /\ i <= Len(old)
    <3>1. i \in 1 .. Len(old)
      BY <1>1, <2>2
    <3>2. old[i] \in Blocks
      BY <3>1, ElementOfSeq DEF Contents
    <3> QED BY <2>2, <3>2
  <2>3. CASE i \notin n + 1 .. Len(data) /\ ~(i <= Len(old))
    BY <2>3 DEF Blocks
  <2> QED BY <2>1, <2>2, <2>3
<1> HIDE DEF b, m
<1>3. [i \in 1 .. m |-> b(i)] \in Seq(Blocks)
  BY <1>1, <1>2
<1>4. Overlaid(old, data, n) = [i \in 1 .. m |-> b(i)]
  BY DEF Overlaid, b, m
<1> QED BY <1>3, <1>4 DEF Contents

\* A file that exists is no absent file, and either has a content.
LEMMA CopiesType ==
    /\ \A d \in Contents, t \in Nat : File(d, t) \in Copies /\ File(d, t) # Absent
    /\ \A x \in Copies : Data(x) \in Contents
    /\ \A x \in Copies : x # Absent => x \in [data : Contents, mtime : Nat]
<1>1. Empty \in Contents
  BY EmptySeq DEF Empty, Contents
<1> QED BY <1>1, SyncAssumption DEF File, Copies, Data

Events == [kind : {"create", "modify", "delete"}, file : Files]

\* No event in the queue says that f has been removed.
NoDelete(queue, f) == \A i \in 1 .. Len(queue) : queue[i] # Event("delete", f)

\* Notify keeps a queue of events within its limit and adds no other event.
LEMMA NotifyType ==
    ASSUME NEW q \in EventQueues, Len(q) <= MaxQueue, NEW e \in Events
    PROVE  /\ Notify(q, e) \in EventQueues
           /\ Len(Notify(q, e)) <= MaxQueue
           /\ \A f \in Files : NoDelete(q, f) /\ e # Event("delete", f) => NoDelete(Notify(q, e), f)
<1>1. q \in Seq(Events) /\ Len(q) \in Nat /\ MaxQueue \in Nat
  BY SyncAssumption, LenProperties DEF EventQueues, Events
<1>2. CASE Notify(q, e) = q
  BY <1>2
<1>3. CASE Notify(q, e) = Append(q, e) /\ Len(q) # MaxQueue
  <2>1. /\ Append(q, e) \in Seq(Events) /\ Len(Append(q, e)) = Len(q) + 1
        /\ \A i \in 1 .. Len(q) : Append(q, e)[i] = q[i]
        /\ Append(q, e)[Len(q) + 1] = e
    BY <1>1, AppendProperties
  <2>2. ASSUME NEW f \in Files, NoDelete(q, f), e # Event("delete", f)
        PROVE  NoDelete(Append(q, e), f)
    BY <1>1, <2>1, <2>2 DEF NoDelete
  <2>3. Append(q, e) \in EventQueues /\ Len(Append(q, e)) <= MaxQueue
    BY <1>1, <1>3, <2>1 DEF EventQueues, Events
  <2> QED BY <1>3, <2>2, <2>3
<1> QED BY <1>2, <1>3 DEF Notify
-----------------------------------------------------------------------------
(* What the calls and what users do to folders and files.                   *)

FoldersType ==
    /\ local \in [Clients -> [Files -> Copies]]
    /\ events \in [Clients -> EventQueues]
    /\ \A c \in Clients : Len(events[c]) <= MaxQueue

\* The type of the server's files, its locks and the clients' stores.
ServerType ==
    /\ srv \in [Files -> Copies]
    /\ lockList \in [Files -> Clients \cup {Nobody}]
    /\ call \in [Clients -> Calls]

\* In the folder of c nothing but the file f changes, and no event says that
\* another file is gone.
OnlyFile(c, f) ==
    /\ \A d \in Clients, g \in Files : d # c \/ g # f => local'[d][g] = local[d][g]
    /\ \A d \in Clients \ {c} : events'[d] = events[d]
    /\ \A g \in Files \ {f} : NoDelete(events[c], g) => NoDelete(events'[c], g)

\* A write leaves a file, and no event that says it is gone.
LEMMA WriteEffect ==
    ASSUME FoldersType, now \in Nat, NEW c \in Clients, NEW f \in Files, NEW data \in Contents,
           Write(c, f, data)
    PROVE  /\ FoldersType' /\ OnlyFile(c, f) /\ local'[c][f] # Absent
           /\ NoDelete(events[c], f) => NoDelete(events'[c], f)
<1> DEFINE create == Event("create", f)
           modify == Event("modify", f)
           queue  == IF local[c][f] = Absent THEN Notify(events[c], create) ELSE events[c]
<1>1. /\ create \in Events /\ modify \in Events
      /\ \A g \in Files : create # Event("delete", g) /\ modify # Event("delete", g)
  BY DEF Events, Event
<1>2. events' = [events EXCEPT ![c] = Notify(queue, modify)]
  BY DEF Write
<1>3. local' = [local EXCEPT ![c][f] = File(data, now)]
  BY DEF Write
<1> HIDE DEF create, modify
<1>4. /\ queue \in EventQueues /\ Len(queue) <= MaxQueue
      /\ \A g \in Files : NoDelete(events[c], g) => NoDelete(queue, g)
  <2>1. events[c] \in EventQueues /\ Len(events[c]) <= MaxQueue
    BY DEF FoldersType
  <2> QED BY <1>1, <2>1, NotifyType
<1> HIDE DEF queue
<1>5. /\ Notify(queue, modify) \in EventQueues /\ Len(Notify(queue, modify)) <= MaxQueue
      /\ \A g \in Files : NoDelete(queue, g) => NoDelete(Notify(queue, modify), g)
  BY <1>1, <1>4, NotifyType
<1> DEFINE file == File(data, now)
           next == Notify(queue, modify)
<1>6. file \in Copies /\ file # Absent
  BY CopiesType
<1> HIDE DEF file, next
<1>7. events' = [events EXCEPT ![c] = next] /\ local' = [local EXCEPT ![c][f] = file]
  BY <1>2, <1>3 DEF next, file
<1>8. /\ next \in EventQueues /\ Len(next) <= MaxQueue
      /\ \A g \in Files : NoDelete(events[c], g) => NoDelete(next, g)
  BY <1>4, <1>5 DEF next
<1>9. events'[c] = next /\ \A d \in Clients \ {c} : events'[d] = events[d]
  BY <1>7 DEF FoldersType
<1>10. FoldersType'
  BY <1>6, <1>7, <1>8, <1>9 DEF FoldersType
<1>11. /\ local'[c][f] = file
       /\ \A d \in Clients, g \in Files : d # c \/ g # f => local'[d][g] = local[d][g]
  BY <1>7 DEF FoldersType
<1> QED BY <1>6, <1>8, <1>9, <1>10, <1>11 DEF OnlyFile

\* So does a removal, of another file.
LEMMA UnlinkEffect ==
    ASSUME FoldersType, NEW c \in Clients, NEW f \in Files, Unlink(c, f)
    PROVE  FoldersType' /\ OnlyFile(c, f)
<1>1. CASE local[c][f] = Absent
  BY <1>1 DEF Unlink, folders, FoldersType, OnlyFile
<1>2. CASE local[c][f] # Absent
  <2> DEFINE delete == Event("delete", f)
             next   == Notify(events[c], delete)
  <2>1. delete \in Events /\ \A g \in Files \ {f} : delete # Event("delete", g)
    BY DEF Events, Event
  <2>2. events' = [events EXCEPT ![c] = next] /\ local' = [local EXCEPT ![c][f] = Absent]
    BY <1>2 DEF Unlink
  <2> HIDE DEF delete
  <2>3. /\ next \in EventQueues /\ Len(next) <= MaxQueue
        /\ \A g \in Files \ {f} : NoDelete(events[c], g) => NoDelete(next, g)
    <3>1. events[c] \in EventQueues /\ Len(events[c]) <= MaxQueue
      BY DEF FoldersType
    <3> QED BY <2>1, <3>1, NotifyType
  <2> HIDE DEF next
  <2>4. events'[c] = next /\ \A d \in Clients \ {c} : events'[d] = events[d]
    BY <2>2 DEF FoldersType
  <2>5. FoldersType'
    BY <2>2, <2>3, <2>4 DEF FoldersType, Copies
  <2>6. \A d \in Clients, g \in Files : d # c \/ g # f => local'[d][g] = local[d][g]
    BY <2>2 DEF FoldersType
  <2> QED BY <2>3, <2>4, <2>5, <2>6 DEF OnlyFile
<1> QED BY <1>1, <1>2

\* What a fetch that fails removes is counted as lost.
LEMMA FailEffect ==
    ASSUME FoldersType, NEW c \in Clients, NEW f \in Files, lost \subseteq Files, FetchFails(c, f)
    PROVE  /\ FoldersType' /\ OnlyFile(c, f)
           /\ lost \subseteq lost' /\ lost' \subseteq Files
           /\ f \notin lost' => UNCHANGED folders
<1>1. FoldersType' /\ OnlyFile(c, f)
  BY UnlinkEffect DEF FetchFails
<1>2. CASE local[c][f] = Absent
  BY <1>1, <1>2 DEF FetchFails, Unlink
<1>3. CASE local[c][f] # Absent
  BY <1>1, <1>3 DEF FetchFails
<1> QED BY <1>2, <1>3

\* A call that is started has its type.
LEMMA UnderType ==
    ASSUME NEW op \in {"store", "fetch"}, NEW f \in Files, NEW data \in Contents, NEW n \in Nat
    PROVE  /\ Under(op, f, data, n) \in Calls
           /\ Under(op, f, data, n).file = f /\ Under(op, f, data, n).op = op
BY DEF Under, Calls

\* No other call than that of c is another.
OnlyCall(c) == \A d \in Clients \ {c} : call'[d] = call[d]

\* A fetch that does not fail never removes a file, and writes none that the
\* server does not have.
LEMMA FetchEffect ==
    ASSUME FoldersType, ServerType, now \in Nat, NEW c \in Clients, NEW f \in Files,
           lost \subseteq Files, FetchCall(c, f), UNCHANGED server
    PROVE  /\ FoldersType' /\ ServerType' /\ OnlyFile(c, f) /\ OnlyCall(c)
           /\ lost \subseteq lost' /\ lost' \subseteq Files
           /\ f \notin lost' /\ NoDelete(events[c], f) => NoDelete(events'[c], f)
           /\ f \notin lost' /\ local[c][f] # Absent => local'[c][f] # Absent
           /\ f \notin lost' /\ srv[f] = Absent => local'[c][f] = local[c][f]
           /\ call'[c] = call[c] \/ (call'[c].op = "fetch" /\ call'[c].file = f /\ srv[f] # Absent)
<1>1. CASE FetchFails(c, f) /\ UNCHANGED call
  <2>1. ServerType'
    BY <1>1 DEF ServerType, server
  <2>2. f \notin lost' => UNCHANGED folders
    BY <1>1, FailEffect
  <2> QED BY <1>1, <2>1, <2>2, FailEffect DEF OnlyCall, folders
<1>2. CASE UNCHANGED <<folders, call, lost>>
  BY <1>2 DEF folders, server, FoldersType, ServerType, OnlyFile, OnlyCall
<1>3. CASE /\ Data(srv[f]) \notin {Empty, Data(local[c][f])}
           /\ \E n \in 0 .. Len(srv[f].data) - 1 :
                 /\ Write(c, f, SubSeq(srv[f].data, 1, n))
                 /\ call' = [call EXCEPT ![c] = Under("fetch", f, srv[f].data, n)]
           /\ UNCHANGED lost
  <2> DEFINE data == srv[f].data
  <2>1. srv[f] # Absent /\ srv[f] \in Copies
    BY <1>3 DEF Data, ServerType
  <2>2. data \in Contents
    BY <2>1, CopiesType
  <2> HIDE DEF data
  <2>3. PICK n \in 0 .. Len(data) - 1 : /\ Write(c, f, SubSeq(data, 1, n))
                                        /\ call' = [call EXCEPT ![c] = Under("fetch", f, data, n)]
    BY <1>3 DEF data
  <2>4. n \in Nat /\ SubSeq(data, 1, n) \in Contents
    <3>1. Len(data) \in Nat /\ \A m \in 0 .. Len(data) : SubSeq(data, 1, m) \in Contents
      BY <2>2, ContentsType
    <3> QED BY <2>3, <3>1
  <2> DEFINE part == SubSeq(data, 1, n)
             k    == Under("fetch", f, data, n)
  <2>5. k \in Calls /\ k.op = "fetch" /\ k.file = f
    BY <2>2, <2>4, UnderType
  <2> HIDE DEF k, part
  <2>6. Write(c, f, part) /\ part \in Contents /\ call' = [call EXCEPT ![c] = k]
    BY <2>3, <2>4 DEF k, part
  <2>7. /\ FoldersType' /\ OnlyFile(c, f) /\ local'[c][f] # Absent
        /\ NoDelete(events[c], f) => NoDelete(events'[c], f)
    BY <2>6, WriteEffect
  <2>8. ServerType' /\ OnlyCall(c) /\ call'[c] = k
    BY <2>5, <2>6 DEF ServerType, OnlyCall, server
  <2> QED BY <1>3, <2>1, <2>5, <2>7, <2>8
<1> QED BY <1>1, <1>2, <1>3 DEF FetchCall

\* On the server nothing but the file f and its lock changes, and no other call.
OnlyServed(c, f) == OnlyCall(c) /\ \A g \in Files \ {f} : srv'[g] = srv[g]

\* A store never removes a file, and creates only one that the client has.
LEMMA StoreEffect ==
    ASSUME FoldersType, ServerType, now \in Nat, NEW c \in Clients, NEW f \in Files,
           StoreCall(c, f)
    PROVE  /\ ServerType' /\ OnlyServed(c, f)
           /\ srv[f] # Absent => srv'[f] # Absent
           /\ local[c][f] = Absent => UNCHANGED <<server, call>>
           /\ call'[c] = call[c] \/ (call'[c].op = "store" /\ call'[c].file = f /\ srv'[f] # Absent)
<1>1. CASE ~Accepts(c, f)
  BY <1>1 DEF StoreCall, server, ServerType, OnlyServed, OnlyCall
<1>2. CASE Accepts(c, f)
  <2> DEFINE data == Data(local[c][f])
  <2>1. local[c][f] \in Copies
    BY DEF FoldersType
  <2>2. data \in Contents
    BY <2>1, CopiesType
  <2>3. local[c][f] # Absent
    BY <1>2 DEF Accepts, Data
  <2>4. PICK n \in 0 .. Len(data) - 1 :
            /\ srv' = [srv EXCEPT ![f] = File(SubSeq(data, 1, n), now)]
            /\ call' = [call EXCEPT ![c] = Under("store", f, data, n)]
    BY <1>2 DEF StoreCall
  <2>5. lockList' = [lockList EXCEPT ![f] = c]
    BY <1>2 DEF StoreCall
  <2> DEFINE file == File(SubSeq(data, 1, n), now)
             k    == Under("store", f, data, n)
  <2> HIDE DEF data
  <2>6. n \in Nat /\ SubSeq(data, 1, n) \in Contents
    <3>1. Len(data) \in Nat /\ \A m \in 0 .. Len(data) : SubSeq(data, 1, m) \in Contents
      BY <2>2, ContentsType
    <3> QED BY <2>4, <3>1
  <2>7. file \in Copies /\ file # Absent
    BY <2>6, CopiesType
  <2>8. k \in Calls /\ k.op = "store" /\ k.file = f
    BY <2>2, <2>6, UnderType
  <2> HIDE DEF file, k
  <2>9. srv' = [srv EXCEPT ![f] = file] /\ call' = [call EXCEPT ![c] = k]
    BY <2>4 DEF file, k
  <2>10. ServerType' /\ OnlyServed(c, f) /\ srv'[f] = file /\ call'[c] = k
    BY <2>5, <2>7, <2>8, <2>9 DEF ServerType, OnlyServed, OnlyCall
  <2> QED BY <2>3, <2>7, <2>8, <2>10
<1> QED BY <1>1, <1>2

\* A call whose file has lost its name is the same call.
LEMMA NameGoneType ==
    ASSUME NEW k \in Calls
    PROVE  LET l == NameGone(k)
           IN  l \in Calls /\ l.file = k.file /\ l.op = k.op /\ (l = NoCall <=> k = NoCall)
<1>1. CASE k.rest # "open"
  BY <1>1 DEF NameGone
<1>2. CASE k.rest = "open"
  <2>1. k # NoCall
    BY <1>2 DEF NoCall
  <2>2. k \in [op : {"store", "fetch"}, file : Files, data : Contents, done : Nat,
               rest : {"open", "gone", "failed"}]
    BY <2>1 DEF Calls
  <2> DEFINE l == [k EXCEPT !.rest = "gone"]
  <2>3. /\ l \in [op : {"store", "fetch"}, file : Files, data : Contents, done : Nat,
                  rest : {"open", "gone", "failed"}]
        /\ l.file = k.file /\ l.op = k.op
    BY <2>2
  <2>4. l.op # NoCall.op
    BY <2>2, <2>3 DEF NoCall
  <2> QED BY <1>2, <2>1, <2>3, <2>4 DEF NameGone, Calls
<1> QED BY <1>1, <1>2

\* A delete removes no other file, and ends no call.
LEMMA DeleteEffect ==
    ASSUME FoldersType, ServerType, NEW c \in Clients, NEW f \in Files, DeleteCall(c, f)
    PROVE  /\ FoldersType' /\ ServerType' /\ OnlyFile(c, f)
           /\ \A g \in Files \ {f} : srv'[g] = srv[g]
           /\ \A d \in Clients : call'[d].file = call[d].file /\ call'[d].op = call[d].op
           /\ \A d \in Clients : call'[d] = NoCall <=> call[d] = NoCall
<1>1. CASE ~up \/ srv[f] = Absent
  BY <1>1 DEF DeleteCall, server, folders, FoldersType, ServerType, OnlyFile
<1>2. CASE up /\ srv[f] # Absent
  <2>1. srv' = [srv EXCEPT ![f] = Absent] /\ UNCHANGED lockList
    BY <1>2 DEF DeleteCall
  <2>2. call' = [d \in Clients |->
            IF call[d].op = "store" /\ call[d].file = f THEN NameGone(call[d]) ELSE call[d]]
    BY <1>2 DEF DeleteCall
  <2>3. ASSUME NEW d \in Clients
        PROVE  /\ call'[d] \in Calls
               /\ call'[d].file = call[d].file /\ call'[d].op = call[d].op
               /\ call'[d] = NoCall <=> call[d] = NoCall
    <3>1. call[d] \in Calls
      BY DEF ServerType
    <3>2. call'[d] \in {call[d], NameGone(call[d])}
      BY <2>2
    <3> QED BY <3>1, <3>2, NameGoneType
  <2>4. ServerType' /\ \A g \in Files \ {f} : srv'[g] = srv[g]
    <3>1. srv' \in [Files -> Copies] /\ \A g \in Files \ {f} : srv'[g] = srv[g]
      BY <2>1 DEF ServerType, Copies
    <3>2. call' \in [Clients -> Calls]
      BY <2>2, <2>3
    <3> QED BY <2>1, <3>1, <3>2 DEF ServerType
  <2>5. CASE Unlink(c, f)
    BY <2>3, <2>4, <2>5, UnlinkEffect
  <2>6. CASE UNCHANGED folders
    BY <2>3, <2>4, <2>6 DEF folders, FoldersType, OnlyFile
  <2> QED BY <1>2, <2>5, <2>6 DEF DeleteCall
<1> QED BY <1>1, <1>2
-----------------------------------------------------------------------------
(* Types.                                                                   *)

RoundsType == DOMAIN async = Clients /\ \A c \in Clients : IsRound(async[c])

WatchersType ==
    /\ batch \in [Clients -> EventQueues]
    /\ \A c \in Clients : Len(batch[c]) <= MaxQueue
    /\ mux \in [Clients -> {Nobody, "watcher", "async"}]

UsersType ==
    /\ scenario \in AllScenarios /\ up \in BOOLEAN
    /\ created \subseteq Files /\ removed \subseteq Files /\ lost \subseteq Files

\* TypeOK in parts, before and after a step.
LEMMA TypeParts ==
    /\ TypeOK <=> FoldersType /\ ServerType /\ RoundsType /\ WatchersType /\ UsersType /\ now \in Nat
    /\ TypeOK' <=> FoldersType' /\ ServerType' /\ RoundsType' /\ WatchersType' /\ UsersType'
                   /\ now' \in Nat
BY DEF TypeOK, FoldersType, ServerType, RoundsType, WatchersType, UsersType

\* A round with another label, listing or names to look at is a round.
LEMMA RoundType ==
    /\ IsRound(Asked)
    /\ \A r, T : IsRound(r) /\ T \subseteq Files => IsRound([r EXCEPT !.todo = T])
    /\ \A r, T : IsRound(r) /\ T \subseteq Files => IsRound([r EXCEPT !.names = T])
    /\ \A r, l : IsRound(r) /\ l \in {"asked", "answered", "compare"} => IsRound([r EXCEPT !.pc = l])
    /\ \A r, list : IsRound(r) /\ IsListing(list) => IsRound([r EXCEPT !.listing = list])
<1>1. IsRound(Asked)
  <2>1. << >> \in [{} -> [mtime : Nat, empty : BOOLEAN]] /\ DOMAIN << >> = {}
    OBVIOUS
  <2> QED BY <2>1 DEF Asked, IsRound, IsListing
<1> QED BY <1>1 DEF IsRound

\* The kernel's, the watchers' and the mutexes' part of the state is typed after
\* any step that handles some events.
LEMMA UnlockType ==
    ASSUME WatchersType, WatchersUnlock
    PROVE  mux' \in [Clients -> {Nobody, "watcher", "async"}]
BY DEF WatchersType, WatchersUnlock

\* The initial folders are typed.
LEMMA TypeInit == Init => TypeOK
<1> SUFFICES ASSUME Init PROVE TypeOK
  OBVIOUS
<1>1. \A v \in Versions : v \in Contents
  BY SyncAssumption
<1>2. {Absent} \cup {File(v, 0) : v \in Versions} \subseteq Copies
  BY <1>1, CopiesType DEF Copies
<1>3. << >> \in EventQueues /\ Len(<< >>) = 0
  BY EmptySeq DEF EventQueues
<1>4. FoldersType
  BY <1>2, <1>3, SyncAssumption DEF Init, FoldersType
<1>5. ServerType
  BY <1>2 DEF Init, ServerType, Calls
<1>6. RoundsType
  BY RoundType DEF Init, RoundsType
<1>7. WatchersType
  BY <1>3, SyncAssumption DEF Init, WatchersType
<1>8. UsersType /\ now \in Nat
  BY SyncAssumption DEF Init, UsersType
<1> QED BY <1>4, <1>5, <1>6, <1>7, <1>8, TypeParts

\* The end of a store keeps the types.
LEMMA TypeEndStore ==
    ASSUME TypeOK, NEW c \in Clients, EndStore(c)
    PROVE  TypeOK'
<1>1. FoldersType /\ ServerType /\ RoundsType /\ WatchersType /\ UsersType /\ now \in Nat
  BY TypeParts
<1>2. call[c] \in Calls /\ call[c] # NoCall
  BY <1>1 DEF ServerType, EndStore, NoCall
<1>3. File(call[c].data, now) \in Copies
  BY <1>1, <1>2, CopiesType DEF Calls
<1>4. ServerType'
  BY <1>1, <1>3 DEF EndStore, ServerType, Calls
<1>5. FoldersType' /\ RoundsType' /\ UsersType' /\ now' \in Nat
  BY <1>1 DEF EndStore, FoldersType, RoundsType, UsersType, folders, history
<1>6. WatchersType'
  BY <1>1, UnlockType DEF EndStore, WatchersType
<1> QED BY <1>4, <1>5, <1>6, TypeParts

\* The end of a fetch leaves its file, or counts it as lost.
LEMMA EndFetchEffect ==
    ASSUME FoldersType, ServerType, now \in Nat, lost \subseteq Files, NEW c \in Clients, EndFetch(c)
    PROVE  /\ call[c].file \in Files
           /\ FoldersType' /\ OnlyFile(c, call[c].file)
           /\ lost \subseteq lost' /\ lost' \subseteq Files
           /\ call[c].file \notin lost' =>
                 /\ NoDelete(events[c], call[c].file) => NoDelete(events'[c], call[c].file)
                 /\ local[c][call[c].file] # Absent => local'[c][call[c].file] # Absent
<1> DEFINE k == call[c]
<1>1. k.file \in Files /\ k.data \in Contents /\ k.done \in Nat
  <2>1. k \in Calls /\ k # NoCall
    BY DEF ServerType, EndFetch, NoCall
  <2> QED BY <2>1 DEF Calls
<1>2. \/ Write(c, k.file, Overlaid(Data(local[c][k.file]), k.data, k.done)) /\ UNCHANGED lost
      \/ UNCHANGED <<folders, lost>>
      \/ FetchFails(c, k.file)
  BY DEF EndFetch
<1> HIDE DEF k
<1>3. CASE Write(c, k.file, Overlaid(Data(local[c][k.file]), k.data, k.done)) /\ UNCHANGED lost
  <2>1. Data(local[c][k.file]) \in Contents
    BY <1>1, CopiesType DEF FoldersType
  <2> DEFINE data == Overlaid(Data(local[c][k.file]), k.data, k.done)
  <2>2. data \in Contents
    BY <1>1, <2>1, OverlaidType
  <2> HIDE DEF data
  <2>3. Write(c, k.file, data)
    BY <1>3 DEF data
  <2>4. FoldersType' /\ OnlyFile(c, k.file) /\ local'[c][k.file] # Absent
        /\ (NoDelete(events[c], k.file) => NoDelete(events'[c], k.file))
    BY <1>1, <2>2, <2>3, WriteEffect
  <2> QED BY <1>1, <1>3, <2>4 DEF k
<1>4. CASE UNCHANGED <<folders, lost>>
  BY <1>1, <1>4 DEF k, folders, FoldersType, OnlyFile
<1>5. CASE FetchFails(c, k.file)
  <2>1. FoldersType' /\ OnlyFile(c, k.file) /\ lost \subseteq lost' /\ lost' \subseteq Files
        /\ (k.file \notin lost' => UNCHANGED folders)
    BY <1>1, <1>5, FailEffect
  <2> QED BY <1>1, <2>1 DEF k, folders
<1> QED BY <1>2, <1>3, <1>4, <1>5

\* The end of a fetch keeps the types.
LEMMA TypeEndFetch ==
    ASSUME TypeOK, NEW c \in Clients, EndFetch(c)
    PROVE  TypeOK'
<1>1. FoldersType /\ ServerType /\ RoundsType /\ WatchersType /\ UsersType /\ now \in Nat
  BY TypeParts
<1>2. FoldersType' /\ lost' \subseteq Files
  BY <1>1, EndFetchEffect DEF UsersType
<1>3. ServerType'
  BY <1>1 DEF EndFetch, ServerType, server, Calls
<1>4. RoundsType' /\ WatchersType' /\ UsersType' /\ now' \in Nat
  BY <1>1, <1>2 DEF EndFetch, RoundsType, WatchersType, UsersType
<1> QED BY <1>2, <1>3, <1>4, TypeParts

\* A user keeps the types.
LEMMA TypeUser ==
    ASSUME TypeOK, NEW c \in Clients, NEW f \in Files, Save(c, f) \/ Remove(c, f)
    PROVE  TypeOK'
<1>1. FoldersType /\ ServerType /\ RoundsType /\ WatchersType /\ UsersType /\ now \in Nat
  BY TypeParts
<1>2. ServerType' /\ RoundsType' /\ WatchersType' /\ now' \in Nat
  <2>1. CASE UNCHANGED <<server, call, async, batch, mux, now>>
    BY <1>1, <2>1 DEF server, ServerType, RoundsType, WatchersType
  <2>2. CASE Remove(c, f)
    <3>1. call'[c] \in Calls /\ \A d \in Clients \ {c} : call'[d] = call[d]
      <4>1. call[c] \in Calls /\ call'[c] \in {call[c], NameGone(call[c])}
        BY <1>1, <2>2 DEF Remove, ServerType
      <4> QED BY <1>1, <2>2, <4>1, NameGoneType DEF Remove, ServerType
    <3>2. ServerType'
      BY <1>1, <2>2, <3>1 DEF Remove, server, ServerType
    <3> QED BY <1>1, <2>2, <3>2 DEF Remove, RoundsType, WatchersType
  <2> QED BY <2>1, <2>2 DEF Save
<1>3. FoldersType'
  <2>1. CASE Save(c, f)
    <3>1. scenario.saved \subseteq Contents
      BY <1>1, SyncAssumption DEF UsersType, AllScenarios
    <3> QED BY <1>1, <2>1, <3>1, WriteEffect DEF Save
  <2>2. CASE Remove(c, f)
    BY <1>1, <2>2, UnlinkEffect DEF Remove
  <2> QED BY <2>1, <2>2
<1>4. UsersType'
  <2>1. scenario \in AllScenarios
    BY <1>1 DEF UsersType
  <2>2. /\ scenario.create > 0 => [scenario EXCEPT !.create = @ - 1] \in AllScenarios
        /\ scenario.modify > 0 => [scenario EXCEPT !.modify = @ - 1] \in AllScenarios
        /\ scenario.remove > 0 => [scenario EXCEPT !.remove = @ - 1] \in AllScenarios
    BY <2>1 DEF AllScenarios
  <2> QED BY <1>1, <2>2 DEF Save, Remove, UsersType
<1> QED BY <1>2, <1>3, <1>4, TypeParts

\* The watcher's steps keep the types.
LEMMA TypeWatcher ==
    ASSUME TypeOK, NEW c \in Clients, ReadEvents(c) \/ WatcherLocks(c) \/ HandleEvent(c)
    PROVE  TypeOK'
<1>1. FoldersType /\ ServerType /\ RoundsType /\ WatchersType /\ UsersType /\ now \in Nat
  BY TypeParts
<1>2. RoundsType' /\ UsersType' /\ now' \in Nat
  BY <1>1 DEF ReadEvents, WatcherLocks, HandleEvent, RoundsType, UsersType, history
<1>3. CASE ReadEvents(c)
  <2>1. << >> \in EventQueues /\ Len(<< >>) = 0
    BY EmptySeq DEF EventQueues
  <2>2. FoldersType' /\ WatchersType'
    BY <1>1, <1>3, <2>1, SyncAssumption DEF ReadEvents, FoldersType, WatchersType
  <2>3. ServerType'
    BY <1>1, <1>3 DEF ReadEvents, ServerType, server
  <2> QED BY <1>2, <2>2, <2>3, TypeParts
<1>4. CASE WatcherLocks(c)
  <2>1. FoldersType' /\ ServerType' /\ WatchersType'
    BY <1>1, <1>4 DEF WatcherLocks, FoldersType, ServerType, WatchersType, folders, server
  <2> QED BY <1>2, <2>1, TypeParts
<1>5. CASE HandleEvent(c)
  <2> DEFINE e == Head(batch[c])
             rest == Tail(batch[c])
  <2>1. e \in Events /\ rest \in EventQueues /\ Len(rest) <= MaxQueue
    <3>1. batch[c] \in Seq(Events) /\ batch[c] # << >> /\ Len(batch[c]) <= MaxQueue
      BY <1>1, <1>5 DEF HandleEvent, WatchersType, EventQueues, Events
    <3>2. /\ Head(batch[c]) \in Events /\ Tail(batch[c]) \in Seq(Events)
          /\ Len(Tail(batch[c])) = Len(batch[c]) - 1 /\ Len(batch[c]) \in Nat
      BY <3>1, HeadTailProperties, LenProperties
    <3> QED BY <3>1, <3>2, SyncAssumption DEF EventQueues, Events
  <2>2. batch' = [batch EXCEPT ![c] = rest] /\ WatchersUnlock
    BY <1>5 DEF HandleEvent
  <2>3. \/ StoreCall(c, e.file) /\ UNCHANGED folders
        \/ DeleteCall(c, e.file)
    BY <1>5 DEF HandleEvent
  <2> HIDE DEF e, rest
  <2>4. e.file \in Files
    BY <2>1 DEF Events
  <2>5. WatchersType'
    <3>1. mux' \in [Clients -> {Nobody, "watcher", "async"}]
      BY <1>1, <2>2, UnlockType
    <3> QED BY <1>1, <2>1, <2>2, <3>1 DEF WatchersType
  <2>6. FoldersType' /\ ServerType'
    <3>1. CASE StoreCall(c, e.file) /\ UNCHANGED folders
      <4>1. FoldersType'
        BY <1>1, <3>1 DEF FoldersType, folders
      <4> QED BY <1>1, <2>4, <3>1, <4>1, StoreEffect
    <3>2. CASE DeleteCall(c, e.file)
      BY <1>1, <2>4, <3>2, DeleteEffect
    <3> QED BY <2>3, <3>1, <3>2
  <2> QED BY <1>2, <2>5, <2>6, TypeParts
<1> QED BY <1>3, <1>4, <1>5

\* An answer, of the files there are, keeps the types.
LEMMA TypeAnswer ==
    ASSUME TypeOK, NEW c \in Clients, Answer(c)
    PROVE  TypeOK'
<1>1. FoldersType /\ ServerType /\ RoundsType /\ WatchersType /\ UsersType /\ now \in Nat
  BY TypeParts
<1> DEFINE all   == [f \in Listed |-> [mtime |-> srv[f].mtime, empty |-> Data(srv[f]) = Empty]]
           list  == IF up THEN all ELSE Failed
           first == [async[c] EXCEPT !.pc = "answered"]
           round == [first EXCEPT !.listing = list]
<1>2. IsListing(list)
  <2>1. ASSUME NEW f \in Listed PROVE f \in Files /\ srv[f].mtime \in Nat
    <3>1. f \in Files /\ srv[f] \in Copies /\ srv[f] # Absent
      BY <1>1 DEF Listed, ServerType
    <3> QED BY <3>1, CopiesType
  <2>2. all \in [Listed -> [mtime : Nat, empty : BOOLEAN]] /\ DOMAIN all = Listed
    BY <2>1
  <2>3. Listed \subseteq Files
    BY DEF Listed
  <2> HIDE DEF all
  <2> QED BY <2>2, <2>3 DEF IsListing
<1>3. async' = [async EXCEPT ![c].pc = "answered", ![c].listing = list]
  BY DEF Answer
<1> HIDE DEF list
<1>4. async' = [async EXCEPT ![c] = round]
  BY <1>3
<1>5. IsRound(async[c])
  BY <1>1 DEF RoundsType
<1>6. IsRound(first)
  BY <1>5, RoundType
<1> HIDE DEF first
<1>7. IsRound(round)
  BY <1>2, <1>6, RoundType
<1> HIDE DEF round
<1>8. RoundsType'
  BY <1>1, <1>4, <1>7 DEF RoundsType
<1>9. FoldersType' /\ ServerType' /\ WatchersType' /\ UsersType' /\ now' \in Nat
  BY <1>1 DEF Answer, FoldersType, ServerType, WatchersType, UsersType, folders, server, history
<1> QED BY <1>8, <1>9, TypeParts

\* The async thread's start of a round keeps the types.
LEMMA TypeAsyncLocks ==
    ASSUME TypeOK, NEW c \in Clients, AsyncLocks(c)
    PROVE  TypeOK'
<1>1. FoldersType /\ ServerType /\ RoundsType /\ WatchersType /\ UsersType /\ now \in Nat
  BY TypeParts
<1>2. IsRound(async[c])
  BY <1>1 DEF RoundsType
<1>4. RoundsType'
  <2>1. CASE async' = [async EXCEPT ![c] = Asked]
    BY <1>1, <2>1, RoundType DEF RoundsType
  <2>2. CASE /\ async[c].listing # Failed
             /\ async' = [async EXCEPT ![c].pc = "compare", ![c].names = Files,
                                       ![c].todo = DOMAIN async[c].listing]
    <3> DEFINE first  == [async[c] EXCEPT !.pc = "compare"]
               second == [first EXCEPT !.names = Files]
               round  == [second EXCEPT !.todo = DOMAIN async[c].listing]
    <3>1. DOMAIN async[c].listing \subseteq Files
      BY <1>2, <2>2 DEF IsRound, IsListing
    <3>2. async' = [async EXCEPT ![c] = round]
      BY <2>2
    <3>3. IsRound(first)
      BY <1>2, RoundType
    <3> HIDE DEF first
    <3>4. IsRound(second)
      BY <3>3, RoundType
    <3> HIDE DEF second
    <3>5. IsRound(round)
      BY <3>1, <3>4, RoundType
    <3> HIDE DEF round
    <3> QED BY <1>1, <3>2, <3>5 DEF RoundsType
  <2> QED BY <2>1, <2>2 DEF AsyncLocks
<1>5. WatchersType'
  BY <1>1 DEF AsyncLocks, WatchersType
<1>6. FoldersType' /\ ServerType' /\ UsersType' /\ now' \in Nat
  BY <1>1 DEF AsyncLocks, FoldersType, ServerType, UsersType, folders, server, history
<1> QED BY <1>4, <1>5, <1>6, TypeParts

\* The async thread's comparisons and removals keep the types.
LEMMA TypeAsync ==
    ASSUME TypeOK, NEW c \in Clients, NEW f \in Files,
           CompareFile(c, f) \/ ScanFile(c, f)
    PROVE  TypeOK'
<1>1. FoldersType /\ ServerType /\ RoundsType /\ WatchersType /\ UsersType /\ now \in Nat
  BY TypeParts
<1>2. IsRound(async[c])
  BY <1>1 DEF RoundsType
<1>4. CASE CompareFile(c, f)
  <2> DEFINE round == [async[c] EXCEPT !.todo = @ \ {f}]
  <2>1. async' = [async EXCEPT ![c] = round]
    BY <1>4 DEF CompareFile
  <2>2. IsRound(round)
    <3>1. async[c].todo \ {f} \subseteq Files
      BY <1>2 DEF IsRound
    <3> QED BY <1>2, <3>1, RoundType
  <2> HIDE DEF round
  <2>3. RoundsType'
    BY <1>1, <2>1, <2>2 DEF RoundsType
  <2>4. WatchersType' /\ UsersType' /\ now' \in Nat
    <3>1. lost' \subseteq Files
      BY <1>1, <1>4, FetchEffect DEF CompareFile, UsersType
    <3> QED BY <1>1, <1>4, <3>1 DEF CompareFile, WatchersType, UsersType
  <2>5. FoldersType' /\ ServerType'
    <3>1. CASE FetchCall(c, f) /\ UNCHANGED server
      BY <1>1, <3>1, FetchEffect DEF UsersType
    <3>2. CASE StoreCall(c, f) /\ UNCHANGED <<folders, lost>>
      <4>1. FoldersType'
        BY <1>1, <3>2 DEF FoldersType, folders
      <4> QED BY <1>1, <3>2, <4>1, StoreEffect
    <3>3. CASE UNCHANGED <<server, folders, call, lost>>
      BY <1>1, <3>3 DEF FoldersType, ServerType, server, folders
    <3> QED BY <1>4, <3>1, <3>2, <3>3 DEF CompareFile
  <2> QED BY <2>3, <2>4, <2>5, TypeParts
<1>5. CASE ScanFile(c, f)
  <2>1. RoundsType'
    <3>1. CASE async' = [async EXCEPT ![c] = Asked]
      BY <1>1, <3>1, RoundType DEF RoundsType
    <3>2. CASE async' = [async EXCEPT ![c].names = @ \ {f}]
      <4> DEFINE round == [async[c] EXCEPT !.names = async[c].names \ {f}]
      <4>1. async' = [async EXCEPT ![c] = round]
        BY <3>2
      <4>2. IsRound(round)
        <5>1. async[c].names \ {f} \subseteq Files
          BY <1>2 DEF IsRound
        <5> QED BY <1>2, <5>1, RoundType
      <4> HIDE DEF round
      <4> QED BY <1>1, <4>1, <4>2 DEF RoundsType
    <3> QED BY <1>5, <3>1, <3>2 DEF ScanFile
  <2>2. WatchersType' /\ UsersType' /\ now' \in Nat /\ ServerType'
    BY <1>1, <1>5 DEF ScanFile, WatchersType, UsersType, ServerType, server, history
  <2>3. FoldersType'
    <3>1. CASE UNCHANGED folders
      BY <1>1, <3>1 DEF FoldersType, folders
    <3>2. CASE Unlink(c, f)
      BY <1>1, <3>2, UnlinkEffect
    <3> QED BY <1>5, <3>1, <3>2 DEF ScanFile
  <2> QED BY <2>1, <2>2, <2>3, TypeParts
<1> QED BY <1>4, <1>5

\* A call that is marked as failed is a call.
LEMMA FailedType ==
    ASSUME NEW k \in Calls, k # NoCall
    PROVE  LET l == [k EXCEPT !.rest = "failed"]
           IN  l \in Calls /\ l # NoCall /\ l.file = k.file /\ l.op = k.op
<1>1. k \in [op : {"store", "fetch"}, file : Files, data : Contents, done : Nat,
             rest : {"open", "gone", "failed"}]
  BY DEF Calls
<1> QED BY <1>1 DEF Calls, NoCall

\* A stop of the server keeps the types, and so does its start.
LEMMA TypeStop ==
    ASSUME TypeOK, Stop
    PROVE  TypeOK'
<1>1. FoldersType /\ ServerType /\ RoundsType /\ WatchersType /\ UsersType /\ now \in Nat
  BY TypeParts
<1>2. ServerType'
  <2>1. ASSUME NEW c \in Clients PROVE call'[c] \in Calls
    <3>1. call[c] \in Calls
      BY <1>1 DEF ServerType
    <3>2. call'[c] = IF call[c] # NoCall THEN [call[c] EXCEPT !.rest = "failed"] ELSE NoCall
      BY DEF Stop, Busy
    <3> QED BY <3>1, <3>2, FailedType
  <2>2. call' = [c \in Clients |-> call'[c]]
    BY DEF Stop
  <2>3. call' \in [Clients -> Calls]
    BY <2>1, <2>2
  <2> QED BY <1>1, <2>3 DEF Stop, ServerType
<1>3. RoundsType'
  <2>1. ASSUME NEW c \in Clients PROVE IsRound(async'[c])
    <3> DEFINE first == [async[c] EXCEPT !.pc = "answered"]
               round == [first EXCEPT !.listing = Failed]
    <3>1. async'[c] = IF async[c].pc = "asked" THEN round ELSE async[c]
      BY DEF Stop
    <3>2. IsRound(async[c]) /\ IsListing(Failed)
      BY <1>1 DEF RoundsType, IsListing
    <3>3. IsRound(first)
      BY <3>2, RoundType
    <3> HIDE DEF first
    <3>4. IsRound(round)
      BY <3>2, <3>3, RoundType
    <3> HIDE DEF round
    <3> QED BY <3>1, <3>2, <3>4
  <2>2. DOMAIN async' = Clients
    BY DEF Stop
  <2> QED BY <2>1, <2>2 DEF RoundsType
<1>4. UsersType'
  <2>1. scenario.restart > 0 => [scenario EXCEPT !.restart = @ - 1] \in AllScenarios
    BY <1>1 DEF UsersType, AllScenarios
  <2> QED BY <1>1, <2>1 DEF Stop, UsersType, history
<1>5. FoldersType' /\ WatchersType' /\ now' \in Nat
  BY <1>1 DEF Stop, FoldersType, WatchersType, folders
<1> QED BY <1>2, <1>3, <1>4, <1>5, TypeParts

\* A start of the server changes nothing but that it runs.
LEMMA TypeStart ==
    ASSUME TypeOK, Start
    PROVE  TypeOK'
BY DEF Start, TypeOK, server, folders, history

\* The values of a function of a finite set are finitely many.
LEMMA ImageFinite ==
    ASSUME NEW S, IsFiniteSet(S), NEW g
    PROVE  IsFiniteSet({g[x] : x \in S})
<1> DEFINE T == {g[x] : x \in S}
           h == [x \in S |-> g[x]]
<1>1. h \in Surjection(S, T)
  BY DEF Surjection
<1> HIDE DEF h, T
<1>2. IsFiniteSet(T)
  BY <1>1, FS_Surjection
<1> QED BY <1>2 DEF T

\* As many sets as there are members of a finite set, each finite, are finite together.
LEMMA UnionFinite ==
    ASSUME NEW S, IsFiniteSet(S), NEW g, \A x \in S : IsFiniteSet(g[x])
    PROVE  IsFiniteSet(UNION {g[x] : x \in S})
<1>1. IsFiniteSet({g[x] : x \in S})
  BY ImageFinite
<1>2. \A T \in {g[x] : x \in S} : IsFiniteSet(T)
  OBVIOUS
<1> QED BY <1>1, <1>2, FS_UNION

\* There are finitely many times to compare.
LEMMA StampsFinite == ASSUME TypeOK PROVE IsFiniteSet(Stamps)
<1>1. IsFiniteSet(Files) /\ IsFiniteSet(Clients)
  BY SyncAssumption
<1> DEFINE served == [f \in Listed |-> srv[f].mtime]
           inFolder == [c \in Clients |->
               {local[c][f].mtime : f \in {g \in Files : local[c][g] # Absent}}]
           heard == {d \in Clients : async[d].listing # Failed}
           listed == [c \in heard |-> {async[c].listing[f].mtime : f \in DOMAIN async[c].listing}]
<1>2. IsFiniteSet({srv[f].mtime : f \in Listed})
  <2>1. IsFiniteSet(Listed)
    BY <1>1, FS_Subset DEF Listed
  <2>2. IsFiniteSet({served[f] : f \in Listed})
    BY <2>1, ImageFinite
  <2> QED BY <2>2
<1>3. IsFiniteSet(UNION {inFolder[c] : c \in Clients})
  <2>1. ASSUME NEW c \in Clients PROVE IsFiniteSet(inFolder[c])
    <3> DEFINE present == {g \in Files : local[c][g] # Absent}
               mtimes  == [f \in present |-> local[c][f].mtime]
    <3>1. IsFiniteSet(present)
      BY <1>1, FS_Subset
    <3>2. IsFiniteSet({mtimes[f] : f \in present})
      <4> HIDE DEF present, mtimes
      <4> QED BY <3>1, ImageFinite
    <3> QED BY <3>2
  <2> HIDE DEF inFolder
  <2> QED BY <1>1, <2>1, UnionFinite
<1>4. IsFiniteSet(UNION {listed[c] : c \in heard})
  <2>1. IsFiniteSet(heard)
    BY <1>1, FS_Subset
  <2>2. ASSUME NEW c \in heard PROVE IsFiniteSet(listed[c])
    <3> DEFINE list   == async[c].listing
               mtimes == [f \in DOMAIN list |-> list[f].mtime]
    <3>1. DOMAIN list \subseteq Files
      BY DEF TypeOK, IsRound, IsListing
    <3>2. IsFiniteSet(DOMAIN list)
      BY <1>1, <3>1, FS_Subset
    <3>3. IsFiniteSet({mtimes[f] : f \in DOMAIN list})
      <4> HIDE DEF list, mtimes
      <4> QED BY <3>2, ImageFinite
    <3> QED BY <3>3
  <2> HIDE DEF heard, listed
  <2> QED BY <2>1, <2>2, UnionFinite
<1>5. Stamps = {srv[f].mtime : f \in Listed} \cup (UNION {inFolder[c] : c \in Clients})
                 \cup (UNION {listed[c] : c \in heard})
  <2>1. {inFolder[c] : c \in Clients}
          = {{local[c][f].mtime : f \in {g \in Files : local[c][g] # Absent}} : c \in Clients}
    OBVIOUS
  <2>2. {listed[c] : c \in heard}
          = {{async[c].listing[f].mtime : f \in DOMAIN async[c].listing} : c \in heard}
    OBVIOUS
  <2> QED BY <2>1, <2>2 DEF Stamps
<1> HIDE DEF inFolder, listed, heard
<1>6. IsFiniteSet({srv[f].mtime : f \in Listed} \cup (UNION {inFolder[c] : c \in Clients}))
  BY <1>2, <1>3, FS_Union
<1> QED BY <1>4, <1>5, <1>6, FS_Union

Rank(t) == Cardinality({s \in Stamps : s < t})

\* A file and a listing with other times: what Tick makes of them.
Renamed(file) == IF file = Absent THEN Absent ELSE [file EXCEPT !.mtime = Rank(@)]

RenamedListing(list) ==
    IF list = Failed THEN Failed
    ELSE [f \in DOMAIN list |-> [list[f] EXCEPT !.mtime = Rank(@)]]

\* Tick, in the words of these definitions.
LEMMA TickRenames ==
    ASSUME Tick
    PROVE  /\ now' = Cardinality(Stamps)
           /\ srv' = [f \in Files |-> Renamed(srv[f])]
           /\ local' = [c \in Clients |-> [f \in Files |-> Renamed(local[c][f])]]
           /\ async' = [c \in Clients |->
                 [async[c] EXCEPT !.listing = RenamedListing(@)]]
           /\ UNCHANGED <<lockList, up, events, batch, mux, call, scenario, history>>
BY Zenon DEF Tick, Renamed, RenamedListing, Rank

\* A renamed file exists where it did, a listing names the same files.
LEMMA RenamedType ==
    ASSUME TypeOK
    PROVE  /\ Cardinality(Stamps) \in Nat
           /\ \A x \in Copies : Renamed(x) \in Copies /\ (Renamed(x) = Absent <=> x = Absent)
           /\ \A list : IsListing(list) => IsListing(RenamedListing(list))
           /\ \A list : list # Failed => DOMAIN RenamedListing(list) = DOMAIN list
<1>1. \A t : Rank(t) \in Nat
  <2> TAKE t
  <2>1. IsFiniteSet({s \in Stamps : s < t})
    BY StampsFinite, FS_Subset
  <2> QED BY <2>1, FS_CardinalityType DEF Rank
<1>2. Cardinality(Stamps) \in Nat
  BY StampsFinite, FS_CardinalityType
<1>3. ASSUME NEW x \in Copies
      PROVE  Renamed(x) \in Copies /\ (Renamed(x) = Absent <=> x = Absent)
  <2>1. CASE x = Absent
    BY <2>1 DEF Renamed
  <2>2. CASE x # Absent
    <3>1. x \in [data : Contents, mtime : Nat]
      BY <2>2, CopiesType
    <3>2. [x EXCEPT !.mtime = Rank(@)] \in [data : Contents, mtime : Nat]
      BY <1>1, <3>1
    <3>3. Renamed(x) = [x EXCEPT !.mtime = Rank(@)]
      BY <2>2 DEF Renamed
    <3> QED BY <2>2, <3>2, <3>3, SyncAssumption DEF Copies
  <2> QED BY <2>1, <2>2
<1>4. ASSUME NEW list, IsListing(list), list # Failed
      PROVE  IsListing(RenamedListing(list))
  <2> DEFINE renamed == [f \in DOMAIN list |-> [list[f] EXCEPT !.mtime = Rank(@)]]
  <2>1. \A f \in DOMAIN list : list[f] \in [mtime : Nat, empty : BOOLEAN]
    BY <1>4 DEF IsListing
  <2>2. renamed \in [DOMAIN list -> [mtime : Nat, empty : BOOLEAN]] /\ DOMAIN renamed = DOMAIN list
    BY <1>1, <2>1
  <2>3. RenamedListing(list) = renamed
    BY <1>4 DEF RenamedListing
  <2>4. DOMAIN list \subseteq Files
    BY <1>4 DEF IsListing
  <2> HIDE DEF renamed
  <2> QED BY <2>2, <2>3, <2>4 DEF IsListing
<1>5. \A list : list # Failed => DOMAIN RenamedListing(list) = DOMAIN list
  BY DEF RenamedListing
<1>6. IsListing(Failed) /\ RenamedListing(Failed) = Failed
  BY DEF IsListing, RenamedListing
<1> QED BY <1>2, <1>3, <1>4, <1>5, <1>6

\* The next second keeps the types.
LEMMA TypeTick ==
    ASSUME TypeOK, Tick
    PROVE  TypeOK'
<1>1. FoldersType /\ ServerType /\ RoundsType /\ WatchersType /\ UsersType
  BY TypeParts
<1>2. srv' \in [Files -> Copies]
  BY <1>1, TickRenames, RenamedType DEF ServerType
<1>3. local' \in [Clients -> [Files -> Copies]]
  BY <1>1, TickRenames, RenamedType DEF FoldersType
<1>4. RoundsType'
  <2>1. DOMAIN async' = Clients
    BY TickRenames
  <2>2. ASSUME NEW c \in Clients PROVE IsRound(async'[c])
    <3>1. IsRound(async[c]) /\ IsListing(async[c].listing)
      BY <1>1 DEF RoundsType, IsRound
    <3>2. async'[c] = [async[c] EXCEPT !.listing = RenamedListing(async[c].listing)]
      BY TickRenames
    <3>3. IsListing(RenamedListing(async[c].listing))
      BY <3>1, RenamedType
    <3> QED BY <3>1, <3>2, <3>3, RoundType
  <2> QED BY <2>1, <2>2 DEF RoundsType
<1>5. UNCHANGED <<lockList, up, events, batch, mux, call, scenario, history>> /\ now' \in Nat
  BY TickRenames, RenamedType
<1>6. FoldersType' /\ ServerType' /\ WatchersType' /\ UsersType'
  BY <1>1, <1>2, <1>3, <1>5 DEF FoldersType, ServerType, WatchersType, UsersType, history
<1> QED BY <1>4, <1>5, <1>6, TypeParts

\* No step breaks the types.
LEMMA TypeNext == TypeOK /\ [Next]_vars => TypeOK'
<1> SUFFICES ASSUME TypeOK, [Next]_vars PROVE TypeOK'
  OBVIOUS
<1>1. scenario.mounted \subseteq Clients /\ scenario.users \subseteq Clients
  BY DEF TypeOK, AllScenarios
<1>2. ASSUME NEW c \in scenario.users, UserStep(c) PROVE TypeOK'
  BY <1>1, <1>2, TypeUser DEF UserStep
<1>3. ASSUME NEW c \in scenario.mounted, WatcherStep(c) \/ WatcherLocks(c) PROVE TypeOK'
  BY <1>1, <1>3, TypeWatcher DEF WatcherStep
<1>4. ASSUME NEW c \in scenario.mounted, AsyncStep(c) PROVE TypeOK'
  BY <1>1, <1>4, TypeAsync DEF AsyncStep
<1>5. ASSUME NEW c \in scenario.mounted, AsyncLocks(c) PROVE TypeOK'
  BY <1>1, <1>5, TypeAsyncLocks
<1>6. ASSUME NEW c \in scenario.mounted, ServerStep(c) PROVE TypeOK'
  BY <1>1, <1>6, TypeAnswer, TypeEndStore, TypeEndFetch DEF ServerStep
<1>7. CASE Stop \/ Start \/ Tick
  BY <1>7, TypeStop, TypeStart, TypeTick
<1>8. CASE UNCHANGED vars
  BY <1>8 DEF vars, server, folders, history, TypeOK
<1> QED BY <1>2, <1>3, <1>4, <1>5, <1>6, <1>7, <1>8 DEF Next

\* Every variable of the synchronising clients always has its type, and no queue
\* of events is longer than inotify's limit.
THEOREM TypeCorrect == Spec => []TypeOK
<1> QED BY TypeInit, TypeNext, PTL DEF Spec
-----------------------------------------------------------------------------
(* The two threads of a client.                                             *)

\* ThreadsExclude is inductive.  A step that may end the watcher's batch keeps it
\* if it starts no fetch, and no store where nobody has the mutex.
LEMMA ExcludeUnlock ==
    ASSUME ThreadsExclude, WatchersUnlock,
           \A c \in Clients : async'[c].pc = "compare" <=> async[c].pc = "compare",
           \A c \in Clients : call'[c] # NoCall => call[c] # NoCall \/ mux[c] # Nobody,
           \A c \in Clients : call'[c].op = "fetch" => call[c].op = "fetch"
    PROVE  ThreadsExclude'
BY DEF ThreadsExclude, WatchersUnlock, Busy, Nobody

\* A step that touches nothing of what it is about keeps it, too.
LEMMA ExcludeStay ==
    ASSUME ThreadsExclude, UNCHANGED <<batch, mux, call>>,
           \A c \in Clients : async'[c].pc = "compare" <=> async[c].pc = "compare"
    PROVE  ThreadsExclude'
BY DEF ThreadsExclude, Busy

\* The watcher's steps keep its exclusion of the async thread.
LEMMA ExcludeWatcher ==
    ASSUME TypeOK, ThreadsExclude, NEW c \in Clients,
           ReadEvents(c) \/ WatcherLocks(c) \/ HandleEvent(c) \/ EndStore(c) \/ EndFetch(c)
    PROVE  ThreadsExclude'
<1>1. CASE ReadEvents(c)
  BY <1>1 DEF ReadEvents, ThreadsExclude, Busy, TypeOK
<1>2. CASE WatcherLocks(c)
  BY <1>2 DEF WatcherLocks, ThreadsExclude, Busy, TypeOK, Nobody, NoCall
<1>3. CASE HandleEvent(c)
  <2> DEFINE f == Head(batch[c]).file
  <2>1. FoldersType /\ ServerType /\ now \in Nat
    BY TypeParts
  <2>2. f \in Files
    <3>1. batch[c] \in Seq(Events) /\ batch[c] # << >>
      BY <1>3 DEF HandleEvent, TypeOK, EventQueues, Events
    <3>2. Head(batch[c]) \in Events
      BY <3>1, HeadTailProperties
    <3> QED BY <3>2 DEF Events
  <2>3. StoreCall(c, f) \/ DeleteCall(c, f)
    BY <1>3 DEF HandleEvent
  <2> HIDE DEF f
  <2>4. \A d \in Clients : /\ call'[d] # NoCall => call[d] # NoCall \/ mux[d] # Nobody
                           /\ call'[d].op = "fetch" => call[d].op = "fetch"
    <3>1. mux[c] # Nobody
      BY <1>3 DEF HandleEvent, Nobody
    <3>2. CASE StoreCall(c, f)
      <4>1. /\ \A d \in Clients \ {c} : call'[d] = call[d]
            /\ call'[c] = call[c] \/ call'[c].op = "store"
        BY <2>1, <2>2, <3>2, StoreEffect DEF OnlyServed, OnlyCall
      <4> QED BY <3>1, <4>1
    <3>3. CASE DeleteCall(c, f)
      BY <2>1, <2>2, <3>3, DeleteEffect
    <3> QED BY <2>3, <3>2, <3>3
  <2> QED BY <1>3, <2>4, ExcludeUnlock DEF HandleEvent
<1>4. CASE EndStore(c)
  <2>1. \A d \in Clients : /\ call'[d] # NoCall => call[d] # NoCall
                           /\ call'[d].op = "fetch" => call[d].op = "fetch"
    BY <1>4 DEF EndStore, TypeOK, NoCall
  <2> QED BY <1>4, <2>1, ExcludeUnlock DEF EndStore
<1>5. CASE EndFetch(c)
  <2>1. \A d \in Clients : call'[d] = IF d = c THEN NoCall ELSE call[d]
    BY <1>5 DEF EndFetch, TypeOK
  <2>2. call[c].op = "fetch" /\ mux[c] = "async" /\ UNCHANGED <<batch, mux, async>>
    BY <1>5 DEF EndFetch, ThreadsExclude
  <2> QED BY <2>1, <2>2 DEF ThreadsExclude, Busy, NoCall
<1> QED BY <1>1, <1>2, <1>3, <1>4, <1>5

\* The async thread's steps keep its exclusion of the watcher.
LEMMA ExcludeAsync ==
    ASSUME TypeOK, ThreadsExclude, NEW c \in Clients,
           AsyncLocks(c) \/ AsyncStep(c) \/ Answer(c)
    PROVE  ThreadsExclude'
<1>1. DOMAIN async = Clients /\ {"pc", "listing", "todo", "names"} = DOMAIN async[c]
  BY DEF TypeOK, IsRound
<1>2. CASE AsyncLocks(c)
  <2>1. CASE async[c].listing = Failed
    BY <1>1, <1>2, <2>1 DEF AsyncLocks, ThreadsExclude, Busy, Asked, Nobody
  <2>2. CASE async[c].listing # Failed
    <3>1. async'[c].pc = "compare" /\ \A d \in Clients \ {c} : async'[d] = async[d]
      BY <1>1, <1>2, <2>2 DEF AsyncLocks
    <3>2. mux[c] = Nobody /\ mux' = [mux EXCEPT ![c] = "async"] /\ UNCHANGED <<batch, call>>
      BY <1>2, <2>2 DEF AsyncLocks
    <3> QED BY <3>1, <3>2 DEF ThreadsExclude, Busy, TypeOK, Nobody
  <2> QED BY <2>1, <2>2
<1>3. CASE Answer(c)
  <2>1. \A d \in Clients : async'[d].pc = "compare" <=> async[d].pc = "compare"
    BY <1>1, <1>3 DEF Answer
  <2> QED BY <1>3, <2>1, ExcludeStay DEF Answer
<1>4. ASSUME NEW f \in Files, CompareFile(c, f) PROVE ThreadsExclude'
  <2>1. \A d \in Clients : async'[d].pc = async[d].pc
    BY <1>1, <1>4 DEF CompareFile
  <2>2. mux[c] = "async" /\ UNCHANGED <<batch, mux>>
    BY <1>4 DEF CompareFile, ThreadsExclude
  <2>3. \A d \in Clients \ {c} : call'[d] = call[d]
    <3>1. StoreCall(c, f) \/ (FetchCall(c, f) /\ UNCHANGED server) \/ UNCHANGED call
      BY <1>4 DEF CompareFile
    <3> QED BY <3>1, StoreEffect, FetchEffect, TypeParts DEF OnlyServed, OnlyCall, UsersType
  <2> QED BY <2>1, <2>2, <2>3 DEF ThreadsExclude, Busy, Nobody
<1>5. ASSUME NEW f \in Files, ScanFile(c, f) PROVE ThreadsExclude'
  <2>1. CASE async[c].names = {f}
    <3>1. async' = [async EXCEPT ![c] = Asked] /\ mux' = [mux EXCEPT ![c] = Nobody]
      BY <1>5, <2>1 DEF ScanFile
    <3>2. ~Busy(c) /\ UNCHANGED <<batch, call>>
      BY <1>5 DEF ScanFile
    <3>3. \A d \in Clients : call'[d] = call[d] /\ (d # c => mux'[d] = mux[d] /\ async'[d] = async[d])
      BY <1>1, <3>1, <3>2 DEF TypeOK
    <3>4. call[c].op # "fetch" /\ async'[c].pc = "asked" /\ mux'[c] = Nobody
      BY <1>1, <3>1, <3>2 DEF Busy, NoCall, Asked, TypeOK
    <3> QED BY <3>2, <3>3, <3>4 DEF ThreadsExclude, Busy, Nobody
  <2>2. CASE async[c].names # {f}
    <3>1. \A d \in Clients : async'[d].pc = async[d].pc
      BY <1>1, <1>5, <2>2 DEF ScanFile
    <3> QED BY <1>5, <2>2, <3>1, ExcludeStay DEF ScanFile
  <2> QED BY <2>1, <2>2
<1> QED BY <1>2, <1>3, <1>4, <1>5 DEF AsyncStep

\* No step breaks the exclusion.
LEMMA ExcludeNext == TypeOK /\ ThreadsExclude /\ [Next]_vars => ThreadsExclude'
<1> SUFFICES ASSUME TypeOK, ThreadsExclude, [Next]_vars PROVE ThreadsExclude'
  OBVIOUS
<1>1. scenario.mounted \subseteq Clients
  BY DEF TypeOK, AllScenarios
<1>2. ASSUME NEW c \in scenario.users, UserStep(c) PROVE ThreadsExclude'
  <2>1. scenario.users \subseteq Clients
    BY DEF TypeOK, AllScenarios
  <2>2. \A d \in Clients : /\ call'[d].op = call[d].op
                           /\ call'[d] = NoCall <=> call[d] = NoCall
    <3>1. \A d \in Clients : call'[d] \in {call[d], NameGone(call[d])}
      BY <1>2, <2>1 DEF UserStep, Save, Remove, TypeOK
    <3> QED BY <1>2, <2>1, <3>1, NameGoneType DEF TypeOK
  <2>3. UNCHANGED <<batch, mux, async>>
    BY <1>2 DEF UserStep, Save, Remove
  <2> QED BY <2>2, <2>3 DEF ThreadsExclude, Busy
<1>3. ASSUME NEW c \in scenario.mounted,
             WatcherStep(c) \/ WatcherLocks(c) \/ AsyncStep(c) \/ AsyncLocks(c) \/ ServerStep(c)
      PROVE  ThreadsExclude'
  BY <1>1, <1>3, ExcludeWatcher, ExcludeAsync DEF WatcherStep, ServerStep
<1>4. CASE Stop
  <2>1. \A c \in Clients : async'[c].pc = "compare" <=> async[c].pc = "compare"
    <3> SUFFICES ASSUME NEW c \in Clients
                 PROVE  async'[c].pc = "compare" <=> async[c].pc = "compare"
      OBVIOUS
    <3>1. "pc" \in DOMAIN async[c]
      BY DEF TypeOK, IsRound
    <3> QED BY <1>4, <3>1 DEF Stop
  <2>2. \A c \in Clients : /\ call'[c].op = call[c].op
                           /\ call'[c] = NoCall <=> call[c] = NoCall
    <3> SUFFICES ASSUME NEW c \in Clients
                 PROVE  call'[c].op = call[c].op /\ (call'[c] = NoCall <=> call[c] = NoCall)
      OBVIOUS
    <3>1. call[c] \in Calls
      BY DEF TypeOK
    <3>2. call'[c] = IF call[c] # NoCall THEN [call[c] EXCEPT !.rest = "failed"] ELSE NoCall
      BY <1>4 DEF Stop, Busy
    <3> QED BY <3>1, <3>2, FailedType
  <2>3. UNCHANGED <<batch, mux>>
    BY <1>4 DEF Stop
  <2> QED BY <2>1, <2>2, <2>3 DEF ThreadsExclude, Busy
<1>5. CASE Tick
  <2>1. \A c \in Clients : async'[c].pc = async[c].pc
    <3> SUFFICES ASSUME NEW c \in Clients PROVE async'[c].pc = async[c].pc
      OBVIOUS
    <3>1. "pc" \in DOMAIN async[c]
      BY DEF TypeOK, IsRound
    <3> QED BY <1>5, <3>1, TickRenames
  <2> QED BY <1>5, <2>1, TickRenames, ExcludeStay
<1>6. CASE Start \/ UNCHANGED vars
  BY <1>6, ExcludeStay DEF Start, vars
<1> QED BY <1>2, <1>3, <1>4, <1>5, <1>6 DEF Next

\* The watcher and the async thread of a client never work on the folder at the
\* same time, whatever the other clients, the users and the server do.
THEOREM ThreadsExcluded == Spec => []ThreadsExclude
<1>1. Init => ThreadsExclude
  BY DEF Init, ThreadsExclude, Asked, Busy, Nobody, NoCall
<1> QED BY <1>1, TypeCorrect, ExcludeNext, PTL DEF Spec
-----------------------------------------------------------------------------
(* The files that no user has created or removed, and no fetch has lost.    *)

Known == Files \ (created \cup removed \cup lost)

\* The async thread of c has a listing to go by.
Listens(c) == async[c].pc = "compare" \/ (async[c].pc = "answered" /\ async[c].listing # Failed)

\* KnownFilesStay holds because nothing that is still to be done speaks against
\* it: no event says that the file is gone, a listing names it if it is there,
\* and only a file that is there is being stored or fetched.
KnownFile(f) ==
    /\ \A c \in scenario.mounted :
          /\ local[c][f] = Absent <=> srv[f] = Absent
          /\ NoDelete(events[c], f) /\ NoDelete(batch[c], f)
          /\ Listens(c) => (f \in DOMAIN async[c].listing <=> srv[f] # Absent)
    /\ \A c \in Clients : call[c].file = f => srv[f] # Absent

KnownInv == scenario.equal => \A f \in Known : KnownFile(f)

\* Who is mounted does not change, and a file that is known was known before.
LEMMA KnownBefore ==
    ASSUME TypeOK, [Next]_vars
    PROVE  /\ scenario'.mounted = scenario.mounted /\ scenario'.equal = scenario.equal
           /\ Known' \subseteq Known
<1>1. {"mounted", "equal", "create", "modify", "remove", "restart"} \subseteq DOMAIN scenario
  BY DEF TypeOK, AllScenarios
<1>2. ASSUME NEW c \in scenario.users, UserStep(c)
      PROVE  /\ scenario'.mounted = scenario.mounted /\ scenario'.equal = scenario.equal
             /\ Known' \subseteq Known
  BY <1>1, <1>2 DEF UserStep, Save, Remove, Known
<1>3. CASE UNCHANGED <<scenario, history>>
  BY <1>3 DEF Known, history
<1>4. CASE Stop \/ Start
  BY <1>1, <1>4 DEF Stop, Start, Known, history
<1>5. CASE Tick
  BY <1>3, <1>5, TickRenames
<1>6. ASSUME NEW c \in scenario.mounted,
             WatcherStep(c) \/ WatcherLocks(c) \/ AsyncStep(c) \/ AsyncLocks(c) \/ ServerStep(c)
      PROVE  UNCHANGED <<scenario, created, removed>> /\ lost \subseteq lost'
  <2>1. /\ FoldersType /\ ServerType /\ now \in Nat /\ lost \subseteq Files
        /\ c \in Clients
    BY TypeParts DEF UsersType, AllScenarios
  <2>2. CASE UNCHANGED <<scenario, history>>
    BY <2>2 DEF history
  <2>3. ASSUME NEW f \in Files, CompareFile(c, f)
        PROVE  UNCHANGED <<scenario, created, removed>> /\ lost \subseteq lost'
    BY <2>1, <2>3, FetchEffect DEF CompareFile
  <2>4. CASE EndFetch(c)
    BY <2>1, <2>4, EndFetchEffect DEF EndFetch
  <2> QED BY <1>6, <2>2, <2>3, <2>4 DEF WatcherStep, WatcherLocks, AsyncStep, AsyncLocks, ServerStep,
             ReadEvents, HandleEvent, ScanFile, Answer, EndStore
<1>7. CASE UNCHANGED vars
  BY <1>3, <1>7 DEF vars
<1> QED BY <1>2, <1>3, <1>4, <1>5, <1>6, <1>7 DEF Next, Known

\* A user who saves or removes a file leaves a known one as it is.
LEMMA KnownUser ==
    ASSUME TypeOK, NEW f \in Known', KnownFile(f), scenario'.mounted = scenario.mounted,
           NEW u \in Clients, NEW g \in Files, Save(u, g) \/ Remove(u, g)
    PROVE  KnownFile(f)'
<1>1. FoldersType /\ now \in Nat /\ f \in Files /\ scenario.mounted \subseteq Clients
  BY TypeParts DEF Known, UsersType, AllScenarios
<1>2. UNCHANGED <<server, batch, async>> /\ \A c \in Clients : call'[c].file = call[c].file
  <2>1. \A c \in Clients : call'[c] \in {call[c], NameGone(call[c])}
    BY DEF Save, Remove, TypeOK
  <2>2. \A c \in Clients : call'[c].file = call[c].file
    BY <2>1, NameGoneType DEF TypeOK
  <2> QED BY <2>2 DEF Save, Remove
<1>3. \A c \in Clients : /\ local'[c][f] = Absent <=> local[c][f] = Absent
                         /\ NoDelete(events[c], f) => NoDelete(events'[c], f)
  <2>1. CASE Save(u, g)
    <3>1. PICK v \in scenario.saved : Write(u, g, v)
      BY <2>1 DEF Save
    <3>2. v \in Contents
      BY SyncAssumption DEF TypeOK, AllScenarios
    <3>3. /\ OnlyFile(u, g) /\ local'[u][g] # Absent
          /\ NoDelete(events[u], g) => NoDelete(events'[u], g)
      BY <1>1, <3>1, <3>2, WriteEffect
    <3>4. g = f => local[u][g] # Absent
      BY <2>1 DEF Save, Known
    <3> QED BY <1>1, <3>3, <3>4 DEF OnlyFile
  <2>2. CASE Remove(u, g)
    <3>1. OnlyFile(u, g)
      BY <1>1, <2>2, UnlinkEffect DEF Remove
    <3>2. g # f
      BY <2>2 DEF Remove, Known
    <3> QED BY <1>1, <3>1, <3>2 DEF OnlyFile
  <2> QED BY <2>1, <2>2
<1> QED BY <1>1, <1>2, <1>3 DEF KnownFile, Listens, server

\* A store of a known file keeps it on the server, or makes none of it.
LEMMA KnownStore ==
    ASSUME TypeOK, NEW f \in Files, KnownFile(f), NEW c \in scenario.mounted, NEW g \in Files,
           StoreCall(c, g)
    PROVE  /\ srv'[f] = Absent <=> srv[f] = Absent
           /\ \A d \in Clients : call'[d].file = f => srv'[f] # Absent
<1>1. FoldersType /\ ServerType /\ now \in Nat /\ c \in Clients
  BY TypeParts DEF UsersType, AllScenarios
<1>2. /\ OnlyServed(c, g)
      /\ srv[g] # Absent => srv'[g] # Absent
      /\ local[c][g] = Absent => UNCHANGED <<server, call>>
      /\ call'[c] = call[c] \/ (call'[c].file = g /\ srv'[g] # Absent)
  BY <1>1, StoreEffect
<1>3. srv'[f] = Absent <=> srv[f] = Absent
  <2>1. CASE g # f
    BY <1>2, <2>1 DEF OnlyServed
  <2>2. CASE g = f
    BY <1>2, <2>2 DEF KnownFile, server
  <2> QED BY <2>1, <2>2
<1>4. \A d \in Clients : call'[d].file = f => srv'[f] # Absent
  BY <1>2, <1>3 DEF KnownFile, OnlyServed, OnlyCall
<1> QED BY <1>3, <1>4

\* The watcher deletes no known file from the server, and stores none anew.
LEMMA KnownWatcher ==
    ASSUME TypeOK, NEW f \in Known, KnownFile(f), scenario'.mounted = scenario.mounted,
           NEW c \in scenario.mounted, ReadEvents(c) \/ WatcherLocks(c) \/ HandleEvent(c)
    PROVE  KnownFile(f)'
<1>1. /\ FoldersType /\ ServerType /\ WatchersType /\ now \in Nat
      /\ f \in Files /\ c \in Clients /\ scenario.mounted \subseteq Clients
  BY TypeParts DEF Known, UsersType, AllScenarios
<1>2. CASE ReadEvents(c)
  <2>1. NoDelete(<< >>, f)
    BY EmptySeq DEF NoDelete
  <2>2. /\ \A d \in Clients : events'[d] = events[d] \/ events'[d] = << >>
        /\ \A d \in Clients : batch'[d] = batch[d] \/ (d = c /\ batch'[d] = events[d])
    BY <1>1, <1>2 DEF ReadEvents, FoldersType, WatchersType
  <2> QED BY <1>1, <1>2, <2>1, <2>2 DEF ReadEvents, KnownFile, Listens, server
<1>3. CASE WatcherLocks(c)
  BY <1>3 DEF WatcherLocks, KnownFile, Listens, server, folders
<1>4. CASE HandleEvent(c)
  <2> DEFINE e == Head(batch[c])
             rest == Tail(batch[c])
  <2>1. /\ e \in Events
        /\ e # Event("delete", f)
        /\ NoDelete(rest, f)
    <3>1. batch[c] \in Seq(Events) /\ batch[c] # << >>
      BY <1>1, <1>4 DEF HandleEvent, WatchersType, EventQueues, Events
    <3>2. /\ Head(batch[c]) \in Events /\ Head(batch[c]) = batch[c][1]
          /\ Len(Tail(batch[c])) = Len(batch[c]) - 1 /\ Len(batch[c]) \in Nat \ {0}
          /\ \A i \in 1 .. Len(Tail(batch[c])) : Tail(batch[c])[i] = batch[c][i + 1]
      BY <3>1, HeadTailProperties, LenProperties, EmptySeq
    <3>3. \A i \in 1 .. Len(batch[c]) : batch[c][i] # Event("delete", f)
      BY DEF KnownFile, NoDelete
    <3>4. \A i \in 1 .. Len(rest) : rest[i] # Event("delete", f)
      BY <3>2, <3>3
    <3> QED BY <3>2, <3>3, <3>4 DEF NoDelete
  <2>2. \A d \in Clients : batch'[d] = IF d = c THEN rest ELSE batch[d]
    BY <1>1, <1>4 DEF HandleEvent, WatchersType
  <2>3. \/ StoreCall(c, e.file) /\ UNCHANGED folders
        \/ e.kind = "delete" /\ DeleteCall(c, e.file)
    BY <1>4 DEF HandleEvent
  <2>4. UNCHANGED async
    BY <1>4 DEF HandleEvent
  <2> HIDE DEF e, rest
  <2>5. e.file \in Files
    BY <2>1 DEF Events
  <2>6. \A d \in scenario.mounted : NoDelete(batch'[d], f)
    BY <1>1, <2>1, <2>2 DEF KnownFile
  <2>7. CASE StoreCall(c, e.file) /\ UNCHANGED folders
    <3>1. /\ srv'[f] = Absent <=> srv[f] = Absent
          /\ \A d \in Clients : call'[d].file = f => srv'[f] # Absent
      BY <1>1, <2>5, <2>7, KnownStore
    <3> QED BY <1>1, <2>4, <2>6, <2>7, <3>1 DEF KnownFile, Listens, folders
  <2>8. CASE e.kind = "delete" /\ DeleteCall(c, e.file)
    <3>1. e = Event("delete", e.file)
      BY <2>1, <2>8 DEF Events, Event
    <3>2. e.file # f
      BY <2>1, <3>1
    <3>3. /\ OnlyFile(c, e.file)
          /\ \A g \in Files \ {e.file} : srv'[g] = srv[g]
          /\ \A d \in Clients : call'[d].file = call[d].file
      BY <1>1, <2>5, <2>8, DeleteEffect
    <3>4. /\ srv'[f] = srv[f]
          /\ \A d \in Clients : local'[d][f] = local[d][f]
          /\ \A d \in Clients : NoDelete(events[d], f) => NoDelete(events'[d], f)
      BY <1>1, <3>2, <3>3 DEF OnlyFile
    <3> QED BY <1>1, <2>4, <2>6, <3>3, <3>4 DEF KnownFile, Listens
  <2> QED BY <2>3, <2>7, <2>8
<1> QED BY <1>2, <1>3, <1>4

\* The async thread removes no known file, and fetches none anew.
LEMMA KnownAsync ==
    ASSUME TypeOK, NEW f \in Known', KnownFile(f), scenario'.mounted = scenario.mounted,
           NEW c \in scenario.mounted,
           AsyncStep(c) \/ AsyncLocks(c) \/ Answer(c) \/ EndFetch(c)
    PROVE  KnownFile(f)'
<1>1. /\ FoldersType /\ ServerType /\ now \in Nat /\ lost \subseteq Files /\ f \notin lost'
      /\ f \in Files /\ c \in Clients /\ scenario.mounted \subseteq Clients
      /\ DOMAIN async = Clients
      /\ {"pc", "listing", "todo", "names"} = DOMAIN async[c]
  BY TypeParts DEF Known, UsersType, AllScenarios, RoundsType, IsRound
<1>2. CASE AsyncLocks(c)
  <2>1. \A d \in scenario.mounted : Listens(d)' =>
            Listens(d) /\ DOMAIN async'[d].listing = DOMAIN async[d].listing
    BY <1>1, <1>2 DEF AsyncLocks, Listens, Asked
  <2> QED BY <1>1, <1>2, <2>1 DEF AsyncLocks, KnownFile, server, folders
<1>3. CASE Answer(c)
  <2>1. /\ \A d \in Clients \ {c} : async'[d] = async[d]
        /\ async'[c].pc = "answered"
        /\ async'[c].listing = Failed \/ DOMAIN async'[c].listing = Listed
    BY <1>1, <1>3 DEF Answer
  <2>2. f \in Listed <=> srv[f] # Absent
    BY <1>1 DEF Listed
  <2>3. UNCHANGED <<server, folders, batch, call>>
    BY <1>3 DEF Answer
  <2> QED BY <1>1, <2>1, <2>2, <2>3 DEF KnownFile, Listens, server, folders
<1>4. ASSUME NEW g \in Files, CompareFile(c, g) PROVE KnownFile(f)'
  <2>1. \A d \in Clients : async'[d].pc = async[d].pc /\ async'[d].listing = async[d].listing
    BY <1>1, <1>4 DEF CompareFile
  <2>2. UNCHANGED batch
    BY <1>4 DEF CompareFile
  <2>3. CASE FetchCall(c, g) /\ UNCHANGED server
    <3>1. /\ OnlyFile(c, g) /\ OnlyCall(c)
          /\ g \notin lost' /\ NoDelete(events[c], g) => NoDelete(events'[c], g)
          /\ g \notin lost' /\ local[c][g] # Absent => local'[c][g] # Absent
          /\ g \notin lost' /\ srv[g] = Absent => local'[c][g] = local[c][g]
          /\ call'[c] = call[c] \/ (call'[c].file = g /\ srv[g] # Absent)
      BY <1>1, <2>3, FetchEffect
    <3>2. local'[c][f] = Absent <=> local[c][f] = Absent
      BY <1>1, <3>1 DEF KnownFile, OnlyFile
    <3>3. /\ \A d \in Clients \ {c} : local'[d][f] = local[d][f]
          /\ \A d \in Clients : NoDelete(events[d], f) => NoDelete(events'[d], f)
      BY <1>1, <3>1 DEF OnlyFile
    <3>4. \A d \in Clients : call'[d].file = f => srv[f] # Absent
      BY <3>1 DEF KnownFile, OnlyCall
    <3> QED BY <1>1, <2>1, <2>2, <2>3, <3>2, <3>3, <3>4 DEF KnownFile, Listens, server
  <2>4. CASE StoreCall(c, g) /\ UNCHANGED <<folders, lost>>
    <3>1. /\ srv'[f] = Absent <=> srv[f] = Absent
          /\ \A d \in Clients : call'[d].file = f => srv'[f] # Absent
      BY <1>1, <2>4, KnownStore
    <3> QED BY <1>1, <2>1, <2>2, <2>4, <3>1 DEF KnownFile, Listens, folders
  <2>5. CASE UNCHANGED <<server, folders, call, lost>>
    BY <1>1, <2>1, <2>2, <2>5 DEF KnownFile, Listens, server, folders
  <2> QED BY <1>4, <2>3, <2>4, <2>5 DEF CompareFile
<1>5. ASSUME NEW g \in Files, ScanFile(c, g) PROVE KnownFile(f)'
  <2>1. \A d \in Clients : Listens(d)' => Listens(d) /\ async'[d].listing = async[d].listing
    BY <1>1, <1>5 DEF ScanFile, Listens, Asked
  <2>2. UNCHANGED <<server, batch, call>>
    BY <1>5 DEF ScanFile
  <2>3. CASE UNCHANGED folders
    BY <1>1, <2>1, <2>2, <2>3 DEF KnownFile, server, folders
  <2>4. CASE g \notin DOMAIN async[c].listing /\ Unlink(c, g)
    <3>1. CASE g = f
      <4>1. local[c][f] = Absent
        BY <1>5, <2>4, <3>1 DEF ScanFile, KnownFile, Listens
      <4> QED BY <2>3, <2>4, <3>1, <4>1 DEF Unlink
    <3>2. CASE g # f
      <4>1. OnlyFile(c, g)
        BY <1>1, <2>4, UnlinkEffect
      <4>2. \A d \in Clients : /\ local'[d][f] = local[d][f]
                               /\ NoDelete(events[d], f) => NoDelete(events'[d], f)
        BY <1>1, <3>2, <4>1 DEF OnlyFile
      <4> QED BY <1>1, <2>1, <2>2, <4>2 DEF KnownFile, server
    <3> QED BY <3>1, <3>2
  <2> QED BY <1>5, <2>3, <2>4 DEF ScanFile
<1>6. CASE EndFetch(c)
  <2> DEFINE g == call[c].file
  <2>1. /\ g \in Files /\ OnlyFile(c, g)
        /\ g \notin lost' =>
              /\ NoDelete(events[c], g) => NoDelete(events'[c], g)
              /\ local[c][g] # Absent => local'[c][g] # Absent
    BY <1>1, <1>6, EndFetchEffect
  <2>2. UNCHANGED <<server, batch, async>>
    BY <1>6 DEF EndFetch
  <2>3. \A d \in Clients : call'[d].file = f => call[d].file = f
    <3>1. NoCall.file # f
      BY <1>1, SyncAssumption DEF NoCall
    <3> QED BY <1>6, <3>1 DEF EndFetch, TypeOK
  <2>4. g = f => local[c][f] # Absent
    BY <1>1 DEF KnownFile
  <2> HIDE DEF g
  <2>5. local'[c][f] = Absent <=> local[c][f] = Absent
    <3>1. CASE g = f
      BY <1>1, <2>1, <2>4, <3>1
    <3>2. CASE g # f
      BY <1>1, <2>1, <3>2 DEF OnlyFile
    <3> QED BY <3>1, <3>2
  <2>6. /\ \A d \in Clients \ {c} : local'[d][f] = local[d][f]
        /\ \A d \in Clients : NoDelete(events[d], f) => NoDelete(events'[d], f)
    <3>1. CASE g = f
      BY <1>1, <2>1, <3>1 DEF OnlyFile
    <3>2. CASE g # f
      BY <1>1, <2>1, <3>2 DEF OnlyFile
    <3> QED BY <3>1, <3>2
  <2> QED BY <1>1, <2>2, <2>3, <2>5, <2>6 DEF KnownFile, Listens, server
<1> QED BY <1>2, <1>3, <1>4, <1>5, <1>6 DEF AsyncStep

\* The end of a store leaves a known file where it is, and so do a stop and a
\* start of the server and the clock.
LEMMA KnownServer ==
    ASSUME TypeOK, NEW f \in Known, KnownFile(f), scenario'.mounted = scenario.mounted,
           Stop \/ Start \/ Tick \/ \E c \in Clients : EndStore(c)
    PROVE  KnownFile(f)'
<1>1. /\ FoldersType /\ ServerType /\ now \in Nat
      /\ f \in Files /\ scenario.mounted \subseteq Clients
  BY TypeParts DEF Known, UsersType, AllScenarios
<1>2. NoCall.file # f
  BY <1>1, SyncAssumption DEF NoCall
<1>3. CASE Stop
  <2>1. \A c \in Clients : Listens(c)' => Listens(c) /\ async'[c].listing = async[c].listing
    <3> SUFFICES ASSUME NEW c \in Clients, Listens(c)'
                 PROVE  Listens(c) /\ async'[c].listing = async[c].listing
      OBVIOUS
    <3>1. DOMAIN async[c] = {"pc", "listing", "todo", "names"}
      BY DEF TypeOK, IsRound
    <3> QED BY <1>3, <3>1 DEF Stop, Listens
  <2>2. \A c \in Clients : call'[c].file = f => call[c].file = f
    <3> SUFFICES ASSUME NEW c \in Clients, call'[c].file = f
                 PROVE  call[c].file = f
      OBVIOUS
    <3>1. call[c] \in Calls
      BY <1>1 DEF ServerType
    <3>2. call'[c] = IF call[c] # NoCall THEN [call[c] EXCEPT !.rest = "failed"] ELSE NoCall
      BY <1>3 DEF Stop, Busy
    <3> QED BY <1>2, <3>1, <3>2, FailedType
  <2> QED BY <1>1, <1>3, <2>1, <2>2 DEF Stop, KnownFile, folders
<1>4. CASE Tick
  <2>1. srv'[f] = Absent <=> srv[f] = Absent
    BY <1>1, <1>4, TickRenames, RenamedType DEF ServerType
  <2>2. \A c \in Clients : local'[c][f] = Absent <=> local[c][f] = Absent
    <3> SUFFICES ASSUME NEW c \in Clients
                 PROVE  local'[c][f] = Absent <=> local[c][f] = Absent
      OBVIOUS
    <3>1. local[c][f] \in Copies /\ local'[c][f] = Renamed(local[c][f])
      BY <1>1, <1>4, TickRenames DEF FoldersType
    <3> QED BY <3>1, RenamedType
  <2>3. \A c \in Clients :
            Listens(c)' => Listens(c) /\ DOMAIN async'[c].listing = DOMAIN async[c].listing
    <3> SUFFICES ASSUME NEW c \in Clients, Listens(c)'
                 PROVE  Listens(c) /\ DOMAIN async'[c].listing = DOMAIN async[c].listing
      OBVIOUS
    <3>1. DOMAIN async[c] = {"pc", "listing", "todo", "names"}
      BY DEF TypeOK, IsRound
    <3>2. async'[c] = [async[c] EXCEPT !.listing = RenamedListing(async[c].listing)]
      BY <1>4, TickRenames
    <3>3. async'[c].pc = async[c].pc /\ async'[c].listing = RenamedListing(async[c].listing)
      BY <3>1, <3>2
    <3>4. RenamedListing(Failed) = Failed
      BY DEF RenamedListing
    <3> QED BY <3>3, <3>4, RenamedType DEF Listens
  <2>4. UNCHANGED <<events, batch, call>>
    BY <1>4, TickRenames
  <2> QED BY <1>1, <2>1, <2>2, <2>3, <2>4 DEF KnownFile
<1>5. ASSUME NEW c \in Clients, EndStore(c) PROVE KnownFile(f)'
  <2>1. File(call[c].data, now) # Absent
    <3>1. call[c].data \in Contents
      BY <1>1, <1>5 DEF EndStore, ServerType, Calls, NoCall
    <3> QED BY <1>1, <3>1, CopiesType
  <2>2. srv'[f] = Absent <=> srv[f] = Absent
    <3>1. srv' = srv \/ srv' = [srv EXCEPT ![call[c].file] = File(call[c].data, now)]
      BY <1>5 DEF EndStore
    <3>2. CASE call[c].file = f
      BY <1>1, <2>1, <3>1, <3>2 DEF KnownFile, ServerType
    <3>3. CASE call[c].file # f
      BY <1>1, <3>1, <3>3 DEF ServerType
    <3> QED BY <3>2, <3>3
  <2>3. \A d \in Clients : call'[d].file = f => call[d].file = f
    BY <1>1, <1>2, <1>5 DEF EndStore, ServerType
  <2> QED BY <1>1, <1>5, <2>2, <2>3 DEF EndStore, KnownFile, Listens, folders
<1>6. CASE Start
  BY <1>1, <1>6 DEF Start, KnownFile, Listens, server, folders
<1> QED BY <1>3, <1>4, <1>5, <1>6

\* KnownInv is inductive.
LEMMA KnownNext == TypeOK /\ KnownInv /\ [Next]_vars => KnownInv'
<1> SUFFICES ASSUME TypeOK, KnownInv, [Next]_vars, scenario'.equal, NEW f \in Known'
             PROVE  KnownFile(f)'
  BY DEF KnownInv
<1>1. scenario'.mounted = scenario.mounted /\ f \in Known /\ KnownFile(f)
  BY KnownBefore DEF KnownInv
<1>2. scenario.mounted \subseteq Clients /\ scenario.users \subseteq Clients
  BY DEF TypeOK, AllScenarios
<1>3. ASSUME NEW c \in scenario.users, UserStep(c) PROVE KnownFile(f)'
  BY <1>1, <1>2, <1>3, KnownUser DEF UserStep
<1>4. ASSUME NEW c \in scenario.mounted, WatcherStep(c) \/ WatcherLocks(c) PROVE KnownFile(f)'
  BY <1>1, <1>4, KnownWatcher DEF WatcherStep
<1>5. ASSUME NEW c \in scenario.mounted,
             AsyncStep(c) \/ AsyncLocks(c) \/ Answer(c) \/ EndFetch(c)
      PROVE  KnownFile(f)'
  BY <1>1, <1>5, KnownAsync
<1>6. ASSUME NEW c \in scenario.mounted, EndStore(c) PROVE KnownFile(f)'
  BY <1>1, <1>2, <1>6, KnownServer
<1>7. CASE Stop \/ Start \/ Tick
  BY <1>1, <1>7, KnownServer
<1>8. CASE UNCHANGED vars
  BY <1>1, <1>8 DEF KnownFile, Listens, vars, server, folders
<1> QED BY <1>3, <1>4, <1>5, <1>6, <1>7, <1>8 DEF Next, ServerStep

\* At first the folders are equal and nothing is under way.
LEMMA KnownInit == Init => KnownInv
<1> SUFFICES ASSUME Init, scenario.equal, NEW f \in Known PROVE KnownFile(f)
  BY DEF KnownInv
<1>1. scenario.mounted \subseteq Clients
  BY TypeInit DEF TypeOK, AllScenarios
<1>2. NoDelete(<< >>, f)
  BY EmptySeq DEF NoDelete
<1>3. NoCall.file # f
  BY SyncAssumption DEF NoCall, Known
<1>4. \A c \in Clients : ~Listens(c) /\ events[c] = << >> /\ batch[c] = << >> /\ call[c] = NoCall
  BY DEF Init, Listens, Asked
<1>5. \A c \in scenario.mounted : local[c] = srv
  BY <1>1 DEF Init
<1> QED BY <1>1, <1>2, <1>3, <1>4, <1>5 DEF KnownFile

\* A file that all had at first disappears nowhere, and none appears, but by a
\* user or by a fetch that fails: through any events lost, listings out of date,
\* stores and fetches half done, and stops of the server.
THEOREM KnownFilesKept == Spec => []KnownFilesStay
<1>1. KnownInv => KnownFilesStay
  BY DEF KnownInv, KnownFile, Known, KnownFilesStay
<1> QED BY <1>1, KnownInit, TypeCorrect, KnownNext, PTL DEF Spec
=============================================================================
