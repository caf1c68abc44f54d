------------------------------- MODULE DfsSync -------------------------------
(***************************************************************************)
(* Mounted clients of pr4-gRPC/part2 and the server they synchronise with. *)
(*                                                                         *)
(* Each client has two threads.  The watcher reads inotify events of the   *)
(* mount directory and stores or deletes each file they name.  The async   *)
(* thread asks the server for its listing (CallbackList), compares it with *)
(* the directory, fetches or stores, removes what is not listed, and asks  *)
(* again.  The client's mutex keeps the two apart, but neither the user,   *)
(* who works in the directory, nor the other clients, nor the kernel, for  *)
(* which what these threads do in the directory is an event as well.       *)
(*                                                                         *)
(* The calls are those of DfsServer in larger steps: a store and a fetch   *)
(* are two, so that others see the file half written; a delete and a       *)
(* listing are one.  The server may be stopped and started again, and the  *)
(* calls made meanwhile or under way then fail.  A content is a sequence   *)
(* of blocks and its own checksum, and an empty or absent file has the     *)
(* checksum 0.                                                             *)
(***************************************************************************)
EXTENDS Integers, Sequences, FiniteSets

CONSTANTS
    Clients, Files,
    Versions,       \* the contents users save: sequences of blocks
    Hole,           \* in place of a block that was never written
    Absent,         \* in place of a file that does not exist
    Failed,         \* in place of the listing of a call that failed
    MaxQueue,       \* events that inotify keeps: 16384 by default
    Scenarios       \* who mounts and who has a user, equal folders or not; and bounds
                    \* of the model: what users save, how often they create, modify
                    \* and remove a file, and how often the server stops

Nobody == "nobody"
NoFile == "no file"
Empty  == << >>

Blocks   == {Hole} \cup UNION {{v[i] : i \in DOMAIN v} : v \in Versions}
Contents == Seq(Blocks)
Copies   == {Absent} \cup [data : Contents, mtime : Nat]

AllScenarios ==
    [mounted : SUBSET Clients, users : SUBSET Clients, equal : BOOLEAN,
     saved : SUBSET Versions, create : Nat, modify : Nat, remove : Nat, restart : Nat]

ASSUME SyncAssumption ==
    /\ IsFiniteSet(Clients) /\ IsFiniteSet(Files)
    /\ Nobody \notin Clients
    /\ NoFile \notin Files
    /\ Versions \subseteq Contents
    /\ Absent \notin [data : Contents, mtime : Nat]
    /\ MaxQueue \in Nat
    /\ Scenarios \subseteq AllScenarios

VARIABLES
    srv,            \* the server's files
    lockList,
    up,             \* the server runs
    local,          \* the files below each client's mount path
    events,         \* each client's inotify events, in the kernel
    batch,          \* those the watcher has read and not handled
    mux,            \* the thread that holds each client's mutex
    async,          \* each client's async thread
    call,           \* the store or fetch each client is in the middle of
    now,            \* the second it is
    scenario,       \* with the numbers that are left
    created, removed, \* history: files that a user has created, or removed,
    lost              \* or that a fetch which failed has removed

server  == <<srv, lockList>>
folders == <<local, events>>
history == <<created, removed, lost>>
vars    == <<server, up, folders, batch, mux, async, call, now, scenario, history>>

File(data, mtime) == [data |-> data, mtime |-> mtime]
Data(file)        == IF file = Absent THEN Empty ELSE file.data

\* op is the call, data the content it carries and done the number of blocks
\* that are written; rest tells what becomes of the others: the file is open, or
\* its name is gone, or the server has stopped and the call fails.
NoCall  == [op |-> "none", file |-> NoFile, data |-> Empty, done |-> 0, rest |-> "gone"]
Busy(c) == call[c] # NoCall

NameGone(k) == IF k.rest = "open" THEN [k EXCEPT !.rest = "gone"] ELSE k

\* listing is the server's answer: of each file it has, the mtime and whether
\* it is empty; todo, the files of it still to compare; names, those still to
\* look up in it when the directory is read.
Asked == [pc |-> "asked", listing |-> << >>, todo |-> {}, names |-> {}]

Event(kind, f) == [kind |-> kind, file |-> f]

\* Variant for mutation: the queue has no limit.
NotifyAlways(queue, event) ==
    IF queue # << >> /\ queue[Len(queue)] = event THEN queue ELSE Append(queue, event)

\* The kernel drops an event equal to the last one that is not read yet, and
\* any event when the queue is full.
Notify(queue, event) ==
    IF Len(queue) = MaxQueue \/ (queue # << >> /\ queue[Len(queue)] = event)
    THEN queue
    ELSE Append(queue, event)

\* A file is written below the mount path, and perhaps created with that.
Write(c, f, data) ==
    /\ local' = [local EXCEPT ![c][f] = File(data, now)]
    /\ events' = [events EXCEPT ![c] =
          Notify(IF local[c][f] = Absent THEN Notify(@, Event("create", f)) ELSE @,
                 Event("modify", f))]

Unlink(c, f) ==
    IF local[c][f] = Absent
    THEN UNCHANGED folders
    ELSE /\ local' = [local EXCEPT ![c][f] = Absent]
         /\ events' = [events EXCEPT ![c] = Notify(@, Event("delete", f))]

\* A watcher that has come to the end of its batch lets go of the mutex.
WatchersUnlock ==
    mux' = [c \in Clients |->
        IF mux[c] = "watcher" /\ batch'[c] = << >> /\ call'[c] = NoCall
        THEN Nobody
        ELSE mux[c]]

\* The client starts to mount, with the files an earlier session has left.
Init ==
    /\ srv \in [Files -> {Absent} \cup {File(v, 0) : v \in Versions}]
    /\ scenario \in Scenarios
    /\ local \in [Clients -> [Files -> {Absent} \cup {File(v, 0) : v \in Versions}]]
    /\ \A c \in Clients : IF c \in scenario.mounted
                           THEN scenario.equal => local[c] = srv
                           ELSE local[c] = [f \in Files |-> Absent]
    /\ lockList = [f \in Files |-> Nobody]
    /\ events = [c \in Clients |-> << >>]
    /\ batch = [c \in Clients |-> << >>]
    /\ up = TRUE
    /\ mux = [c \in Clients |-> Nobody]
    /\ async = [c \in Clients |-> Asked]
    /\ call = [c \in Clients |-> NoCall]
    /\ now = 0
    /\ created = {}
    /\ removed = {}
    /\ lost = {}
-----------------------------------------------------------------------------
(* The three calls.                                                         *)

\* storeFile goes beyond the comparison: there is a first block, the lock is
\* free, and the checksums differ.
Accepts(c, f) ==
    /\ up
    /\ Data(local[c][f]) # Empty
    /\ lockList[f] \in {Nobody, c}
    /\ Data(srv[f]) # Data(local[c][f])

Under(op, f, data, n) == [op |-> op, file |-> f, data |-> data, done |-> n, rest |-> "open"]

\* Variant for mutation: an old file is removed, and the new one takes its name
\* only when it is complete.
StoreAside(c, f) ==
    IF ~Accepts(c, f)
    THEN UNCHANGED <<server, call>>
    ELSE /\ lockList' = [lockList EXCEPT ![f] = c]
         /\ srv' = [srv EXCEPT ![f] = Absent]
         /\ call' = [call EXCEPT ![c] = Under("store", f, Data(local[c][f]), 0)]

\* Store up to some block before the last; the file is cut to length 0 first.
StoreCall(c, f) ==
    IF ~Accepts(c, f)
    THEN UNCHANGED <<server, call>>
    ELSE LET data == Data(local[c][f]) IN
         /\ lockList' = [lockList EXCEPT ![f] = c]
         /\ \E n \in 0 .. Len(data) - 1 :
               /\ srv' = [srv EXCEPT ![f] = File(SubSeq(data, 1, n), now)]
               /\ call' = [call EXCEPT ![c] = Under("store", f, data, n)]

\* The rest of the store.  It is written into a file that is gone when another
\* client has deleted it meanwhile.  A server that has stopped writes nothing,
\* and has forgotten the lock.
EndStore(c) ==
    /\ call[c].op = "store"
    /\ LET k == call[c] IN
          /\ srv' = IF k.rest = "open" THEN [srv EXCEPT ![k.file] = File(k.data, now)] ELSE srv
          /\ lockList' = IF k.rest = "failed" THEN lockList
                         ELSE [lockList EXCEPT ![k.file] = Nobody]
    /\ call' = [call EXCEPT ![c] = NoCall]
    /\ UNCHANGED batch
    /\ WatchersUnlock
    /\ UNCHANGED <<up, folders, async, now, scenario, history>>

\* Whatever a fetch that ends in an error has found or written is removed.
FetchFails(c, f) ==
    /\ Unlink(c, f)
    /\ lost' = IF local[c][f] = Absent THEN lost ELSE lost \cup {f}

\* Nothing is sent of a file that is absent, empty or has the same checksum,
\* and the client then keeps what it has.  Else it cuts the file to length 0
\* with the first block it receives, and writes up to some block before the last.
FetchCall(c, f) ==
    \/ /\ ~up
       /\ FetchFails(c, f)
       /\ UNCHANGED call
    \/ /\ up
       /\ Data(srv[f]) \in {Empty, Data(local[c][f])}
       /\ UNCHANGED <<folders, call, lost>>
    \/ /\ up
       /\ Data(srv[f]) \notin {Empty, Data(local[c][f])}
       /\ \E n \in 0 .. Len(srv[f].data) - 1 :
             /\ Write(c, f, SubSeq(srv[f].data, 1, n))
             /\ call' = [call EXCEPT ![c] = Under("fetch", f, srv[f].data, n)]
       /\ UNCHANGED lost

\* What a file has when the blocks of data behind the first n are written to
\* their places in it: it may have been saved since the first n were.
Overlaid(old, data, n) ==
    [i \in 1 .. (IF Len(old) > Len(data) THEN Len(old) ELSE Len(data)) |->
        IF i \in n + 1 .. Len(data) THEN data[i]
        ELSE IF i <= Len(old) THEN old[i]
        ELSE Hole]

\* The rest of the fetch, into a file that is gone when the user has removed it
\* meanwhile.
EndFetch(c) ==
    /\ call[c].op = "fetch"
    /\ LET k == call[c] IN
          \/ /\ k.rest = "open"
             /\ Write(c, k.file, Overlaid(Data(local[c][k.file]), k.data, k.done))
             /\ UNCHANGED lost
          \/ k.rest = "gone" /\ UNCHANGED <<folders, lost>>
          \/ k.rest = "failed" /\ FetchFails(c, k.file)
    /\ call' = [call EXCEPT ![c] = NoCall]
    /\ UNCHANGED <<server, up, batch, mux, async, now, scenario, created, removed>>

\* The server removes the file before it asks for the lock.  With OK the client
\* removes its own file, which may be a new one by now.
DeleteCall(c, f) ==
    IF ~up \/ srv[f] = Absent
    THEN UNCHANGED <<server, folders, call>>
    ELSE /\ srv' = [srv EXCEPT ![f] = Absent]
         /\ call' = [d \in Clients |->
               IF call[d].op = "store" /\ call[d].file = f THEN NameGone(call[d]) ELSE call[d]]
         /\ IF lockList[f] \in {Nobody, c} THEN Unlink(c, f) ELSE UNCHANGED folders
         /\ UNCHANGED lockList
-----------------------------------------------------------------------------
(* The user.                                                                *)

Save(c, f) ==
    /\ IF local[c][f] = Absent
       THEN /\ scenario.create > 0
            /\ scenario' = [scenario EXCEPT !.create = @ - 1]
            /\ created' = created \cup {f}
       ELSE /\ scenario.modify > 0
            /\ scenario' = [scenario EXCEPT !.modify = @ - 1]
            /\ UNCHANGED created
    /\ \E v \in scenario.saved : Write(c, f, v)
    /\ UNCHANGED <<server, up, batch, mux, async, call, now, removed, lost>>

Remove(c, f) ==
    /\ local[c][f] # Absent
    /\ scenario.remove > 0
    /\ scenario' = [scenario EXCEPT !.remove = @ - 1]
    /\ removed' = removed \cup {f}
    /\ Unlink(c, f)
    /\ call' = [call EXCEPT ![c] = IF @.op = "fetch" /\ @.file = f THEN NameGone(@) ELSE @]
    /\ UNCHANGED <<server, up, batch, mux, async, now, created, lost>>
-----------------------------------------------------------------------------
(* The watcher thread.                                                      *)

\* read returns the events there are, without the mutex.
ReadEvents(c) ==
    /\ batch[c] = << >>
    /\ mux[c] # "watcher"
    /\ events[c] # << >>
    /\ batch' = [batch EXCEPT ![c] = events[c]]
    /\ events' = [events EXCEPT ![c] = << >>]
    /\ UNCHANGED <<server, up, local, mux, async, call, now, scenario, history>>

WatcherLocks(c) ==
    /\ batch[c] # << >>
    /\ mux[c] = Nobody
    /\ mux' = [mux EXCEPT ![c] = "watcher"]
    /\ UNCHANGED <<server, up, folders, batch, async, call, now, scenario, history>>

HandleEvent(c) ==
    /\ mux[c] = "watcher"
    /\ ~Busy(c)
    /\ batch[c] # << >>
    /\ batch' = [batch EXCEPT ![c] = Tail(@)]
    /\ LET e == Head(batch[c]) IN
          \/ e.kind \in {"create", "modify"} /\ StoreCall(c, e.file) /\ UNCHANGED folders
          \/ e.kind = "delete" /\ DeleteCall(c, e.file)
    /\ WatchersUnlock
    /\ UNCHANGED <<up, async, now, scenario, history>>
-----------------------------------------------------------------------------
(* The async thread and the listing it waits for.                           *)

Listed == {f \in Files : srv[f] # Absent}

\* The server answers each request at once, whether or not anything changed; one
\* that does not run answers none, and the call fails.
Answer(c) ==
    /\ async[c].pc = "asked"
    /\ async' = [async EXCEPT ![c].pc = "answered",
          ![c].listing =
              IF up THEN [f \in Listed |->
                             [mtime |-> srv[f].mtime, empty |-> Data(srv[f]) = Empty]]
              ELSE Failed]
    /\ UNCHANGED <<server, up, folders, batch, mux, call, now, scenario, history>>


\* Variant for mutation: the async thread does not take the mutex.
AsyncWithoutMutex(c) ==
    /\ async[c].pc = "answered"
    /\ IF async[c].listing = Failed
       THEN async' = [async EXCEPT ![c] = Asked]
       ELSE async' = [async EXCEPT ![c].pc = "compare", ![c].names = Files,
                                   ![c].todo = DOMAIN async[c].listing]
    /\ UNCHANGED <<server, up, folders, batch, mux, call, now, scenario, history>>

\* When the call has failed the thread sleeps, and asks again.
AsyncLocks(c) ==
    /\ async[c].pc = "answered"
    /\ mux[c] = Nobody
    /\ \/ /\ async[c].listing = Failed
          /\ async' = [async EXCEPT ![c] = Asked]
          /\ UNCHANGED mux
       \/ /\ async[c].listing # Failed
          /\ async' = [async EXCEPT ![c].pc = "compare", ![c].names = Files,
                                    ![c].todo = DOMAIN async[c].listing]
          /\ mux' = [mux EXCEPT ![c] = "async"]
    /\ UNCHANGED <<server, up, folders, batch, call, now, scenario, history>>

\* The checksum is taken of the bare file name, below the working directory
\* where there is no such file.  So it is 0, which only an empty file has too.
Differs(c, f) == ~async[c].listing[f].empty

\* A file that is absent here, or newer there, is fetched; else it is stored.
CompareFile(c, f) ==
    /\ async[c].pc = "compare"
    /\ ~Busy(c)
    /\ f \in async[c].todo
    /\ async' = [async EXCEPT ![c].todo = @ \ {f}]
    /\ \/ /\ local[c][f] = Absent
          /\ FetchCall(c, f)
          /\ UNCHANGED server
       \/ /\ local[c][f] # Absent
          /\ Differs(c, f)
          /\ async[c].listing[f].mtime > local[c][f].mtime
          /\ FetchCall(c, f)
          /\ UNCHANGED server
       \/ /\ local[c][f] # Absent
          /\ Differs(c, f)
          /\ async[c].listing[f].mtime <= local[c][f].mtime
          /\ StoreCall(c, f)
          /\ UNCHANGED <<folders, lost>>
       \/ /\ local[c][f] # Absent
          /\ ~Differs(c, f)
          /\ UNCHANGED <<server, folders, call, lost>>
    /\ UNCHANGED <<up, batch, mux, now, scenario, created, removed>>

\* A file that is not in the listing is removed.  After the last name the thread
\* lets go of the mutex and asks again.
ScanFile(c, f) ==
    /\ async[c].pc = "compare"
    /\ ~Busy(c)
    /\ async[c].todo = {}
    /\ f \in async[c].names
    /\ IF f \in DOMAIN async[c].listing THEN UNCHANGED folders ELSE Unlink(c, f)
    /\ IF async[c].names = {f}
       THEN /\ async' = [async EXCEPT ![c] = Asked]
            /\ mux' = [mux EXCEPT ![c] = Nobody]
       ELSE /\ async' = [async EXCEPT ![c].names = @ \ {f}]
            /\ UNCHANGED mux
    /\ UNCHANGED <<server, up, batch, call, now, scenario, history>>
-----------------------------------------------------------------------------
(* The server's process and the clock.                                      *)

\* The server is stopped: files stay as they are, locks are forgotten, and every
\* call that is under way fails.
Stop ==
    /\ up
    /\ scenario.restart > 0
    /\ scenario' = [scenario EXCEPT !.restart = @ - 1]
    /\ up' = FALSE
    /\ lockList' = [f \in Files |-> Nobody]
    /\ call' = [c \in Clients |-> IF Busy(c) THEN [call[c] EXCEPT !.rest = "failed"] ELSE NoCall]
    /\ async' = [c \in Clients |->
          IF async[c].pc = "asked"
          THEN [async[c] EXCEPT !.pc = "answered", !.listing = Failed]
          ELSE async[c]]
    /\ UNCHANGED <<srv, folders, batch, mux, now, history>>

Start ==
    /\ ~up
    /\ up' = TRUE
    /\ UNCHANGED <<server, folders, batch, mux, async, call, now, scenario, history>>

\* The times that a comparison may still see.
Stamps ==
    {srv[f].mtime : f \in Listed}
    \cup (UNION {{local[c][f].mtime : f \in {g \in Files : local[c][g] # Absent}} : c \in Clients})
    \cup (UNION {{async[c].listing[f].mtime : f \in DOMAIN async[c].listing} :
                  c \in {d \in Clients : async[d].listing # Failed}})

\* Only the order of times matters: a second later every time is renamed to its
\* rank, so that there are finitely many states.
Tick ==
    LET Rank(t) == Cardinality({s \in Stamps : s < t})
        Renamed(file) == IF file = Absent THEN Absent ELSE [file EXCEPT !.mtime = Rank(@)]
        RenamedListing(list) ==
            IF list = Failed THEN Failed
            ELSE [f \in DOMAIN list |-> [list[f] EXCEPT !.mtime = Rank(@)]]
    IN /\ now \in Stamps
       /\ now' = Cardinality(Stamps)
       /\ srv' = [f \in Files |-> Renamed(srv[f])]
       /\ local' = [c \in Clients |-> [f \in Files |-> Renamed(local[c][f])]]
       /\ async' = [c \in Clients |-> [async[c] EXCEPT !.listing = RenamedListing(@)]]
       /\ UNCHANGED <<lockList, up, events, batch, mux, call, scenario, history>>
-----------------------------------------------------------------------------
Mounted(c)     == c \in scenario.mounted
UserStep(c)    == \E f \in Files : Save(c, f) \/ Remove(c, f)
WatcherStep(c) == ReadEvents(c) \/ HandleEvent(c)
AsyncStep(c)   == \E f \in Files : CompareFile(c, f) \/ ScanFile(c, f)
ServerStep(c)  == Answer(c) \/ EndStore(c) \/ EndFetch(c)

Next ==
    \/ \E c \in scenario.users : UserStep(c)
    \/ \E c \in scenario.mounted : WatcherStep(c) \/ WatcherLocks(c)
    \/ \E c \in scenario.mounted : AsyncStep(c) \/ AsyncLocks(c) \/ ServerStep(c)
    \/ Stop \/ Start \/ Tick

\* Threads that can run do, calls are answered or fail, a server that was stopped
\* is started again, and time passes.  A thread that
\* waits for the mutex gets it in the end: the async thread lets go of it for
\* a call to the server in each round, the watcher when it has read no event.
Fairness ==
    /\ \A c \in Clients :
          /\ WF_vars(Mounted(c) /\ WatcherStep(c))
          /\ WF_vars(Mounted(c) /\ (AsyncStep(c) \/ ServerStep(c)))
          /\ SF_vars(Mounted(c) /\ WatcherLocks(c))
          /\ SF_vars(Mounted(c) /\ AsyncLocks(c))
    /\ WF_vars(Start) /\ WF_vars(Tick)

Spec == Init /\ [][Next]_vars /\ Fairness
-----------------------------------------------------------------------------
(* Properties.                                                              *)

IsListing(list) ==
    \/ list = Failed
    \/ DOMAIN list \subseteq Files /\ list \in [DOMAIN list -> [mtime : Nat, empty : BOOLEAN]]

IsRound(round) ==
    /\ round \in [pc : {"asked", "answered", "compare"}, listing : {round.listing},
                  todo : SUBSET Files, names : SUBSET Files]
    /\ IsListing(round.listing)

EventQueues == Seq([kind : {"create", "modify", "delete"}, file : Files])
Calls       == {NoCall} \cup [op : {"store", "fetch"}, file : Files, data : Contents, done : Nat,
                              rest : {"open", "gone", "failed"}]

\* Types of the state; inotify's queues stay within their limit; what a client
\* does at most once: a store or a fetch, by the thread that has the mutex.
TypeOK ==
    /\ srv \in [Files -> Copies]
    /\ local \in [Clients -> [Files -> Copies]]
    /\ lockList \in [Files -> Clients \cup {Nobody}]
    /\ up \in BOOLEAN
    /\ events \in [Clients -> EventQueues]
    /\ batch \in [Clients -> EventQueues]
    /\ \A c \in Clients : Len(events[c]) <= MaxQueue /\ Len(batch[c]) <= MaxQueue
    /\ mux \in [Clients -> {Nobody, "watcher", "async"}]
    /\ DOMAIN async = Clients /\ \A c \in Clients : IsRound(async[c])
    /\ call \in [Clients -> Calls]
    /\ now \in Nat
    /\ scenario \in AllScenarios
    /\ created \subseteq Files /\ removed \subseteq Files /\ lost \subseteq Files

\* The two threads of a client never work on the folder at the same time: the
\* async thread compares and removes only while it has the mutex, the watcher
\* handles events only while it has it, a store belongs to one of them, and a
\* fetch to the async thread.
ThreadsExclude ==
    \A c \in Clients :
        /\ (async[c].pc = "compare") = (mux[c] = "async")
        /\ mux[c] = "watcher" => batch[c] # << >> \/ Busy(c)
        /\ Busy(c) => mux[c] # Nobody
        /\ call[c].op = "fetch" => mux[c] = "async"

\* A file that all folders had at first, that no user has created or removed
\* since and no client has lost to a fetch that failed, disappears nowhere, and
\* none appears: stale listings, half written files, lost events, and stores and
\* deletes that a stopped server answers with an error, cost no file.
KnownFilesStay ==
    scenario.equal =>
        \A f \in Files \ (created \cup removed \cup lost), c \in scenario.mounted :
            (local[c][f] = Absent) = (srv[f] = Absent)

\* All folders have the same content of f.  A file that is empty somewhere is
\* beyond what synchronisation does: Store sends nothing of it and the
\* comparison takes it for equal.
InStep(f) ==
    LET copies == {srv[f]} \cup {local[c][f] : c \in scenario.mounted} IN
    \/ \A x, y \in copies : (x = Absent) = (y = Absent) /\ Data(x) = Data(y)
    \/ \E x \in copies : x # Absent /\ Data(x) = Empty

\* A file that a user has created while several clients are mounted may be
\* stored by one and removed by another for ever; see the README.
Contended(f) == f \in created /\ Cardinality(scenario.mounted) > 1


\* "Deletion requests should come from a client": no folder loses a file that no
\* user has removed.  The code does not keep to this; see the README.
DeletedByUsers ==
    [][\A c \in Clients, f \in Files :
          local[c][f] # Absent /\ local'[c][f] = Absent => f \in removed']_vars
=============================================================================
