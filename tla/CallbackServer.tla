---------------------------- MODULE CallbackServer ----------------------------
(***************************************************************************)
(* The server's side of CallbackList (pr4-gRPC/part2): DFSCallData, the    *)
(* threads of HandleAsyncRPC, and the queue of tags between them and the   *)
(* runtime.                                                                *)
(*                                                                         *)
(* A call data serves one call.  Its constructor puts its address, the     *)
(* tag, into queued_tags; the queue thread hands the tags there to the     *)
(* runtime; the runtime gives one to each call that comes in and puts it   *)
(* on the completion queue, from where a thread takes it, creates the call *)
(* data of the next call and answers this one.  The tag comes back once    *)
(* more when the answer is out, and the call data deletes itself.  Its     *)
(* address may then be the next one's.                                     *)
(***************************************************************************)
EXTENDS Integers, FiniteSets

CONSTANTS
    Threads,       \* num_async_threads: 4 by default
    Clients,
    Tags,          \* addresses of call data, as numbers: bound of the model
    MaxCalls       \* bound of the model: CallbackList calls

VARIABLES
    status,        \* of the call data at each tag: PROCESS, FINISH or free
    owner,         \* the client whose call a call data serves
    queuedTags,    \* queued_tags
    listening,     \* tags the runtime has for calls to come
    completions,   \* the completion queue
    thread,        \* what each thread of HandleAsyncRPC is about to do
    client,        \* each client's call
    calls          \* made so far

vars == <<status, owner, queuedTags, listening, completions, thread, client, calls>>

NoTag    == 0
NoClient == "none"

At(pc, tag)     == [pc |-> pc, tag |-> tag]
Event(tag, ok)  == [tag |-> tag, ok |-> ok]
Free            == {t \in Tags : status[t] = "free"}

Init ==
    /\ status = [t \in Tags |-> "free"]
    /\ owner = [t \in Tags |-> NoClient]
    /\ queuedTags = {}
    /\ listening = {}
    /\ completions = {}
    /\ thread = [h \in Threads |-> At("start", NoTag)]
    /\ client = [c \in Clients |-> "idle"]
    /\ calls = 0

\* new DFSCallData, whose constructor goes on to PROCESS and queues itself.  The
\* allocator uses an address again as soon as it can.
Create ==
    LET t == CHOOSE t \in Free : \A u \in Free : t <= u
    IN /\ Free # {}
       /\ status' = [status EXCEPT ![t] = "process"]
       /\ owner' = [owner EXCEPT ![t] = NoClient]
       /\ queuedTags' = queuedTags \cup {t}

Start(h) ==
    /\ thread[h].pc = "start"
    /\ Create
    /\ thread' = [thread EXCEPT ![h] = At("next", NoTag)]
    /\ UNCHANGED <<listening, completions, client, calls>>

\* Variant for mutation: the tags are handed over and not erased.
ProcessQueuedRequestsAgain ==
    /\ queuedTags # {}
    /\ listening' = listening \cup queuedTags
    /\ UNCHANGED <<status, owner, queuedTags, completions, thread, client, calls>>

ProcessQueuedRequests ==
    /\ queuedTags # {}
    /\ listening' = listening \cup queuedTags
    /\ queuedTags' = {}
    /\ UNCHANGED <<status, owner, completions, thread, client, calls>>
-----------------------------------------------------------------------------
(* The clients and the runtime.                                             *)

Ask(c) ==
    /\ client[c] = "idle"
    /\ calls < MaxCalls
    /\ calls' = calls + 1
    /\ client' = [client EXCEPT ![c] = "asked"]
    /\ UNCHANGED <<status, owner, queuedTags, listening, completions, thread>>

\* A call gets a tag, also that of a client that has died since.
Match(c, t) ==
    /\ client[c] \in {"asked", "lost"}
    /\ t \in listening
    /\ listening' = listening \ {t}
    /\ owner' = [owner EXCEPT ![t] = c]
    /\ completions' = completions \cup {Event(t, TRUE)}
    /\ client' = [client EXCEPT ![c] = IF @ = "asked" THEN "waiting" ELSE "gone"]
    /\ UNCHANGED <<status, queuedTags, thread, calls>>

\* A client's process ends.  The runtime may still have its call.
Die(c) ==
    /\ client[c] \in {"asked", "waiting"}
    /\ \E end \in {"gone"} \cup (IF client[c] = "asked" THEN {"lost"} ELSE {}) :
          client' = [client EXCEPT ![c] = end]
    /\ UNCHANGED <<status, owner, queuedTags, listening, completions, thread, calls>>
-----------------------------------------------------------------------------
(* HandleAsyncRPC and Proceed.                                              *)

\* An event that is not ok is dropped, whatever its tag was waiting for.
TakeEvent(h) ==
    /\ thread[h].pc = "next"
    /\ \E e \in completions :
          /\ completions' = completions \ {e}
          /\ \/ /\ ~e.ok
                /\ UNCHANGED <<status, thread>>
             \/ /\ e.ok
                /\ status[e.tag] = "process"
                /\ thread' = [thread EXCEPT ![h] = At("respawn", e.tag)]
                /\ UNCHANGED status
             \/ /\ e.ok
                /\ status[e.tag] = "finish"
                /\ status' = [status EXCEPT ![e.tag] = "free"]
                /\ UNCHANGED thread
    /\ UNCHANGED <<owner, queuedTags, listening, client, calls>>

\* Variant for mutation: no call data takes the place of one that has a call.
RespawnNothing(h) ==
    /\ thread[h].pc = "respawn"
    /\ thread' = [thread EXCEPT ![h].pc = "respond"]
    /\ UNCHANGED <<status, owner, queuedTags, listening, completions, client, calls>>

Respawn(h) ==
    /\ thread[h].pc = "respawn"
    /\ Create
    /\ thread' = [thread EXCEPT ![h].pc = "respond"]
    /\ UNCHANGED <<listening, completions, client, calls>>

\* Variant for mutation: the call data is deleted with the answer.
RespondAndDelete(h) ==
    /\ thread[h].pc = "respond"
    /\ LET t == thread[h].tag IN
          /\ status' = [status EXCEPT ![t] = "free"]
          /\ completions' = completions \cup {Event(t, TRUE)}
          /\ client' = [client EXCEPT ![owner[t]] = IF @ = "waiting" THEN "idle" ELSE @]
    /\ thread' = [thread EXCEPT ![h] = At("next", NoTag)]
    /\ UNCHANGED <<owner, queuedTags, listening, calls>>

\* ProcessCallback and Finish.  The answer does not reach a client that is gone,
\* and the event may then not be ok.
Respond(h) ==
    /\ thread[h].pc = "respond"
    /\ LET t == thread[h].tag IN
          /\ status' = [status EXCEPT ![t] = "finish"]
          /\ \E ok \in (IF client[owner[t]] = "gone" THEN BOOLEAN ELSE {TRUE}) :
                completions' = completions \cup {Event(t, ok)}
          /\ client' = [client EXCEPT ![owner[t]] = IF @ = "waiting" THEN "idle" ELSE @]
    /\ thread' = [thread EXCEPT ![h] = At("next", NoTag)]
    /\ UNCHANGED <<owner, queuedTags, listening, calls>>
-----------------------------------------------------------------------------
ThreadStep(h) == Start(h) \/ TakeEvent(h) \/ Respawn(h) \/ Respond(h)

Next ==
    \/ \E h \in Threads : ThreadStep(h)
    \/ ProcessQueuedRequests
    \/ \E c \in Clients : Ask(c) \/ Die(c) \/ \E t \in Tags : Match(c, t)

\* The threads run, and the runtime gives a tag to a call when it has one.
Fairness ==
    /\ \A h \in Threads : WF_vars(ThreadStep(h))
    /\ WF_vars(ProcessQueuedRequests)
    /\ \A c \in Clients : WF_vars(\E t \in Tags : Match(c, t))

Spec == Init /\ [][Next]_vars /\ Fairness
-----------------------------------------------------------------------------
(* Properties.                                                              *)

TypeOK ==
    /\ status \in [Tags -> {"free", "process", "finish"}]
    /\ owner \in [Tags -> Clients \cup {NoClient}]
    /\ queuedTags \subseteq Tags
    /\ listening \subseteq Tags
    /\ completions \subseteq [tag : Tags, ok : BOOLEAN]
    /\ thread \in [Threads -> [pc : {"start", "next", "respawn", "respond"},
                               tag : Tags \cup {NoTag}]]
    /\ client \in [Clients -> {"idle", "asked", "lost", "waiting", "gone"}]
    /\ calls \in 0 .. MaxCalls

\* Call data of the state PROCESS that have a call, by where their tag is.
Called == {e \in completions : status[e.tag] = "process"}
To(pc) == {h \in Threads : thread[h].pc = pc}

\* However clients come, go and die, there are as many call data open for a next
\* call, or about to be created, as there are threads: no call in the end finds
\* nobody who listens.
ListenersStay ==
    Cardinality(queuedTags \cup listening) + Cardinality(Called)
        + Cardinality(To("start")) + Cardinality(To("respawn")) = Cardinality(Threads)

Places(t) ==
    (IF t \in queuedTags THEN 1 ELSE 0) + (IF t \in listening THEN 1 ELSE 0)
    + Cardinality({e \in completions : e.tag = t}) + Cardinality({h \in Threads : thread[h].tag = t})

\* A tag is the address of a call data: it is in one place at most, in none when
\* its call data has been deleted, so that no address is used after that or by
\* two; and a call data that is in no place, which is never deleted, is one whose
\* client has died.
TagsLive ==
    \A t \in Tags :
        /\ Places(t) <= 1
        /\ status[t] = "free" => Places(t) = 0
        /\ status[t] # "free" /\ Places(t) = 0 => client[owner[t]] = "gone"

\* Why the two hold.  A tag that waits for a call is that of a call data without one.
WaitingTags ==
    /\ \A t \in queuedTags \cup listening : status[t] = "process"
    /\ queuedTags \cap listening = {}

\* A tag is in one event, of a call; an event that is not ok is the last of its
\* tag, and of a client that has died.
EventTags ==
    /\ \A e \in completions :
          /\ status[e.tag] # "free" /\ owner[e.tag] \in Clients
          /\ e.tag \notin queuedTags \cup listening
          /\ ~e.ok => status[e.tag] = "finish" /\ client[owner[e.tag]] = "gone"
    /\ \A e, f \in completions : e.tag = f.tag => e = f

\* A thread that serves a call has the tag to itself.
HeldTags ==
    \A h \in Threads :
        IF thread[h].pc \in {"start", "next"}
        THEN thread[h].tag = NoTag
        ELSE /\ thread[h].tag \in Tags \ (queuedTags \cup listening)
             /\ status[thread[h].tag] = "process" /\ owner[thread[h].tag] \in Clients
             /\ \A e \in completions : e.tag # thread[h].tag
             /\ \A g \in Threads : thread[g].tag = thread[h].tag => g = h

\* The only tags in no place are of call data that wait for the event of a dead
\* client's answer.
NoTagLost ==
    \A t \in Tags :
        \/ status[t] = "free"
        \/ t \in queuedTags \cup listening
        \/ \E e \in completions : e.tag = t
        \/ \E h \in Threads : thread[h].tag = t
        \/ status[t] = "finish" /\ owner[t] \in Clients /\ client[owner[t]] = "gone"

TagInv == WaitingTags /\ EventTags /\ HeldTags /\ NoTagLost

\* Every client that asks gets an answer, unless it dies.
EveryCallAnswered ==
    \A c \in Clients : client[c] \in {"asked", "waiting"} ~> client[c] \in {"idle", "gone", "lost"}
=============================================================================
