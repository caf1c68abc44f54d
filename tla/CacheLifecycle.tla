---------------------------- MODULE CacheLifecycle ----------------------------
(***************************************************************************)
(* Start and stop of the proxy and the cache of pr3, and the objects they  *)
(* leave in the kernel: the message queue, the segments, the semaphore.    *)
(*                                                                         *)
(* Both programs open the queue by its name, whoever is first; the proxy's *)
(* first message in it is the segment size, which the cache takes for its  *)
(* own start.  Requests go the same way.  A queue whose name is removed    *)
(* stays with those that have it open.  Each program may get a signal at   *)
(* any point, and be started again.                                        *)
(***************************************************************************)
EXTENDS Integers, Sequences

CONSTANTS
    Segments,      \* of the proxy, by number
    Extra,         \* the number of segments, which is not one of them
    MaxMsg,        \* mq_maxmsg: 10 in the code
    MaxStarts,     \* bounds of the model: starts of each program,
    MaxSignals,    \* SIGINT or SIGTERM,
    MaxRequests    \* and requests

VARIABLES
    proxy,         \* label, the queue it has open, which start it is, the segments
                   \* its workers wait on, whether its size message has been read
    cache,         \* label, the queue it has open, the start whose size it has
    name,          \* the queue that the name leads to
    queues,        \* the messages in each queue
    segment,       \* what the name of each segment leads to
    semaphore,     \* whether the name of the semaphore leads to one
    orderly,       \* history: the programs were started and stopped in order
    left           \* starts, signals and requests that are left

vars == <<proxy, cache, name, queues, segment, semaphore, orderly, left>>

NoQueue == 0
NoSize  == 0
Garbage == -1      \* what the cache has when it takes a request for the size

SizeMessage(run)   == [kind |-> "size", value |-> run]
RequestMessage(i)  == [kind |-> "request", value |-> i]

Down(pc)    == pc \in {"down", "crashed"}

Init ==
    /\ proxy = [pc |-> "down", mq |-> NoQueue, run |-> 0, waiting |-> {}, read |-> FALSE]
    /\ cache = [pc |-> "down", mq |-> NoQueue, size |-> NoSize]
    /\ name = NoQueue
    /\ queues = << >>
    /\ segment = [i \in Segments \cup {Extra} |-> "absent"]
    /\ semaphore = FALSE
    /\ orderly = TRUE
    /\ left = [proxy |-> MaxStarts, cache |-> MaxStarts, signals |-> MaxSignals,
               requests |-> MaxRequests]

\* Variant for mutation: an old queue is removed before a new one is created.
MqueueInitAnew ==
    /\ name' = Len(queues) + 1
    /\ queues' = Append(queues, << >>)

\* mq_open with O_CREAT: the queue that has the name, or a new one.
MqueueInit ==
    /\ name' = IF name = NoQueue THEN Len(queues) + 1 ELSE name
    /\ queues' = IF name = NoQueue THEN Append(queues, << >>) ELSE queues

AllSegments(value) == [i \in DOMAIN segment |-> IF i \in Segments THEN value ELSE segment[i]]
-----------------------------------------------------------------------------
(* The proxy.                                                               *)

\* It is in order to start when no cache runs that has had another proxy.
ProxyOpen ==
    /\ Down(proxy.pc)
    /\ left.proxy > 0
    /\ left' = [left EXCEPT !.proxy = @ - 1]
    /\ MqueueInit
    /\ proxy' = [pc |-> "size", mq |-> name', run |-> proxy.run + 1, waiting |-> {},
                 read |-> FALSE]
    /\ orderly' = (orderly /\ (Down(cache.pc) \/ cache.size = NoSize))
    /\ UNCHANGED <<cache, segment, semaphore>>

ProxySize ==
    /\ proxy.pc = "size"
    /\ Len(queues[proxy.mq]) < MaxMsg
    /\ queues' = [queues EXCEPT ![proxy.mq] = Append(@, SizeMessage(proxy.run))]
    /\ proxy' = [proxy EXCEPT !.pc = "segments"]
    /\ UNCHANGED <<cache, name, segment, semaphore, orderly, left>>

\* The pool and the segments; ftruncate gives a segment that is there its size.
ProxySegments ==
    /\ proxy.pc = "segments"
    /\ segment' = AllSegments("whole")
    /\ proxy' = [proxy EXCEPT !.pc = "serve"]
    /\ UNCHANGED <<cache, name, queues, semaphore, orderly, left>>

Request(i) ==
    /\ proxy.pc = "serve"
    /\ i \notin proxy.waiting
    /\ left.requests > 0
    /\ Len(queues[proxy.mq]) < MaxMsg
    /\ left' = [left EXCEPT !.requests = @ - 1]
    /\ segment' = [segment EXCEPT ![i] = "whole"]
    /\ queues' = [queues EXCEPT ![proxy.mq] = Append(@, RequestMessage(i))]
    /\ proxy' = [proxy EXCEPT !.waiting = @ \cup {i}]
    /\ UNCHANGED <<cache, name, semaphore, orderly>>

\* The handler destroys the pool first; before there is one it follows a null
\* pointer instead, and the program ends there.
ProxySignal ==
    /\ ~Down(proxy.pc) /\ proxy.pc # "stopping"
    /\ left.signals > 0
    /\ left' = [left EXCEPT !.signals = @ - 1]
    /\ proxy' = [proxy EXCEPT !.pc = IF proxy.pc = "serve" THEN "stopping" ELSE "crashed"]
    /\ orderly' = (orderly /\ proxy.pc = "serve" /\ proxy.waiting = {})
    /\ UNCHANGED <<cache, name, queues, segment, semaphore>>

\* Variant for mutation: mqueue_clear is left out.
ProxyExitWithoutClear ==
    /\ proxy.pc = "stopping"
    /\ segment' = AllSegments("absent")
    /\ proxy' = [proxy EXCEPT !.pc = "down", !.mq = NoQueue]
    /\ UNCHANGED <<cache, name, queues, semaphore, orderly, left>>

\* shm_cleanup, mqueue_clear and exit.
ProxyExit ==
    /\ proxy.pc = "stopping"
    /\ segment' = AllSegments("absent")
    /\ name' = NoQueue
    /\ proxy' = [proxy EXCEPT !.pc = "down", !.mq = NoQueue]
    /\ UNCHANGED <<cache, queues, semaphore, orderly, left>>

\* Meanwhile a worker gets its answer and returns its segment to the pool, which
\* is a null pointer now.
WorkerMeetsHandler ==
    /\ proxy.pc = "stopping"
    /\ proxy.waiting # {}
    /\ proxy' = [proxy EXCEPT !.pc = "crashed"]
    /\ UNCHANGED <<cache, name, queues, segment, semaphore, orderly, left>>
-----------------------------------------------------------------------------
(* The cache.                                                               *)

\* It is in order to start when no other cache has had this proxy's size.
CacheOpen ==
    /\ Down(cache.pc)
    /\ left.cache > 0
    /\ left' = [left EXCEPT !.cache = @ - 1]
    /\ MqueueInit
    /\ cache' = [pc |-> "size", mq |-> name', size |-> NoSize]
    /\ orderly' = (orderly /\ (Down(proxy.pc) \/ ~proxy.read))
    /\ UNCHANGED <<proxy, segment, semaphore>>

CacheReadSize ==
    /\ cache.pc = "size"
    /\ queues[cache.mq] # << >>
    /\ LET message == Head(queues[cache.mq]) IN
          cache' = [cache EXCEPT !.pc = "semaphore",
              !.size = IF message.kind = "size" THEN message.value ELSE Garbage]
    /\ proxy' = [proxy EXCEPT !.read = @ \/ cache'.size = proxy.run]
    /\ queues' = [queues EXCEPT ![cache.mq] = Tail(@)]
    /\ UNCHANGED <<name, segment, semaphore, orderly, left>>

CacheSemaphore ==
    /\ cache.pc = "semaphore"
    /\ semaphore' = TRUE
    /\ cache' = [cache EXCEPT !.pc = "serve"]
    /\ UNCHANGED <<proxy, name, queues, segment, orderly, left>>

\* The number a message gives: a size message is taken for a request as well,
\* and its second number is that of the segments.
NumberIn(message) == IF message.kind = "size" THEN Extra ELSE message.value

\* shm_get_object creates a segment that is not there, without a size: the first
\* access to it ends the cache.
Serve ==
    /\ cache.pc = "serve"
    /\ queues[cache.mq] # << >>
    /\ queues' = [queues EXCEPT ![cache.mq] = Tail(@)]
    /\ LET i == NumberIn(Head(queues[cache.mq])) IN
          \/ /\ segment[i] = "whole"
             /\ cache.size # Garbage
             /\ proxy' = [proxy EXCEPT !.waiting = @ \ {i}]
             /\ UNCHANGED <<cache, segment>>
          \/ /\ segment[i] # "whole" \/ cache.size = Garbage
             /\ segment' = [segment EXCEPT ![i] = IF @ = "absent" THEN "hollow" ELSE @]
             /\ cache' = [cache EXCEPT !.pc = "crashed"]
             /\ UNCHANGED proxy
    /\ UNCHANGED <<name, semaphore, orderly, left>>

\* The handler removes the semaphore, and nothing else.
CacheSignal ==
    /\ ~Down(cache.pc)
    /\ left.signals > 0
    /\ left' = [left EXCEPT !.signals = @ - 1]
    /\ semaphore' = FALSE
    /\ cache' = [cache EXCEPT !.pc = IF cache.pc = "serve" THEN "down" ELSE "crashed",
                              !.mq = NoQueue]
    /\ orderly' = (orderly /\ cache.pc = "serve" /\ proxy.waiting = {})
    /\ UNCHANGED <<proxy, name, queues, segment>>
-----------------------------------------------------------------------------
ProxyStep == ProxyOpen \/ ProxySize \/ ProxySegments \/ ProxyExit \/ WorkerMeetsHandler
CacheStep == CacheOpen \/ CacheReadSize \/ CacheSemaphore \/ Serve

Next ==
    \/ ProxyStep \/ (\E i \in Segments : Request(i)) \/ ProxySignal
    \/ CacheStep \/ CacheSignal

Fairness == WF_vars(ProxyStep) /\ WF_vars(CacheStep)

Spec == Init /\ [][Next]_vars /\ Fairness
-----------------------------------------------------------------------------
(* Properties.                                                              *)

Messages == {SizeMessage(run) : run \in 1 .. MaxStarts} \cup {RequestMessage(i) : i \in Segments}

TypeOK ==
    /\ proxy \in [pc : {"down", "size", "segments", "serve", "stopping", "crashed"},
                  mq : 0 .. Len(queues), run : 0 .. MaxStarts, waiting : SUBSET Segments,
                  read : BOOLEAN]
    /\ cache \in [pc : {"down", "size", "semaphore", "serve", "crashed"},
                  mq : 0 .. Len(queues), size : Garbage .. MaxStarts]
    /\ name \in 0 .. Len(queues)
    /\ \A q \in 1 .. Len(queues) :
          queues[q] \in Seq(Messages) /\ Len(queues[q]) <= MaxMsg
    /\ segment \in [Segments \cup {Extra} -> {"absent", "whole", "hollow"}]
    /\ semaphore \in BOOLEAN /\ orderly \in BOOLEAN

Signalled == left.signals < MaxSignals

Meeting == proxy.pc = "serve" /\ cache.pc = "serve" /\ proxy.mq = cache.mq

\* "Neither the cache daemon nor the proxy should crash if the other process is
\* not started already": they do not, and a cache that has met the proxy has the
\* proxy's segment size, as long as each is stopped only when it serves and is
\* idle, and both are stopped before one is started again.
StartsInAnyOrder ==
    orderly => /\ proxy.pc # "crashed" /\ cache.pc # "crashed"
               /\ Meeting => cache.size = proxy.run

\* Once both have been stopped in that way, whichever was first, no object is
\* left in the kernel.
NothingLeft ==
    orderly /\ proxy.pc = "down" /\ cache.pc = "down" =>
        name = NoQueue /\ ~semaphore /\ \A i \in DOMAIN segment : segment[i] = "absent"

\* Why the two hold.  Types first, without the bounds of the model.
Labels ==
    /\ proxy \in [pc : {"down", "size", "segments", "serve", "stopping", "crashed"},
                  mq : Nat, run : Nat, waiting : SUBSET Segments, read : BOOLEAN]
    /\ cache \in [pc : {"down", "size", "semaphore", "serve", "crashed"}, mq : Nat, size : Int]
    /\ queues \in Seq(Seq([kind : {"size", "request"}, value : Int]))
    /\ name \in 0 .. Len(queues)
    /\ ~Down(proxy.pc) => proxy.mq \in 1 .. Len(queues)
    /\ ~Down(cache.pc) => cache.mq \in 1 .. Len(queues)
    /\ segment \in [Segments \cup {Extra} -> {"absent", "whole", "hollow"}]

\* Each program that is up has a queue, and the running proxy's has the name; a
\* queue with a name but without a proxy is one that a cache waits at.
QueuesOpen ==
    /\ proxy.pc = "down" => proxy.mq = NoQueue
    /\ proxy.pc # "down" => proxy.mq = name /\ name # NoQueue
    /\ cache.pc = "down" <=> cache.mq = NoQueue
    /\ proxy.pc = "down" /\ name # NoQueue => cache.mq = name
    /\ proxy.pc \in {"down", "size"} /\ name # NoQueue =>
          queues[name] = << >> /\ (cache.mq = name => cache.pc = "size")
    /\ cache.pc = "size" => cache.size = NoSize
    /\ cache.pc \in {"semaphore", "serve"} => cache.size \in Nat \ {NoSize}

\* The objects there are, and who waits.
ObjectsThere ==
    /\ proxy.waiting # {} => proxy.pc = "serve"
    /\ semaphore <=> cache.pc = "serve"
    /\ \A i \in Segments \cup {Extra} :
          segment[i] = IF proxy.pc \in {"serve", "stopping"} /\ i \in Segments
                       THEN "whole" ELSE "absent"

\* Requests, each of a segment for which one of the workers waits, and no two of one.
AreRequests(messages, workers) ==
    /\ \A j \in 1 .. Len(messages) : \E i \in workers : messages[j] = RequestMessage(i)
    /\ \A j, k \in 1 .. Len(messages) : messages[j] = messages[k] => j = k

\* In the running proxy's queue the size message is first, until it is read, and it
\* is read by a cache that starts; there is no second reader.
SizeFirst ==
    /\ proxy.pc = "size" => ~proxy.read
    /\ proxy.pc \in {"segments", "serve", "stopping"} /\ ~proxy.read =>
          /\ queues[name] # << >> /\ Head(queues[name]) = SizeMessage(proxy.run)
          /\ AreRequests(Tail(queues[name]), proxy.waiting)
          /\ cache.mq = name => cache.pc = "size"
    /\ proxy.pc \in {"segments", "serve", "stopping"} /\ proxy.read =>
          /\ AreRequests(queues[name], proxy.waiting)
          /\ cache.mq = name => cache.pc # "size" /\ cache.size = proxy.run

\* What an earlier proxy has left in a queue is its size message at most.
OldQueues ==
    cache.mq # NoQueue /\ cache.mq # name =>
        IF cache.pc # "size" THEN queues[cache.mq] = << >>
        ELSE \E run \in 1 .. proxy.run :
                queues[cache.mq] = <<SizeMessage(run)>> /\ (proxy.pc # "down" => run # proxy.run)

InOrder ==
    /\ proxy.pc # "crashed" /\ cache.pc # "crashed"
    /\ proxy.pc # "down" => proxy.run > 0
    /\ QueuesOpen /\ ObjectsThere /\ SizeFirst /\ OldQueues

LifecycleInv == Labels /\ (orderly => InOrder)

\* Without a signal the two meet, in whichever order they are started.
TheyMeet == <>(Meeting \/ Signalled)
=============================================================================
