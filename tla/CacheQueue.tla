----------------------------- MODULE CacheQueue -----------------------------
(***************************************************************************)
(* The cache's work queue: steque.c as simplecached.c uses it.  bossWorker *)
(* enqueues under mux, cacheWorkerFunction pops under mux2, and the named  *)
(* semaphore /CACHE counts the messages.                                   *)
(***************************************************************************)
EXTENDS Steque

CONSTANTS
    Boss,          \* the bossWorker thread, one of Threads
    MaxMessages    \* bound of the model; Items is 1 .. MaxMessages

Nobody == "nobody"
CacheWorkers == Threads \ {Boss}

VARIABLES
    mux2,       \* who pops; only the boss ever takes mux, so it needs no variable
    semCache,
    received    \* messages the boss has read
vars == <<steque, mux2, semCache, received>>

Init ==
    /\ StequeInit(<< >>)
    /\ pc = [t \in Threads |-> IF t = Boss THEN "receive" ELSE "idle"]
    /\ mux2 = Nobody
    /\ semCache = 0
    /\ received = 0

\* mqueue_read gives the next message, then mux is taken.
BossReceive ==
    /\ received < MaxMessages
    /\ Step(Boss, "receive", "malloc")
    /\ received' = received + 1
    /\ val' = [val EXCEPT ![Boss] = received + 1]
    /\ UNCHANGED <<fields, memory, node, seen, old, stopped, mux2, semCache>>

BossPost ==
    /\ Step(Boss, "pushed", "receive")
    /\ semCache' = semCache + 1
    /\ UNCHANGED <<fields, memory, locals, stopped, mux2, received>>

TakePost(c) ==
    /\ semCache > 0
    /\ Step(c, "idle", "lock")
    /\ semCache' = semCache - 1
    /\ UNCHANGED <<fields, memory, locals, stopped, mux2, received>>

LockForPop(c) ==
    /\ mux2 = Nobody
    /\ mux2' = c
    /\ Step(c, "lock", "pop")
    /\ UNCHANGED <<fields, memory, locals, stopped, semCache, received>>

UnlockAfterPop(c) ==
    /\ mux2' = Nobody
    /\ Step(c, "popped", "idle")
    /\ val' = [val EXCEPT ![c] = NoItem]
    /\ UNCHANGED <<fields, memory, node, seen, old, stopped, semCache, received>>

Next ==
    \/ BossReceive \/ BossPost
    \/ \E c \in CacheWorkers : TakePost(c) \/ LockForPop(c) \/ UnlockAfterPop(c)
    \/ \E t \in Threads : StequeStep(t) /\ UNCHANGED <<mux2, semCache, received>>

Spec == Init /\ [][Next]_vars

\* The cache does not end while it has messages to serve: no pop finds the
\* list empty and no enqueue follows a null pointer.
CacheKeepsRunning == stopped = "no"

=============================================================================
