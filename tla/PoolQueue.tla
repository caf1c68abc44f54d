----------------------------- MODULE PoolQueue ------------------------------
(***************************************************************************)
(* The proxy's pool of segment ids: steque.c as handle_with_cache and      *)
(* webproxy's main use it, every call under the one mutex mux.             *)
(***************************************************************************)
EXTENDS Steque

CONSTANT NumIds       \* nsegments

Nobody == "nobody"

ASSUME PoolAssumption ==
    /\ NumIds \in Nat \ {0} /\ NumIds <= MaxNodes
    /\ Items = 0 .. (NumIds - 1)
    /\ Nobody \notin Threads

VARIABLE mux
vars == <<steque, mux>>

Ids == [i \in 1 .. NumIds |-> i - 1]

\* main fills the pool before the worker threads exist.
Init ==
    /\ StequeInit(Ids)
    /\ pc = [t \in Threads |-> "want"]
    /\ mux = Nobody

LockForPop(t) ==
    /\ mux = Nobody
    /\ mux' = t
    /\ Step(t, "want", "testEmpty")
    /\ UNCHANGED <<fields, memory, locals, stopped>>

\* steque_isempty: an empty pool sends the thread to sleep without mux (it
\* comes back to the test), a non-empty one into steque_pop.
TestEmpty(t) ==
    /\ \/ /\ N = 0
          /\ mux' = Nobody
          /\ Step(t, "testEmpty", "want")
       \/ /\ N # 0
          /\ UNCHANGED mux
          /\ Step(t, "testEmpty", "pop")
    /\ UNCHANGED <<fields, memory, locals, stopped>>

UnlockAfterPop(t) ==
    /\ mux' = Nobody
    /\ Step(t, "popped", "hold")
    /\ UNCHANGED <<fields, memory, locals, stopped>>

\* The request is served; the id goes back.
LockForPush(t) ==
    /\ mux = Nobody
    /\ mux' = t
    /\ Step(t, "hold", "malloc")
    /\ UNCHANGED <<fields, memory, locals, stopped>>

UnlockAfterPush(t) ==
    /\ mux' = Nobody
    /\ Step(t, "pushed", "want")
    /\ UNCHANGED <<fields, memory, locals, stopped>>

Next == \E t \in Threads :
    \/ LockForPop(t) \/ TestEmpty(t) \/ UnlockAfterPop(t)
    \/ LockForPush(t) \/ UnlockAfterPush(t)
    \/ StequeStep(t) /\ UNCHANGED mux

Spec == Init /\ [][Next]_vars

\* A thread has an id in hand from the write of front in pop to the write that
\* links the node in enqueue.
InHand(t) ==
    IF pc[t] \in {"testLast", "clearBack", "free", "loadDown", "storeDown", "popped",
                  "hold", "malloc", "testBack", "setFront", "link"}
    THEN val[t] ELSE NoItem

AbstractPool == INSTANCE Fifo WITH
    Initial <- Ids, queue <- Contents, hand <- [t \in Threads |-> InHand(t)]

\* The linked list under mux is a first-in first-out pool: every id is handed
\* out in the order of its return, to one thread at a time, and none is lost.
PoolIsFifo == AbstractPool!Spec

\* handle_with_cache never pops the empty pool and follows no null pointer.
PoolNeverStops == stopped = "no"
=============================================================================
