------------------------------- MODULE Steque -------------------------------
(***************************************************************************)
(* The linked-list queue of steque.c, one memory access at a time.         *)
(*                                                                         *)
(* steque_enqueue and steque_pop take no lock of their own.  Each of their *)
(* accesses to the shared fields front, back, N and to the nodes is an     *)
(* action, so that a module that says who calls them under which lock      *)
(* (PoolQueue, CacheQueue) shows what the callers' locking is worth.  A    *)
(* thread enters at label "malloc" (enqueue val[t]) or "pop" and leaves at *)
(* "pushed" or "popped".                                                   *)
(***************************************************************************)
EXTENDS Integers, Sequences, FiniteSets

CONSTANTS
    Threads,   \* the callers
    Items,     \* what the queue holds
    NoItem,
    MaxNodes   \* bound of the model: addresses malloc can return

ASSUME StequeAssumption == MaxNodes \in Nat \ {0} /\ NoItem \notin Items

Null  == 0
Nodes == 1 .. MaxNodes

VARIABLES
    front, back, N,   \* the fields of steque_t
    item, next,       \* the fields of the nodes
    live,             \* nodes that malloc returned and free did not get back
    pc,               \* where each thread is
    val,              \* the item it enqueues, or the answer of its pop
    node,             \* the local variable node
    seen,             \* a pointer it has read and not used yet
    old,              \* the value of N it has read and not written back yet
    stopped           \* "no", "exit" (underflow) or "fault" (null dereference)

fields  == <<front, back, N>>
memory  == <<item, next, live>>
locals  == <<val, node, seen, old>>
steque  == <<fields, memory, pc, locals, stopped>>

Step(t, from, to) ==
    /\ stopped = "no"
    /\ pc[t] = from
    /\ pc' = [pc EXCEPT ![t] = to]

\* A call returns: its locals, but for the item or the answer, are gone.
ForgetLocals(t) ==
    /\ node' = [node EXCEPT ![t] = Null]
    /\ seen' = [seen EXCEPT ![t] = Null]
    /\ old' = [old EXCEPT ![t] = 0]

\* steque_init, and steque_enqueue of each element of `content' by one thread.
StequeInit(content) ==
    /\ front = (IF content = << >> THEN Null ELSE 1)
    /\ back = Len(content)
    /\ N = Len(content)
    /\ item = [n \in Nodes |-> IF n <= Len(content) THEN content[n] ELSE NoItem]
    /\ next = [n \in Nodes |-> IF n < Len(content) THEN n + 1 ELSE Null]
    /\ live = 1 .. Len(content)
    /\ val = [t \in Threads |-> NoItem]
    /\ node = [t \in Threads |-> Null]
    /\ seen = [t \in Threads |-> Null]
    /\ old = [t \in Threads |-> 0]
    /\ stopped = "no"
-----------------------------------------------------------------------------
(* steque_enqueue                                                           *)

Malloc(t) ==
    /\ Step(t, "malloc", "testBack")
    /\ \E a \in Nodes \ live :
          /\ live' = live \cup {a}
          /\ item' = [item EXCEPT ![a] = val[t]]
          /\ next' = [next EXCEPT ![a] = Null]
          /\ node' = [node EXCEPT ![t] = a]
    /\ UNCHANGED <<fields, val, seen, old, stopped>>

TestBack(t) ==
    /\ Step(t, "testBack", IF back = Null THEN "setFront" ELSE "link")
    /\ seen' = [seen EXCEPT ![t] = back]
    /\ UNCHANGED <<fields, memory, val, node, old, stopped>>

SetFront(t) ==
    /\ Step(t, "setFront", "setBack")
    /\ front' = node[t]
    /\ UNCHANGED <<back, N, memory, locals, stopped>>

\* this->back->next = node: the compiler may reuse the pointer it has tested or
\* read the field again; by then another thread may have freed or cleared it.
LinkLast(t) ==
    /\ Step(t, "link", "setBack")
    /\ \E last \in {seen[t], back} :
          \/ /\ last = Null
             /\ stopped' = "fault"
             /\ UNCHANGED next
          \/ /\ last # Null
             /\ next' = [next EXCEPT ![last] = node[t]]
             /\ UNCHANGED stopped
    /\ UNCHANGED <<fields, item, live, locals>>

SetBack(t) ==
    /\ Step(t, "setBack", "loadUp")
    /\ back' = node[t]
    /\ UNCHANGED <<front, N, memory, locals, stopped>>

\* N++ and N-- read the field and write it back.
LoadCount(t) ==
    /\ \/ Step(t, "loadUp", "storeUp")
       \/ Step(t, "loadDown", "storeDown")
    /\ old' = [old EXCEPT ![t] = N]
    /\ UNCHANGED <<fields, memory, val, node, seen, stopped>>

CountUp(t) ==
    /\ Step(t, "storeUp", "pushed")
    /\ N' = old[t] + 1
    /\ val' = [val EXCEPT ![t] = NoItem]
    /\ ForgetLocals(t)
    /\ UNCHANGED <<front, back, memory, stopped>>
-----------------------------------------------------------------------------
(* steque_pop                                                               *)

TestFront(t) ==
    /\ \/ /\ front = Null
          /\ Step(t, "pop", "pop")
          /\ stopped' = "exit"
          /\ UNCHANGED <<node, val>>
       \/ /\ front # Null
          /\ Step(t, "pop", "readNext")
          /\ node' = [node EXCEPT ![t] = front]
          /\ val' = [val EXCEPT ![t] = item[front]]
          /\ UNCHANGED stopped
    /\ UNCHANGED <<fields, memory, seen, old>>

ReadNext(t) ==
    /\ Step(t, "readNext", "unlink")
    /\ seen' = [seen EXCEPT ![t] = next[front]]
    /\ UNCHANGED <<fields, memory, val, node, old, stopped>>

Unlink(t) ==
    /\ Step(t, "unlink", "testLast")
    /\ front' = seen[t]
    /\ UNCHANGED <<back, N, memory, locals, stopped>>

\* Variant for mutation: back is left pointing at the node that is freed.
KeepBack(t) ==
    /\ Step(t, "testLast", "free")
    /\ UNCHANGED <<fields, memory, locals, stopped>>

TestLast(t) ==
    /\ Step(t, "testLast", IF front = Null THEN "clearBack" ELSE "free")
    /\ UNCHANGED <<fields, memory, locals, stopped>>

ClearBack(t) ==
    /\ Step(t, "clearBack", "free")
    /\ back' = Null
    /\ UNCHANGED <<front, N, memory, locals, stopped>>

\* Variant for mutation: free(node) is left out.
Leak(t) ==
    /\ Step(t, "free", "loadDown")
    /\ UNCHANGED <<fields, memory, locals, stopped>>

Free(t) ==
    /\ Step(t, "free", "loadDown")
    /\ live' = live \ {node[t]}
    /\ UNCHANGED <<fields, item, next, locals, stopped>>

CountDown(t) ==
    /\ Step(t, "storeDown", "popped")
    /\ N' = old[t] - 1
    /\ ForgetLocals(t)
    /\ UNCHANGED <<front, back, memory, val, stopped>>

StequeStep(t) ==
    \/ Malloc(t) \/ TestBack(t) \/ SetFront(t) \/ LinkLast(t) \/ SetBack(t)
    \/ LoadCount(t) \/ CountUp(t)
    \/ TestFront(t) \/ ReadNext(t) \/ Unlink(t) \/ TestLast(t) \/ ClearBack(t)
    \/ Free(t) \/ CountDown(t)
-----------------------------------------------------------------------------
\* The list as its readers see it: follow next from front.
Path[k \in 0 .. MaxNodes] ==
    IF k = 0 THEN front
    ELSE IF Path[k - 1] = Null THEN Null ELSE next[Path[k - 1]]

ListLength == Cardinality({k \in 0 .. MaxNodes : Path[k] # Null})
Contents   == [k \in 1 .. ListLength |-> item[Path[k - 1]]]

LibraryLabels == {"malloc", "testBack", "setFront", "link", "setBack", "loadUp", "storeUp",
                  "pop", "readNext", "unlink", "testLast", "clearBack", "free",
                  "loadDown", "storeDown"}

\* What every operation must leave behind once no thread is inside one: back
\* is the last node of the list, N its length, and no node is leaked.
Consistent ==
    (\A t \in Threads : pc[t] \notin LibraryLabels) =>
        /\ N = ListLength
        /\ back = IF N = 0 THEN Null ELSE Path[N - 1]
        /\ live = {Path[k] : k \in 0 .. (N - 1)}
=============================================================================
