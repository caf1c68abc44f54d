-------------------------------- MODULE Fifo --------------------------------
(***************************************************************************)
(* A first-in first-out queue shared by threads: what the proxy and the    *)
(* cache take steque.c for.  A thread has at most one item in hand.        *)
(***************************************************************************)
EXTENDS Sequences

CONSTANTS Threads, NoItem, Initial
VARIABLES queue, hand
vars == <<queue, hand>>

Init == queue = Initial /\ hand = [t \in Threads |-> NoItem]

Put(t) ==
    /\ hand[t] # NoItem
    /\ queue' = Append(queue, hand[t])
    /\ hand' = [hand EXCEPT ![t] = NoItem]

Get(t) ==
    /\ hand[t] = NoItem
    /\ queue # << >>
    /\ hand' = [hand EXCEPT ![t] = Head(queue)]
    /\ queue' = Tail(queue)

Next == \E t \in Threads : Put(t) \/ Get(t)
Spec == Init /\ [][Next]_vars
=============================================================================
