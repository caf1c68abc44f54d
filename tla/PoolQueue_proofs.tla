--------------------------- MODULE PoolQueue_proofs ---------------------------
(***************************************************************************)
(* Theorems about the linked list of steque.c under the proxy's mutex: it  *)
(* is a first-in first-out pool of ids, consistent whenever no thread is   *)
(* inside an operation, and no operation meets a null pointer or the empty *)
(* list.  They hold for every number of threads, ids and addresses.        *)
(***************************************************************************)
EXTENDS PoolQueue, FiniteSetTheorems, WellFoundedInduction, TLAPS

\* The labels at which a thread has mux.
Inside == LibraryLabels \cup {"testEmpty", "popped", "pushed"}
Outside == {"want", "hold"}

\* The labels from the write of front in pop to the write that links in enqueue.
HandLabels == {"testLast", "clearBack", "free", "loadDown", "storeDown", "popped",
               "hold", "malloc", "testBack", "setFront", "link"}

\* The nodes of a list and its last one.
Members(s) == {s[i] : i \in 1 .. Len(s)}
End(s)     == IF s = << >> THEN Null ELSE s[Len(s)]

PoolTypes ==
    /\ front \in Nodes \cup {Null} /\ back \in Nodes \cup {Null} /\ N \in Int
    /\ item \in [Nodes -> Items \cup {NoItem}]
    /\ next \in [Nodes -> Nodes \cup {Null}]
    /\ live \subseteq Nodes
    /\ pc \in [Threads -> Inside \cup Outside]
    /\ val \in [Threads -> Items \cup {NoItem}]
    /\ node \in [Threads -> Nodes \cup {Null}]
    /\ seen \in [Threads -> Nodes \cup {Null}]
    /\ old \in [Threads -> Int]
    /\ mux \in Threads \cup {Nobody}
    /\ stopped = "no"

\* Whoever is inside has mux; who has an item in hand has one of the ids.
LockInv ==
    \A t \in Threads : /\ pc[t] \in Inside <=> mux = t
                       /\ pc[t] \in HandLabels => val[t] \in Items

\* s are the nodes that a reader finds who follows next from front.
Linked(s) ==
    /\ front = IF s = << >> THEN Null ELSE s[1]
    /\ \A i \in 1 .. (Len(s) - 1) : next[s[i]] = s[i + 1]
    /\ s # << >> => next[s[Len(s)]] = Null
    /\ \A i, j \in 1 .. Len(s) : s[i] = s[j] => i = j
    /\ \A i \in 1 .. Len(s) : item[s[i]] \in Items

\* The queue as it is while nobody works on it.
Settled(s) == back = End(s) /\ N = Len(s) /\ live = Members(s)

\* How far t is with the list s.
Progress(t, s) ==
    /\ pc[t] \in {"testEmpty", "malloc", "pop", "popped", "pushed", "readNext", "unlink"} =>
          Settled(s)
    /\ pc[t] \in {"pop", "readNext", "unlink"} => s # << >>
    /\ pc[t] \in {"readNext", "unlink"} => node[t] = front /\ val[t] = item[front]
    /\ pc[t] = "unlink" => seen[t] = next[front]
    /\ pc[t] \in {"testBack", "setFront", "link"} =>
          /\ back = End(s) /\ N = Len(s)
          /\ node[t] \in Nodes \ Members(s) /\ live = Members(s) \cup {node[t]}
          /\ next[node[t]] = Null /\ item[node[t]] = val[t]
    /\ pc[t] = "setFront" => s = << >>
    /\ pc[t] = "link" => s # << >> /\ seen[t] = back
    /\ pc[t] = "setBack" => s # << >> /\ node[t] = End(s)
    /\ pc[t] \in {"loadUp", "storeUp"} => back = End(s)
    /\ pc[t] \in {"setBack", "loadUp", "storeUp"} => N = Len(s) - 1 /\ live = Members(s)
    /\ pc[t] \in {"testLast", "clearBack", "free"} =>
          node[t] \in Nodes \ Members(s) /\ live = Members(s) \cup {node[t]}
    /\ pc[t] = "testLast" /\ s # << >> => back = End(s)
    /\ pc[t] = "clearBack" => s = << >>
    /\ pc[t] \in {"free", "loadDown", "storeDown"} => back = End(s)
    /\ pc[t] \in {"loadDown", "storeDown"} => live = Members(s)
    /\ pc[t] \in {"testLast", "clearBack", "free", "loadDown", "storeDown"} => N = Len(s) + 1
    /\ pc[t] \in {"storeUp", "storeDown"} => old[t] = N

ListInv(s) ==
    /\ Linked(s)
    /\ mux = Nobody => Settled(s)
    /\ \A t \in Threads : mux = t => Progress(t, s)

PoolInv(s) == PoolTypes /\ LockInv /\ ListInv(s)

\* The ids in the list, and what a step does to them and to the hands: nothing,
\* a Put or a Get of Fifo.
ItemsOf(s) == [k \in 1 .. Len(s) |-> item[s[k]]]
HandsStay  == \A u \in Threads : InHand(u)' = InHand(u)
FifoStep(s, r) ==
    \/ ItemsOf(r)' = ItemsOf(s) /\ HandsStay
    \/ \E t \in Threads :
          /\ InHand(t) # NoItem /\ ItemsOf(r)' = Append(ItemsOf(s), InHand(t))
          /\ \A u \in Threads : InHand(u)' = IF u = t THEN NoItem ELSE InHand(u)
    \/ \E t \in Threads :
          /\ InHand(t) = NoItem /\ s # << >> /\ ItemsOf(r)' = Tail(ItemsOf(s))
          /\ \A u \in Threads : InHand(u)' = IF u = t THEN Head(ItemsOf(s)) ELSE InHand(u)
-----------------------------------------------------------------------------
(* Induction.                                                               *)

\* Every non-empty set of natural numbers has a least element.
LEMMA LeastElement ==
    ASSUME NEW T \in SUBSET Nat, T # {}
    PROVE  \E n \in T : \A m \in T : n <= m
<1> DEFINE R == {ss \in Nat \X Nat : ss[1] < ss[2]}
<1>1. IsWellFoundedOn(R, Nat)
  <2> SUFFICES ASSUME NEW f \in [Nat -> Nat], \A n \in Nat : <<f[n + 1], f[n]>> \in R PROVE FALSE
    BY DEF IsWellFoundedOn
  <2> QED BY NatLessThanWellFounded DEF OpToRel, IsWellFoundedOn
<1>2. PICK n \in T : \A m \in T : ~(<<m, n>> \in R)
  <2> HIDE DEF R
  <2> QED BY <1>1, WFMin
<1>3. \A m \in T : n <= m
  <2> SUFFICES ASSUME NEW m \in T PROVE n <= m
    OBVIOUS
  <2>1. m \in Nat /\ n \in Nat /\ ~(<<m, n>> \in R)
    BY <1>2
  <2> QED BY <2>1
<1> QED BY <1>3

\* A set that has 0 and with each number the next one has all of them.
LEMMA Induction ==
    ASSUME NEW S \in SUBSET Nat, 0 \in S, \A n \in S : n + 1 \in S
    PROVE  S = Nat
<1> SUFFICES ASSUME Nat \ S # {} PROVE FALSE
  OBVIOUS
<1>1. PICK n \in Nat \ S : \A m \in Nat \ S : n <= m
  BY LeastElement
<1>2. n - 1 \in S
  BY <1>1
<1> QED BY <1>1, <1>2
-----------------------------------------------------------------------------
(* What the readers of the list see.                                        *)

\* The numbers from a to b.
LEMMA Interval ==
    ASSUME NEW a \in Int, NEW b \in Int, a <= b + 1
    PROVE  IsFiniteSet(a .. b) /\ Cardinality(a .. b) = b - a + 1
<1>1. IsFiniteSet(a .. b) /\ Cardinality(a .. b) = IF a > b THEN 0 ELSE b - a + 1
  BY FS_Interval
<1> QED BY <1>1

\* A list has no more nodes than there are addresses.
LEMMA ListFits ==
    ASSUME NEW s \in Seq(Nodes), Linked(s)
    PROVE  Len(s) \in Nat /\ Len(s) <= MaxNodes
<1> DEFINE n == Len(s)
<1>1. n \in Nat /\ MaxNodes \in Nat /\ s \in [1 .. n -> Nodes]
  BY StequeAssumption
<1>2. /\ IsFiniteSet(1 .. n) /\ Cardinality(1 .. n) = n
      /\ IsFiniteSet(Nodes) /\ Cardinality(Nodes) = MaxNodes
  BY <1>1, Interval DEF Nodes
<1> SUFFICES ASSUME MaxNodes < n PROVE FALSE
  BY <1>1
<1>3. PICK i, j \in 1 .. n : i # j /\ s[i] = s[j]
  BY <1>1, <1>2, FS_PigeonHole
<1> QED BY <1>3 DEF Linked

\* Path is a function with the equations of its definition: the list's own
\* nodes give one.
LEMMA PathEquations ==
    ASSUME NEW s \in Seq(Nodes), Linked(s)
    PROVE  Path = [k \in 0 .. MaxNodes |->
                      IF k = 0 THEN front
                      ELSE IF Path[k - 1] = Null THEN Null ELSE next[Path[k - 1]]]
<1> DEFINE Equations(f) ==
               f = [k \in 0 .. MaxNodes |->
                       IF k = 0 THEN front
                       ELSE IF f[k - 1] = Null THEN Null ELSE next[f[k - 1]]]
           g == [k \in 0 .. MaxNodes |-> IF k < Len(s) THEN s[k + 1] ELSE Null]
<1>1. Equations(g)
  <2> SUFFICES ASSUME NEW k \in 0 .. MaxNodes
               PROVE  g[k] = IF k = 0 THEN front
                             ELSE IF g[k - 1] = Null THEN Null ELSE next[g[k - 1]]
    OBVIOUS
  <2>1. Len(s) \in Nat /\ \A i \in 1 .. Len(s) : s[i] \in Nodes
    OBVIOUS
  <2>2. CASE k = 0
    BY <2>1, <2>2, StequeAssumption DEF Linked
  <2>3. CASE k # 0
    <3>1. k - 1 \in 0 .. MaxNodes
      BY <2>3, StequeAssumption
    <3>2. CASE k - 1 < Len(s)
      <4>1. g[k - 1] = s[k] /\ s[k] # Null
        BY <2>1, <2>3, <3>1, <3>2 DEF Nodes, Null
      <4>2. next[s[k]] = IF k < Len(s) THEN s[k + 1] ELSE Null
        BY <2>1, <2>3, <3>2, StequeAssumption DEF Linked
      <4> QED BY <2>3, <4>1, <4>2
    <3>3. CASE ~(k - 1 < Len(s))
      BY <2>1, <2>3, <3>1, <3>3, StequeAssumption
    <3> QED BY <3>2, <3>3
  <2> QED BY <2>2, <2>3
<1>2. Path = CHOOSE f : Equations(f)
  BY DEF Path
<1> HIDE DEF g
<1>3. Equations(Path)
  <2> HIDE DEF Equations
  <2> QED BY <1>1, <1>2
<1> QED BY <1>3

\* Those equations have one solution: the nodes of the list, one after the other.
LEMMA PathFollows ==
    ASSUME NEW s \in Seq(Nodes), Linked(s), NEW k \in 0 .. MaxNodes
    PROVE  Path[k] = IF k < Len(s) THEN s[k + 1] ELSE Null
<1> DEFINE S == {j \in Nat : j <= MaxNodes => Path[j] = IF j < Len(s) THEN s[j + 1] ELSE Null}
<1>1. Len(s) \in Nat /\ (\A i \in 1 .. Len(s) : s[i] \in Nodes) /\ MaxNodes \in Nat
  BY StequeAssumption
<1>2. \A j \in 0 .. MaxNodes :
         Path[j] = IF j = 0 THEN front
                   ELSE IF Path[j - 1] = Null THEN Null ELSE next[Path[j - 1]]
  BY PathEquations
<1>3. 0 \in S
  BY <1>1, <1>2 DEF Linked
<1>4. ASSUME NEW j \in S PROVE j + 1 \in S
  <2> SUFFICES ASSUME j + 1 <= MaxNodes
               PROVE  Path[j + 1] = IF j + 1 < Len(s) THEN s[(j + 1) + 1] ELSE Null
    OBVIOUS
  <2>1. /\ j \in Nat /\ j \in 0 .. MaxNodes /\ j + 1 \in 0 .. MaxNodes /\ (j + 1) - 1 = j
        /\ Path[j] = IF j < Len(s) THEN s[j + 1] ELSE Null
    BY <1>1, <1>4
  <2>2. Path[j + 1] = IF Path[j] = Null THEN Null ELSE next[Path[j]]
    <3>1. Path[j + 1] = IF Path[(j + 1) - 1] = Null THEN Null ELSE next[Path[(j + 1) - 1]]
      BY <1>2, <2>1
    <3> QED BY <2>1, <3>1
  <2>3. CASE j < Len(s)
    <3>1. Path[j] = s[j + 1] /\ s[j + 1] # Null
      BY <1>1, <2>1, <2>3 DEF Nodes, Null
    <3>2. next[s[j + 1]] = IF j + 1 < Len(s) THEN s[(j + 1) + 1] ELSE Null
      BY <1>1, <2>1, <2>3 DEF Linked
    <3> QED BY <2>2, <3>1, <3>2
  <2>4. CASE ~(j < Len(s))
    BY <1>1, <2>1, <2>2, <2>4
  <2> QED BY <2>3, <2>4
<1> HIDE DEF S
<1>5. S = Nat
  <2>1. S \in SUBSET Nat
    BY DEF S
  <2> QED BY <1>3, <1>4, <2>1, Induction
<1> QED BY <1>1, <1>5 DEF S

\* Number of nodes, contents and members as the readers see them.
LEMMA ListRead ==
    ASSUME NEW s \in Seq(Nodes), Linked(s)
    PROVE  /\ ListLength = Len(s)
           /\ Contents = ItemsOf(s)
           /\ Members(s) = {Path[k] : k \in 0 .. (Len(s) - 1)}
           /\ Len(s) # 0 => Path[Len(s) - 1] = End(s)
<1>1. Len(s) \in Nat /\ Len(s) <= MaxNodes /\ MaxNodes \in Nat
  BY ListFits, StequeAssumption
<1>2. \A i \in 1 .. Len(s) : s[i] \in Nodes /\ s[i] # Null
  BY StequeAssumption DEF Nodes, Null
<1>3. {k \in 0 .. MaxNodes : Path[k] # Null} = 0 .. (Len(s) - 1)
  BY <1>1, <1>2, PathFollows
<1>4. ListLength = Len(s)
  <2>1. Cardinality(0 .. (Len(s) - 1)) = Len(s)
    <3>1. 0 \in Int /\ Len(s) - 1 \in Int /\ 0 <= (Len(s) - 1) + 1
      BY <1>1
    <3>2. Cardinality(0 .. (Len(s) - 1)) = (Len(s) - 1) - 0 + 1
      BY <3>1, Interval
    <3> QED BY <1>1, <3>2
  <2> QED BY <1>3, <2>1 DEF ListLength
<1>5. \A i \in 1 .. Len(s) : Path[i - 1] = s[i]
  BY <1>1, PathFollows
<1>6. Contents = ItemsOf(s)
  BY <1>4, <1>5 DEF Contents, ItemsOf
<1>7. Members(s) = {Path[k] : k \in 0 .. (Len(s) - 1)}
  BY <1>1, <1>5 DEF Members
<1>8. Len(s) # 0 => Path[Len(s) - 1] = End(s)
  BY <1>1, <1>5 DEF End
<1> QED BY <1>4, <1>6, <1>7, <1>8
-----------------------------------------------------------------------------
(* The frame of a step.                                                     *)

\* After a step there is a list again, and the step was one of a Fifo.
Continues(s) == \E r \in Seq(Nodes) : PoolInv(r)' /\ FifoStep(s, r)

\* A thread inside has mux, and all others are outside.
LEMMA InsideAlone ==
    ASSUME NEW s \in Seq(Nodes), PoolInv(s), NEW t \in Threads, pc[t] \in Inside
    PROVE  /\ mux = t /\ mux # Nobody /\ Progress(t, s)
           /\ \A u \in Threads \ {t} : pc[u] \in Outside
BY PoolAssumption DEF PoolInv, LockInv, ListInv, PoolTypes

\* The nodes of the list are left alone.
LEMMA SameList ==
    ASSUME NEW s \in Seq(Nodes), PoolInv(s), PoolTypes', LockInv', HandsStay, front' = front,
           \A i \in 1 .. Len(s) : next'[s[i]] = next[s[i]] /\ item'[s[i]] = item[s[i]],
           mux' = Nobody => Settled(s)',
           \A u \in Threads : mux' = u => Progress(u, s)'
    PROVE  Continues(s)
<1>1. Linked(s)' /\ ItemsOf(s)' = ItemsOf(s)
  <2>1. Len(s) \in Nat
    OBVIOUS
  <2>2. Linked(s)
    BY DEF PoolInv, ListInv
  <2> QED BY <2>1, <2>2 DEF Linked, ItemsOf
<1>2. PoolInv(s)'
  BY <1>1 DEF PoolInv, ListInv
<1> QED BY <1>1, <1>2 DEF Continues, FifoStep

\* t goes on inside and leaves the nodes alone.
LEMMA InsideStep ==
    ASSUME NEW s \in Seq(Nodes), PoolInv(s), NEW t \in Threads,
           pc[t] \in Inside, pc'[t] \in Inside, UNCHANGED <<mux, front>>, PoolTypes',
           \A i \in 1 .. Len(s) : next'[s[i]] = next[s[i]] /\ item'[s[i]] = item[s[i]],
           \A u \in Threads \ {t} : pc'[u] = pc[u] /\ val'[u] = val[u],
           InHand(t)' = InHand(t), pc'[t] \in HandLabels => val'[t] \in Items,
           Progress(t, s)'
    PROVE  Continues(s)
<1>1. mux = t /\ mux' = t /\ mux' # Nobody
  BY InsideAlone
<1>2. LockInv'
  BY <1>1 DEF PoolInv, LockInv
<1>3. HandsStay
  BY DEF HandsStay, InHand
<1> QED BY <1>1, <1>2, <1>3, SameList
-----------------------------------------------------------------------------
(* Taking and giving up mux.                                                *)

\* Outside its calls a thread changes pc and mux only.
LEMMA LockStep ==
    ASSUME NEW s \in Seq(Nodes), PoolInv(s), NEW t \in Threads,
           \/ LockForPop(t) \/ TestEmpty(t) \/ UnlockAfterPop(t)
           \/ LockForPush(t) \/ UnlockAfterPush(t)
    PROVE  Continues(s)
<1>1. /\ UNCHANGED <<fields, memory, locals, stopped>>
      /\ \A u \in Threads \ {t} : pc'[u] = pc[u]
      /\ \/ pc[t] = "want" /\ pc'[t] = "testEmpty" /\ mux = Nobody /\ mux' = t
         \/ pc[t] = "hold" /\ pc'[t] = "malloc" /\ mux = Nobody /\ mux' = t
         \/ pc[t] = "testEmpty" /\ pc'[t] = "pop" /\ mux' = mux /\ N # 0
         \/ pc[t] = "testEmpty" /\ pc'[t] = "want" /\ mux' = Nobody
         \/ pc[t] = "popped" /\ pc'[t] = "hold" /\ mux' = Nobody
         \/ pc[t] = "pushed" /\ pc'[t] = "want" /\ mux' = Nobody
  BY DEF LockForPop, TestEmpty, UnlockAfterPop, LockForPush, UnlockAfterPush, Step, PoolInv,
     PoolTypes
<1>2. PoolTypes'
  <2>1. pc' \in [Threads -> Inside \cup Outside]
    BY <1>1 DEF LockForPop, TestEmpty, UnlockAfterPop, LockForPush, UnlockAfterPush, Step,
       PoolInv, PoolTypes, Inside, Outside, LibraryLabels
  <2>2. mux' \in Threads \cup {Nobody}
    BY <1>1 DEF PoolInv, PoolTypes
  <2> QED BY <1>1, <2>1, <2>2 DEF PoolInv, PoolTypes, fields, memory, locals
<1>3. Settled(s) /\ (pc'[t] = "pop" => s # << >>)
  <2>1. CASE mux = Nobody
    <3>1. pc[t] = "testEmpty" => mux # Nobody
      BY InsideAlone DEF Inside
    <3> QED BY <1>1, <2>1, <3>1 DEF PoolInv, ListInv
  <2>2. CASE mux # Nobody
    <3>1. pc[t] \in {"testEmpty", "popped", "pushed"} /\ pc[t] \in Inside
      BY <1>1, <2>2 DEF Inside
    <3>2. Progress(t, s)
      BY <3>1, InsideAlone
    <3>3. Settled(s)
      BY <3>1, <3>2 DEF Progress
    <3>4. pc'[t] = "pop" => s # << >>
      BY <1>1, <3>3 DEF Settled
    <3> QED BY <3>3, <3>4
  <2> QED BY <2>1, <2>2
<1>4. Settled(s)'
  BY <1>1, <1>3 DEF Settled, fields, memory
<1>5. LockInv'
  <2>1. \A u \in Threads \ {t} : pc'[u] \in Inside <=> mux' = u
    <3>1. mux = Nobody \/ mux = t
      <4>1. mux # Nobody => pc[t] \in Inside
        BY <1>1 DEF Inside
      <4> QED BY <4>1, InsideAlone
    <3>2. \A u \in Threads \ {t} : pc[u] \notin Inside
      BY <3>1, PoolAssumption DEF PoolInv, LockInv
    <3> QED BY <1>1, <3>1, <3>2, PoolAssumption
  <2>2. pc'[t] \in Inside <=> mux' = t
    <3>1. pc[t] = "testEmpty" => mux = t
      BY InsideAlone DEF Inside
    <3> QED BY <1>1, <3>1, PoolAssumption DEF Inside, LibraryLabels
  <2>3. \A u \in Threads : pc'[u] \in HandLabels => val'[u] \in Items
    BY <1>1 DEF PoolInv, LockInv, HandLabels, locals
  <2> QED BY <2>1, <2>2, <2>3 DEF LockInv
<1>6. HandsStay
  BY <1>1 DEF HandsStay, InHand, locals
<1>7. \A u \in Threads : mux' = u => Progress(u, s)'
  <2> SUFFICES ASSUME NEW u \in Threads, mux' = u PROVE Progress(u, s)'
    OBVIOUS
  <2>1. u = t
    <3>1. pc[t] = "testEmpty" => mux = t
      BY InsideAlone DEF Inside
    <3> QED BY <1>1, <3>1, PoolAssumption
  <2>2. pc'[t] \in {"testEmpty", "malloc", "pop"}
    BY <1>1, <2>1, PoolAssumption
  <2> QED BY <1>3, <1>4, <2>1, <2>2 DEF Progress
<1> QED BY <1>1, <1>2, <1>4, <1>5, <1>6, <1>7, SameList DEF fields, memory
-----------------------------------------------------------------------------
(* Steps of an operation that leave the list as it is.                      *)

\* A new node is none of the list's.
LEMMA PoolMalloc ==
    ASSUME NEW s \in Seq(Nodes), PoolInv(s), NEW t \in Threads, Malloc(t), UNCHANGED mux
    PROVE  Continues(s)
<1>1. pc[t] = "malloc" /\ pc'[t] = "testBack" /\ pc[t] \in Inside /\ pc'[t] \in Inside
  BY DEF Malloc, Step, PoolInv, PoolTypes, Inside, LibraryLabels
<1>2. Settled(s) /\ Linked(s) /\ val[t] \in Items
  BY <1>1, InsideAlone DEF Progress, PoolInv, ListInv, LockInv, HandLabels
<1>3. PICK a \in Nodes \ live : /\ live' = live \cup {a}
                                /\ item' = [item EXCEPT ![a] = val[t]]
                                /\ next' = [next EXCEPT ![a] = Null]
                                /\ node' = [node EXCEPT ![t] = a]
  BY DEF Malloc
<1>4. /\ UNCHANGED <<fields, val, seen, old, stopped>>
      /\ pc' = [pc EXCEPT ![t] = "testBack"]
  BY <1>1 DEF Malloc, Step
<1>5. PoolTypes'
  BY <1>1, <1>3, <1>4 DEF PoolInv, PoolTypes, fields
<1>6. a \notin Members(s) /\ \A i \in 1 .. Len(s) : s[i] # a /\ s[i] \in Nodes
  BY <1>2, <1>3 DEF Settled, Members
<1>7. /\ node'[t] = a /\ next'[a] = Null /\ item'[a] = val[t]
      /\ \A i \in 1 .. Len(s) : next'[s[i]] = next[s[i]] /\ item'[s[i]] = item[s[i]]
  BY <1>3, <1>6 DEF PoolInv, PoolTypes
<1>8. Progress(t, s)'
  BY <1>1, <1>2, <1>3, <1>4, <1>6, <1>7 DEF Progress, Settled, fields
<1>9. InHand(t)' = InHand(t)
  BY <1>1, <1>4 DEF InHand
<1> QED BY <1>1, <1>2, <1>4, <1>5, <1>7, <1>8, <1>9, InsideStep DEF PoolInv, PoolTypes, fields

LEMMA PoolTestBack ==
    ASSUME NEW s \in Seq(Nodes), PoolInv(s), NEW t \in Threads, TestBack(t), UNCHANGED mux
    PROVE  Continues(s)
<1>1. /\ pc[t] = "testBack" /\ pc[t] \in Inside
      /\ pc' = [pc EXCEPT ![t] = IF back = Null THEN "setFront" ELSE "link"]
      /\ seen' = [seen EXCEPT ![t] = back]
      /\ UNCHANGED <<front, back, N, item, next, live, val, node, old, stopped>>
  BY DEF TestBack, Step, fields, memory, Inside, LibraryLabels
<1>2. Progress(t, s) /\ val[t] \in Items
  BY <1>1, InsideAlone DEF PoolInv, LockInv, HandLabels
<1>3. PoolTypes'
  BY <1>1 DEF PoolInv, PoolTypes, Inside, LibraryLabels
<1>4. back = Null => s = << >>
  <2>1. back = End(s) /\ (s # << >> => s[Len(s)] \in Nodes)
    BY <1>1, <1>2 DEF Progress
  <2> QED BY <2>1, StequeAssumption DEF End, Nodes, Null
<1>5. back # Null => s # << >>
  BY <1>1, <1>2 DEF Progress, End
<1>6. pc'[t] = (IF back = Null THEN "setFront" ELSE "link") /\ seen'[t] = back
  BY <1>1 DEF PoolInv, PoolTypes
<1>7. Progress(t, s)'
  BY <1>1, <1>2, <1>4, <1>5, <1>6 DEF Progress
<1>8. InHand(t)' = InHand(t) /\ pc'[t] \in Inside
  BY <1>1, <1>6 DEF InHand, Inside, LibraryLabels
<1> QED BY <1>1, <1>2, <1>3, <1>7, <1>8, InsideStep DEF PoolInv, PoolTypes

LEMMA PoolSetBack ==
    ASSUME NEW s \in Seq(Nodes), PoolInv(s), NEW t \in Threads, SetBack(t), UNCHANGED mux
    PROVE  Continues(s)
<1>1. /\ pc[t] = "setBack" /\ pc[t] \in Inside
      /\ pc' = [pc EXCEPT ![t] = "loadUp"]
      /\ back' = node[t]
      /\ UNCHANGED <<front, N, item, next, live, val, node, seen, old, stopped>>
  BY DEF SetBack, Step, memory, locals, Inside, LibraryLabels
<1>2. Progress(t, s)
  BY <1>1, InsideAlone
<1>3. PoolTypes'
  BY <1>1 DEF PoolInv, PoolTypes, Inside, LibraryLabels
<1>4. pc'[t] = "loadUp"
  BY <1>1 DEF PoolInv, PoolTypes
<1>5. Progress(t, s)'
  BY <1>1, <1>2, <1>4 DEF Progress
<1>6. InHand(t)' = InHand(t) /\ pc'[t] \in Inside /\ pc'[t] \notin HandLabels
  BY <1>1, <1>4 DEF InHand, Inside, LibraryLabels, HandLabels
<1> QED BY <1>1, <1>3, <1>5, <1>6, InsideStep DEF PoolInv, PoolTypes

LEMMA PoolLoadCount ==
    ASSUME NEW s \in Seq(Nodes), PoolInv(s), NEW t \in Threads, LoadCount(t), UNCHANGED mux
    PROVE  Continues(s)
<1>1. /\ \/ pc[t] = "loadUp" /\ pc' = [pc EXCEPT ![t] = "storeUp"]
         \/ pc[t] = "loadDown" /\ pc' = [pc EXCEPT ![t] = "storeDown"]
      /\ old' = [old EXCEPT ![t] = N] /\ pc[t] \in Inside
      /\ UNCHANGED <<front, back, N, item, next, live, val, node, seen, stopped>>
  BY DEF LoadCount, Step, fields, memory, Inside, LibraryLabels
<1>2. Progress(t, s) /\ (pc[t] = "loadDown" => val[t] \in Items)
  BY <1>1, InsideAlone DEF PoolInv, LockInv, HandLabels
<1>3. PoolTypes'
  BY <1>1 DEF PoolInv, PoolTypes, Inside, LibraryLabels
<1>4. /\ \/ pc[t] = "loadUp" /\ pc'[t] = "storeUp"
         \/ pc[t] = "loadDown" /\ pc'[t] = "storeDown"
      /\ old'[t] = N
  BY <1>1 DEF PoolInv, PoolTypes
<1>5. Progress(t, s)'
  BY <1>1, <1>2, <1>4 DEF Progress
<1>6. InHand(t)' = InHand(t) /\ pc'[t] \in Inside
  BY <1>1, <1>4 DEF InHand, Inside, LibraryLabels
<1>7. pc'[t] \in HandLabels => val'[t] \in Items
  BY <1>1, <1>2, <1>4 DEF HandLabels
<1> QED BY <1>1, <1>3, <1>5, <1>6, <1>7, InsideStep DEF PoolInv, PoolTypes

\* N is written back before anybody else can read it.
LEMMA PoolCountUp ==
    ASSUME NEW s \in Seq(Nodes), PoolInv(s), NEW t \in Threads, CountUp(t), UNCHANGED mux
    PROVE  Continues(s)
<1>1. /\ pc[t] = "storeUp" /\ pc[t] \in Inside
      /\ pc' = [pc EXCEPT ![t] = "pushed"]
      /\ N' = old[t] + 1 /\ val' = [val EXCEPT ![t] = NoItem]
      /\ node' = [node EXCEPT ![t] = Null]
      /\ seen' = [seen EXCEPT ![t] = Null]
      /\ old' = [old EXCEPT ![t] = 0]
      /\ UNCHANGED <<front, back, item, next, live, stopped>>
  BY DEF CountUp, Step, ForgetLocals, memory, Inside, LibraryLabels
<1>2. Progress(t, s)
  BY <1>1, InsideAlone
<1>3. PoolTypes'
  BY <1>1 DEF PoolInv, PoolTypes, Inside, LibraryLabels
<1>4. pc'[t] = "pushed" /\ Len(s) \in Nat
  BY <1>1 DEF PoolInv, PoolTypes
<1>5. Settled(s)'
  BY <1>1, <1>2, <1>4 DEF Progress, Settled
<1>6. Progress(t, s)'
  BY <1>4, <1>5 DEF Progress
<1>7. InHand(t)' = InHand(t) /\ pc'[t] \in Inside /\ pc'[t] \notin HandLabels
  BY <1>1, <1>4 DEF InHand, Inside, LibraryLabels, HandLabels
<1> QED BY <1>1, <1>3, <1>6, <1>7, InsideStep DEF PoolInv, PoolTypes

\* pop never finds the list empty: the test of TestEmpty still holds.
LEMMA PoolTestFront ==
    ASSUME NEW s \in Seq(Nodes), PoolInv(s), NEW t \in Threads, TestFront(t), UNCHANGED mux
    PROVE  Continues(s)
<1>1. pc[t] = "pop" /\ pc[t] \in Inside /\ UNCHANGED <<fields, memory, seen, old>>
  BY DEF TestFront, Step, Inside, LibraryLabels
<1>2. Progress(t, s) /\ Linked(s)
  BY <1>1, InsideAlone DEF PoolInv, ListInv
<1>3. s # << >> /\ front = s[1] /\ front \in Nodes /\ front # Null /\ item[front] \in Items
  <2>1. s # << >> /\ 1 \in 1 .. Len(s) /\ s[1] \in Nodes
    BY <1>1, <1>2 DEF Progress
  <2> QED BY <1>2, <2>1, StequeAssumption DEF Linked, Nodes, Null
<1>4. /\ pc' = [pc EXCEPT ![t] = "readNext"] /\ node' = [node EXCEPT ![t] = front]
      /\ val' = [val EXCEPT ![t] = item[front]] /\ UNCHANGED stopped
  BY <1>3 DEF TestFront, Step
<1>5. PoolTypes'
  BY <1>1, <1>3, <1>4 DEF PoolInv, PoolTypes, fields, memory, Inside, LibraryLabels
<1>6. pc'[t] = "readNext" /\ node'[t] = front /\ val'[t] = item[front]
  BY <1>4 DEF PoolInv, PoolTypes
<1>7. Progress(t, s)'
  BY <1>1, <1>2, <1>3, <1>6 DEF Progress, Settled, fields, memory
<1>8. InHand(t)' = InHand(t) /\ pc'[t] \in Inside /\ pc'[t] \notin HandLabels
  BY <1>1, <1>6 DEF InHand, Inside, LibraryLabels, HandLabels
<1> QED BY <1>1, <1>4, <1>5, <1>7, <1>8, InsideStep DEF PoolInv, PoolTypes, fields, memory

\* node->next is the node that pop is about to make the first.
LEMMA PoolReadNext ==
    ASSUME NEW s \in Seq(Nodes), PoolInv(s), NEW t \in Threads, ReadNext(t), UNCHANGED mux
    PROVE  Continues(s)
<1>1. /\ pc[t] = "readNext" /\ pc[t] \in Inside
      /\ pc' = [pc EXCEPT ![t] = "unlink"] /\ seen' = [seen EXCEPT ![t] = next[front]]
      /\ UNCHANGED <<fields, memory, val, node, old, stopped>>
  BY DEF ReadNext, Step, Inside, LibraryLabels
<1>2. Progress(t, s) /\ Linked(s)
  BY <1>1, InsideAlone DEF PoolInv, ListInv
<1>3. front \in Nodes
  <2>1. s # << >> /\ 1 \in 1 .. Len(s) /\ s[1] \in Nodes
    BY <1>1, <1>2 DEF Progress
  <2> QED BY <1>2, <2>1 DEF Linked
<1>4. PoolTypes'
  BY <1>1, <1>3 DEF PoolInv, PoolTypes, fields, memory, Inside, LibraryLabels
<1>5. pc'[t] = "unlink" /\ seen'[t] = next[front]
  BY <1>1 DEF PoolInv, PoolTypes
<1>6. Progress(t, s)'
  BY <1>1, <1>2, <1>5 DEF Progress, Settled, fields, memory
<1>7. InHand(t)' = InHand(t) /\ pc'[t] \in Inside /\ pc'[t] \notin HandLabels
  BY <1>1, <1>5 DEF InHand, Inside, LibraryLabels, HandLabels
<1> QED BY <1>1, <1>4, <1>6, <1>7, InsideStep DEF PoolInv, PoolTypes, fields, memory

\* Only the pop of the last node finds front empty.
LEMMA PoolTestLast ==
    ASSUME NEW s \in Seq(Nodes), PoolInv(s), NEW t \in Threads, TestLast(t), UNCHANGED mux
    PROVE  Continues(s)
<1>1. /\ pc[t] = "testLast" /\ pc[t] \in Inside
      /\ pc' = [pc EXCEPT ![t] = IF front = Null THEN "clearBack" ELSE "free"]
      /\ UNCHANGED <<fields, memory, locals, stopped>>
  BY DEF TestLast, Step, Inside, LibraryLabels
<1>2. Progress(t, s) /\ Linked(s) /\ val[t] \in Items
  BY <1>1, InsideAlone DEF PoolInv, ListInv, LockInv, HandLabels
<1>3. front = Null <=> s = << >>
  <2>1. s # << >> => s[1] \in Nodes
    OBVIOUS
  <2> QED BY <1>2, <2>1, StequeAssumption DEF Linked, Nodes, Null
<1>4. PoolTypes'
  BY <1>1 DEF PoolInv, PoolTypes, fields, memory, locals, Inside, LibraryLabels
<1>5. pc'[t] = IF front = Null THEN "clearBack" ELSE "free"
  BY <1>1 DEF PoolInv, PoolTypes
<1>6. Progress(t, s)'
  BY <1>1, <1>2, <1>3, <1>5 DEF Progress, fields, memory, locals
<1>7. InHand(t)' = InHand(t) /\ pc'[t] \in Inside
  BY <1>1, <1>5 DEF InHand, Inside, LibraryLabels, locals
<1> QED BY <1>1, <1>2, <1>4, <1>6, <1>7, InsideStep DEF PoolInv, PoolTypes, fields, memory, locals

LEMMA PoolClearBack ==
    ASSUME NEW s \in Seq(Nodes), PoolInv(s), NEW t \in Threads, ClearBack(t), UNCHANGED mux
    PROVE  Continues(s)
<1>1. /\ pc[t] = "clearBack" /\ pc[t] \in Inside
      /\ pc' = [pc EXCEPT ![t] = "free"] /\ back' = Null
      /\ UNCHANGED <<front, N, memory, locals, stopped>>
  BY DEF ClearBack, Step, Inside, LibraryLabels
<1>2. Progress(t, s) /\ val[t] \in Items
  BY <1>1, InsideAlone DEF PoolInv, LockInv, HandLabels
<1>3. PoolTypes'
  BY <1>1 DEF PoolInv, PoolTypes, memory, locals, Inside, LibraryLabels
<1>4. pc'[t] = "free"
  BY <1>1 DEF PoolInv, PoolTypes
<1>5. Progress(t, s)'
  BY <1>1, <1>2, <1>4 DEF Progress, End, memory, locals
<1>6. InHand(t)' = InHand(t) /\ pc'[t] \in Inside
  BY <1>1, <1>4 DEF InHand, Inside, LibraryLabels, locals
<1> QED BY <1>1, <1>2, <1>3, <1>5, <1>6, InsideStep DEF PoolInv, PoolTypes, memory, locals

\* The node that is freed is no longer in the list.
LEMMA PoolFree ==
    ASSUME NEW s \in Seq(Nodes), PoolInv(s), NEW t \in Threads, Free(t), UNCHANGED mux
    PROVE  Continues(s)
<1>1. /\ pc[t] = "free" /\ pc[t] \in Inside
      /\ pc' = [pc EXCEPT ![t] = "loadDown"] /\ live' = live \ {node[t]}
      /\ UNCHANGED <<fields, item, next, locals, stopped>>
  BY DEF Free, Step, Inside, LibraryLabels
<1>2. Progress(t, s) /\ val[t] \in Items
  BY <1>1, InsideAlone DEF PoolInv, LockInv, HandLabels
<1>3. PoolTypes'
  BY <1>1 DEF PoolInv, PoolTypes, fields, locals, Inside, LibraryLabels
<1>4. pc'[t] = "loadDown"
  BY <1>1 DEF PoolInv, PoolTypes
<1>5. live' = Members(s)
  BY <1>1, <1>2 DEF Progress
<1>6. Progress(t, s)'
  BY <1>1, <1>2, <1>4, <1>5 DEF Progress, fields, locals
<1>7. InHand(t)' = InHand(t) /\ pc'[t] \in Inside
  BY <1>1, <1>4 DEF InHand, Inside, LibraryLabels, locals
<1> QED BY <1>1, <1>2, <1>3, <1>6, <1>7, InsideStep DEF PoolInv, PoolTypes, fields, locals

LEMMA PoolCountDown ==
    ASSUME NEW s \in Seq(Nodes), PoolInv(s), NEW t \in Threads, CountDown(t), UNCHANGED mux
    PROVE  Continues(s)
<1>1. /\ pc[t] = "storeDown" /\ pc[t] \in Inside
      /\ pc' = [pc EXCEPT ![t] = "popped"]
      /\ N' = old[t] - 1
      /\ node' = [node EXCEPT ![t] = Null]
      /\ seen' = [seen EXCEPT ![t] = Null]
      /\ old' = [old EXCEPT ![t] = 0]
      /\ UNCHANGED <<front, back, memory, val, stopped>>
  BY DEF CountDown, Step, ForgetLocals, Inside, LibraryLabels
<1>2. Progress(t, s) /\ val[t] \in Items
  BY <1>1, InsideAlone DEF PoolInv, LockInv, HandLabels
<1>3. PoolTypes'
  BY <1>1 DEF PoolInv, PoolTypes, memory, Inside, LibraryLabels
<1>4. pc'[t] = "popped" /\ Len(s) \in Nat
  BY <1>1 DEF PoolInv, PoolTypes
<1>5. Settled(s)'
  BY <1>1, <1>2, <1>4 DEF Progress, Settled, memory
<1>6. Progress(t, s)'
  BY <1>4, <1>5 DEF Progress
<1>7. InHand(t)' = InHand(t) /\ pc'[t] \in Inside
  BY <1>1, <1>4 DEF InHand, Inside, LibraryLabels
<1> QED BY <1>1, <1>2, <1>3, <1>6, <1>7, InsideStep DEF PoolInv, PoolTypes, memory
-----------------------------------------------------------------------------
(* The two steps that change the list.                                      *)

\* A node at the end of a list.
LEMMA Appended ==
    ASSUME NEW s \in Seq(Nodes), NEW a \in Nodes, NEW r, r = Append(s, a)
    PROVE  /\ r \in Seq(Nodes) /\ r # << >> /\ Len(r) = Len(s) + 1 /\ Len(s) \in Nat
           /\ \A i \in 1 .. Len(s) : r[i] = s[i]
           /\ r[Len(r)] = a
           /\ Members(r) = Members(s) \cup {a}
<1>1. /\ r \in Seq(Nodes) /\ r # << >> /\ Len(r) = Len(s) + 1 /\ Len(s) \in Nat
      /\ \A i \in 1 .. Len(s) : r[i] = s[i]
      /\ r[Len(r)] = a
  OBVIOUS
<1>2. Members(r) = Members(s) \cup {a}
  <2>1. 1 .. Len(r) = (1 .. Len(s)) \cup {Len(r)}
    BY <1>1
  <2> QED BY <1>1, <2>1 DEF Members
<1> QED BY <1>1, <1>2

\* A list without its first node.
LEMMA Shortened ==
    ASSUME NEW s \in Seq(Nodes), s # << >>, NEW r, r = Tail(s)
    PROVE  /\ r \in Seq(Nodes) /\ Len(s) = Len(r) + 1 /\ Len(r) \in Nat
           /\ \A i \in 1 .. Len(r) : r[i] = s[i + 1]
           /\ r # << >> => End(r) = End(s)
           /\ Members(s) = Members(r) \cup {s[1]}
<1>1. /\ r \in Seq(Nodes) /\ Len(s) = Len(r) + 1 /\ Len(r) \in Nat
      /\ \A i \in 1 .. Len(r) : r[i] = s[i + 1]
  OBVIOUS
<1>2. Members(s) = Members(r) \cup {s[1]}
  <2>1. \A i \in 1 .. Len(s) : i = 1 \/ (i - 1 \in 1 .. Len(r) /\ s[i] = r[i - 1])
    BY <1>1
  <2>2. \A i \in 1 .. Len(r) : i + 1 \in 1 .. Len(s)
    BY <1>1
  <2>3. 1 \in 1 .. Len(s)
    BY <1>1
  <2>4. Members(s) \subseteq Members(r) \cup {s[1]}
    <3> SUFFICES ASSUME NEW i \in 1 .. Len(s) PROVE s[i] \in Members(r) \cup {s[1]}
      BY DEF Members
    <3> QED BY <2>1 DEF Members
  <2>5. Members(r) \subseteq Members(s)
    <3> SUFFICES ASSUME NEW i \in 1 .. Len(r) PROVE r[i] \in Members(s)
      BY DEF Members
    <3> QED BY <1>1, <2>2 DEF Members
  <2>6. s[1] \in Members(s)
    BY <2>3 DEF Members
  <2> QED BY <2>4, <2>5, <2>6
<1>3. r # << >> => End(r) = End(s)
  BY <1>1 DEF End
<1> QED BY <1>1, <1>2, <1>3

\* t goes on inside with another list.
LEMMA ListMoves ==
    ASSUME NEW s \in Seq(Nodes), PoolInv(s), NEW r \in Seq(Nodes), NEW t \in Threads,
           pc[t] \in Inside, pc'[t] \in Inside, UNCHANGED mux, PoolTypes',
           \A u \in Threads \ {t} : pc'[u] = pc[u] /\ val'[u] = val[u],
           pc'[t] \in HandLabels => val'[t] \in Items,
           Linked(r)', Progress(t, r)', FifoStep(s, r)
    PROVE  Continues(s)
<1>1. mux = t /\ mux' = t /\ mux' # Nobody
  BY InsideAlone
<1>2. LockInv'
  BY <1>1 DEF PoolInv, LockInv
<1>3. PoolInv(r)'
  BY <1>1, <1>2 DEF PoolInv, ListInv
<1> QED BY <1>3 DEF Continues

\* Linking a node in is the Put of a Fifo.
LEMMA NodePut ==
    ASSUME NEW s \in Seq(Nodes), PoolInv(s), NEW t \in Threads, NEW r \in Seq(Nodes),
           node[t] \in Nodes, r = Append(s, node[t]), item[node[t]] = val[t], UNCHANGED item,
           pc[t] \in HandLabels, pc'[t] \in {"setBack"},
           \A u \in Threads \ {t} : pc'[u] = pc[u] /\ val'[u] = val[u]
    PROVE  FifoStep(s, r)
<1>1. InHand(t) = val[t] /\ val[t] \in Items /\ InHand(t) # NoItem
  BY StequeAssumption DEF InHand, HandLabels, PoolInv, LockInv
<1>2. \A u \in Threads : InHand(u)' = IF u = t THEN NoItem ELSE InHand(u)
  BY DEF InHand
<1>3. ItemsOf(r)' = Append(ItemsOf(s), InHand(t))
  <2>1. /\ Len(r) = Len(s) + 1 /\ Len(s) \in Nat /\ r[Len(r)] = node[t]
        /\ \A i \in 1 .. Len(s) : r[i] = s[i]
    BY Appended
  <2>2. ItemsOf(r)' = [k \in 1 .. Len(r) |-> item[r[k]]]
    BY DEF ItemsOf
  <2>3. ItemsOf(s) = [k \in 1 .. Len(s) |-> item[s[k]]]
    BY DEF ItemsOf
  <2>4. Append(ItemsOf(s), val[t])
          = [k \in 1 .. (Len(s) + 1) |-> IF k <= Len(s) THEN item[s[k]] ELSE val[t]]
    BY <2>1, <2>3
  <2>5. \A k \in 1 .. (Len(s) + 1) :
           item[r[k]] = IF k <= Len(s) THEN item[s[k]] ELSE val[t]
    BY <2>1
  <2> QED BY <1>1, <2>1, <2>2, <2>4, <2>5
<1> QED BY <1>1, <1>2, <1>3 DEF FifoStep

LEMMA PoolSetFront ==
    ASSUME NEW s \in Seq(Nodes), PoolInv(s), NEW t \in Threads, SetFront(t), UNCHANGED mux
    PROVE  Continues(s)
<1>1. /\ pc[t] = "setFront" /\ pc[t] \in Inside /\ pc[t] \in HandLabels
      /\ pc' = [pc EXCEPT ![t] = "setBack"] /\ front' = node[t]
      /\ UNCHANGED <<back, N, item, next, live, locals, stopped>>
  BY DEF SetFront, Step, memory, Inside, LibraryLabels, HandLabels
<1>2. Progress(t, s) /\ val[t] \in Items /\ Linked(s)
  BY <1>1, InsideAlone DEF PoolInv, ListInv, LockInv
<1>3. s = << >> /\ node[t] \in Nodes /\ item[node[t]] = val[t] /\ next[node[t]] = Null
      /\ N = 0 /\ live = {node[t]}
  BY <1>1, <1>2 DEF Progress, Members
<1>4. PoolTypes'
  BY <1>1, <1>3 DEF PoolInv, PoolTypes, locals, Inside, LibraryLabels
<1>5. pc'[t] = "setBack" /\ pc'[t] \in Inside /\ pc'[t] \notin HandLabels
  BY <1>1 DEF PoolInv, PoolTypes, Inside, LibraryLabels, HandLabels
<1> SUFFICES ASSUME NEW a, a = node[t] PROVE Continues(s)
  OBVIOUS
<1> SUFFICES ASSUME NEW r, r = Append(s, a) PROVE Continues(s)
  OBVIOUS
<1>6. r \in Seq(Nodes) /\ r # << >> /\ Len(r) = 1 /\ r[1] = a /\ End(r) = a /\ Members(r) = {a}
  <2>1. a \in Nodes
    BY <1>3
  <2>2. r # << >> /\ Len(r) = Len(s) + 1 /\ r[Len(r)] = a /\ End(r) = a
    <3>1. r # << >> /\ Len(r) = Len(s) + 1 /\ r[Len(r)] = a
      BY <2>1
    <3> QED BY <3>1 DEF End
  <2>3. r \in Seq(Nodes) /\ Members(r) = Members(s) \cup {a}
    BY <2>1, Appended
  <2> QED BY <1>3, <2>2, <2>3 DEF Members
<1>7. Linked(r)'
  BY <1>1, <1>2, <1>3, <1>6 DEF Linked
<1>8. Progress(t, r)'
  BY <1>1, <1>3, <1>5, <1>6 DEF Progress, locals
<1>9. FifoStep(s, r)
  BY <1>1, <1>3, <1>5, <1>6, NodePut DEF PoolInv, PoolTypes, locals
<1> QED BY <1>1, <1>4, <1>5, <1>6, <1>7, <1>8, <1>9, ListMoves DEF PoolInv, PoolTypes, locals

\* The pointer that the compiler kept is still the last node: mux has been held
\* since it was read.
LEMMA PoolLinkLast ==
    ASSUME NEW s \in Seq(Nodes), PoolInv(s), NEW t \in Threads, LinkLast(t), UNCHANGED mux
    PROVE  Continues(s)
<1>1. /\ pc[t] = "link" /\ pc[t] \in Inside /\ pc[t] \in HandLabels
      /\ pc' = [pc EXCEPT ![t] = "setBack"]
      /\ UNCHANGED <<front, back, N, item, live, locals>>
  BY DEF LinkLast, Step, fields, Inside, LibraryLabels, HandLabels
<1>2. Progress(t, s) /\ val[t] \in Items /\ Linked(s)
  BY <1>1, InsideAlone DEF PoolInv, ListInv, LockInv
<1>3. /\ s # << >> /\ node[t] \in Nodes \ Members(s) /\ item[node[t]] = val[t]
      /\ next[node[t]] = Null /\ N = Len(s) /\ live = Members(s) \cup {node[t]}
      /\ back = End(s) /\ seen[t] = End(s)
  BY <1>1, <1>2 DEF Progress
<1>4. Len(s) \in Nat \ {0} /\ End(s) = s[Len(s)] /\ End(s) \in Nodes /\ End(s) # Null
  <2>1. Len(s) \in Nat \ {0} /\ s[Len(s)] \in Nodes
    BY <1>3
  <2> QED BY <1>3, <2>1, StequeAssumption DEF End, Nodes, Null
<1>5. next' = [next EXCEPT ![s[Len(s)]] = node[t]] /\ UNCHANGED stopped
  BY <1>3, <1>4 DEF LinkLast
<1>6. PoolTypes'
  BY <1>1, <1>3, <1>4, <1>5 DEF PoolInv, PoolTypes, locals, Inside, LibraryLabels
<1>7. pc'[t] = "setBack" /\ pc'[t] \in Inside /\ pc'[t] \notin HandLabels
  BY <1>1 DEF PoolInv, PoolTypes, Inside, LibraryLabels, HandLabels
<1> SUFFICES ASSUME NEW a, a = node[t] PROVE Continues(s)
  OBVIOUS
<1> SUFFICES ASSUME NEW r, r = Append(s, a) PROVE Continues(s)
  OBVIOUS
<1>8. /\ r \in Seq(Nodes) /\ r # << >> /\ Len(r) = Len(s) + 1
      /\ \A i \in 1 .. Len(s) : r[i] = s[i]
      /\ r[Len(r)] = a /\ End(r) = a /\ Members(r) = Members(s) \cup {a}
  <2>1. a \in Nodes
    BY <1>3
  <2>2. /\ r \in Seq(Nodes) /\ r # << >> /\ Len(r) = Len(s) + 1
        /\ \A i \in 1 .. Len(s) : r[i] = s[i]
        /\ r[Len(r)] = a
    BY <2>1
  <2>3. Members(r) = Members(s) \cup {a}
    BY <2>1, Appended
  <2> QED BY <2>2, <2>3 DEF End
<1>9. Linked(r)'
  <2>1. front' = r[1]
    BY <1>1, <1>2, <1>3, <1>4, <1>8 DEF Linked
  <2>2. \A i \in 1 .. Len(s) : s[i] \in Nodes /\ s[i] # a
    BY <1>3 DEF Members
  <2>3. ASSUME NEW i \in 1 .. (Len(r) - 1) PROVE next'[r[i]] = r[i + 1]
    <3>1. i \in 1 .. Len(s)
      BY <1>4, <1>8
    <3>2. CASE i = Len(s)
      BY <1>4, <1>5, <1>8, <3>1, <3>2 DEF PoolInv, PoolTypes
    <3>3. CASE i # Len(s)
      <4>1. i + 1 \in 1 .. Len(s) /\ i \in 1 .. (Len(s) - 1) /\ Len(s) \in 1 .. Len(s)
        BY <1>4, <3>1, <3>3
      <4>2. s[i] # s[Len(s)] /\ next[s[i]] = s[i + 1]
        BY <1>2, <3>3, <4>1 DEF Linked
      <4> QED BY <1>5, <1>8, <2>2, <4>1, <4>2 DEF PoolInv, PoolTypes
    <3> QED BY <3>2, <3>3
  <2>4. next'[r[Len(r)]] = Null
    <3>1. a # s[Len(s)] /\ a \in Nodes
      BY <1>3, <1>4, <2>2
    <3> QED BY <1>3, <1>5, <1>8, <3>1 DEF PoolInv, PoolTypes
  <2>5. \A i \in 1 .. Len(r) : i \in 1 .. Len(s) \/ i = Len(r)
    BY <1>4, <1>8
  <2>6. \A i, j \in 1 .. Len(r) : r[i] = r[j] => i = j
    BY <1>2, <1>8, <2>2, <2>5 DEF Linked
  <2>7. \A i \in 1 .. Len(r) : item'[r[i]] \in Items
    BY <1>1, <1>2, <1>3, <1>8, <2>5 DEF Linked
  <2> QED BY <1>8, <2>1, <2>3, <2>4, <2>6, <2>7 DEF Linked
<1>10. Progress(t, r)'
  BY <1>1, <1>3, <1>4, <1>7, <1>8 DEF Progress, locals
<1>11. FifoStep(s, r)
  BY <1>1, <1>3, <1>7, <1>8, NodePut DEF PoolInv, PoolTypes, locals
<1> QED BY <1>1, <1>6, <1>7, <1>8, <1>9, <1>10, <1>11, ListMoves DEF PoolInv, PoolTypes, locals

\* Unlinking the first node is the Get of a Fifo.
LEMMA PoolUnlink ==
    ASSUME NEW s \in Seq(Nodes), PoolInv(s), NEW t \in Threads, Unlink(t), UNCHANGED mux
    PROVE  Continues(s)
<1>1. /\ pc[t] = "unlink" /\ pc[t] \in Inside
      /\ pc' = [pc EXCEPT ![t] = "testLast"] /\ front' = seen[t]
      /\ UNCHANGED <<back, N, item, next, live, locals, stopped>>
  BY DEF Unlink, Step, memory, Inside, LibraryLabels
<1>2. Progress(t, s) /\ Linked(s)
  BY <1>1, InsideAlone DEF PoolInv, ListInv
<1>3. /\ s # << >> /\ front = s[1] /\ node[t] = s[1] /\ val[t] = item[s[1]]
      /\ seen[t] = next[s[1]] /\ back = End(s) /\ N = Len(s) /\ live = Members(s)
  BY <1>1, <1>2 DEF Progress, Settled, Linked
<1>4. Len(s) \in Nat \ {0} /\ 1 \in 1 .. Len(s) /\ s[1] \in Nodes /\ item[s[1]] \in Items
  BY <1>2, <1>3 DEF Linked
<1>5. PoolTypes'
  BY <1>1 DEF PoolInv, PoolTypes, locals, Inside, LibraryLabels
<1>6. pc'[t] = "testLast" /\ pc'[t] \in Inside /\ pc'[t] \in HandLabels
  BY <1>1 DEF PoolInv, PoolTypes, Inside, LibraryLabels, HandLabels
<1> SUFFICES ASSUME NEW r, r = Tail(s) PROVE Continues(s)
  OBVIOUS
<1>7. /\ r \in Seq(Nodes) /\ Len(s) = Len(r) + 1 /\ Len(r) \in Nat
      /\ \A i \in 1 .. Len(r) : r[i] = s[i + 1]
      /\ r # << >> => End(r) = End(s)
      /\ Members(s) = Members(r) \cup {s[1]}
  BY <1>3, Shortened
<1>8. \A i \in 1 .. Len(r) : i + 1 \in 1 .. Len(s) /\ i + 1 # 1
  BY <1>7
<1>9. s[1] \notin Members(r)
  BY <1>2, <1>4, <1>7, <1>8 DEF Linked, Members
<1>10. Linked(r)'
  <2>1. front' = IF r = << >> THEN Null ELSE r[1]
    <3>1. CASE r = << >>
      BY <1>1, <1>2, <1>3, <1>7, <3>1 DEF Linked
    <3>2. CASE r # << >>
      <4>1. 1 \in 1 .. (Len(s) - 1) /\ 1 \in 1 .. Len(r)
        BY <1>7, <3>2
      <4> QED BY <1>1, <1>2, <1>3, <1>7, <3>2, <4>1 DEF Linked
    <3> QED BY <3>1, <3>2
  <2>2. \A i \in 1 .. (Len(r) - 1) : next'[r[i]] = r[i + 1]
    <3> SUFFICES ASSUME NEW i \in 1 .. (Len(r) - 1) PROVE next'[r[i]] = r[i + 1]
      OBVIOUS
    <3>1. i \in 1 .. Len(r) /\ i + 1 \in 1 .. Len(r) /\ i + 1 \in 1 .. (Len(s) - 1)
      BY <1>7
    <3> QED BY <1>1, <1>2, <1>7, <3>1 DEF Linked
  <2>3. r # << >> => next'[r[Len(r)]] = Null
    <3> SUFFICES ASSUME r # << >> PROVE next'[r[Len(r)]] = Null
      OBVIOUS
    <3>1. Len(r) \in 1 .. Len(r) /\ r[Len(r)] = s[Len(s)]
      BY <1>7
    <3> QED BY <1>1, <1>2, <1>3, <3>1 DEF Linked
  <2>4. \A i, j \in 1 .. Len(r) : r[i] = r[j] => i = j
    <3> SUFFICES ASSUME NEW i \in 1 .. Len(r), NEW j \in 1 .. Len(r), r[i] = r[j] PROVE i = j
      OBVIOUS
    <3>1. i + 1 = j + 1
      BY <1>2, <1>7, <1>8 DEF Linked
    <3> QED BY <3>1
  <2>5. \A i \in 1 .. Len(r) : item'[r[i]] \in Items
    BY <1>1, <1>2, <1>7, <1>8 DEF Linked
  <2> QED BY <2>1, <2>2, <2>3, <2>4, <2>5 DEF Linked
<1>11. Progress(t, r)'
  BY <1>1, <1>3, <1>4, <1>6, <1>7, <1>9 DEF Progress, locals
<1>12. FifoStep(s, r)
  <2>1. InHand(t) = NoItem /\ \A u \in Threads : InHand(u)' = IF u = t THEN val[t] ELSE InHand(u)
    BY <1>1, <1>6 DEF InHand, locals, PoolInv, PoolTypes
  <2>2. /\ ItemsOf(r)' = [k \in 1 .. Len(r) |-> item[r[k]]]
        /\ ItemsOf(s) = [k \in 1 .. Len(s) |-> item[s[k]]]
    BY <1>1 DEF ItemsOf
  <2>3. Head(ItemsOf(s)) = val[t]
    BY <1>3, <1>4, <2>2
  <2>4. Tail(ItemsOf(s)) = [k \in 1 .. Len(r) |-> item[s[k + 1]]]
    BY <1>4, <1>7, <2>2
  <2>5. ItemsOf(r)' = Tail(ItemsOf(s))
    BY <1>7, <2>2, <2>4
  <2> QED BY <1>3, <2>1, <2>3, <2>5 DEF FifoStep
<1> QED BY <1>1, <1>3, <1>4, <1>5, <1>6, <1>7, <1>10, <1>11, <1>12, ListMoves DEF PoolInv, PoolTypes, locals
-----------------------------------------------------------------------------
(* All steps together.                                                      *)

\* main leaves the ids in the list, in order, and no thread inside.
LEMMA PoolStart ==
    ASSUME Init
    PROVE  \E s \in Seq(Nodes) :
              /\ PoolInv(s) /\ ItemsOf(s) = Ids
              /\ \A t \in Threads : InHand(t) = NoItem
<1> SUFFICES ASSUME NEW s, s = [i \in 1 .. NumIds |-> i]
             PROVE  /\ s \in Seq(Nodes) /\ PoolInv(s) /\ ItemsOf(s) = Ids
                    /\ \A t \in Threads : InHand(t) = NoItem
  OBVIOUS
<1>1. NumIds \in Nat \ {0} /\ NumIds <= MaxNodes /\ MaxNodes \in Nat
  BY PoolAssumption, StequeAssumption
<1>2. \A i \in 1 .. NumIds : i \in Nodes
  BY <1>1 DEF Nodes
<1>3. s \in Seq(Nodes) /\ Len(s) = NumIds /\ s # << >> /\ \A i \in 1 .. NumIds : s[i] = i
  BY <1>1, <1>2
<1>4. Len(Ids) = NumIds /\ Ids # << >> /\ \A i \in 1 .. NumIds : Ids[i] \in Items
  <2>1. Ids \in Seq(0 .. (NumIds - 1)) /\ Len(Ids) = NumIds
    BY <1>1 DEF Ids
  <2> QED BY <1>1, <2>1, PoolAssumption
<1>5. /\ front = 1 /\ back = NumIds /\ N = NumIds /\ live = 1 .. NumIds
      /\ item = [n \in Nodes |-> IF n <= NumIds THEN Ids[n] ELSE NoItem]
      /\ next = [n \in Nodes |-> IF n < NumIds THEN n + 1 ELSE Null]
      /\ \A t \in Threads : pc[t] = "want"
  BY <1>4 DEF Init, StequeInit
<1>6. PoolTypes
  <2>1. front \in Nodes /\ back \in Nodes /\ N \in Int /\ live \subseteq Nodes
    BY <1>1, <1>5 DEF Nodes
  <2>2. item \in [Nodes -> Items \cup {NoItem}]
    <3>1. ASSUME NEW n \in Nodes, n <= NumIds PROVE Ids[n] \in Items
      <4>1. n \in 1 .. NumIds
        BY <1>1, <3>1 DEF Nodes
      <4> QED BY <1>4, <4>1
    <3> QED BY <1>5, <3>1
  <2>3. next \in [Nodes -> Nodes \cup {Null}]
    <3>1. ASSUME NEW n \in Nodes, n < NumIds PROVE n + 1 \in Nodes
      BY <1>1, <3>1 DEF Nodes
    <3> QED BY <1>5, <3>1
  <2>4. pc \in [Threads -> Inside \cup Outside]
    BY DEF Init, Outside
  <2> QED BY <2>1, <2>2, <2>3, <2>4, StequeAssumption DEF Init, StequeInit, PoolTypes
<1>7. LockInv
  BY <1>5, PoolAssumption DEF LockInv, Init, Inside, LibraryLabels, HandLabels
<1>8. Members(s) = 1 .. NumIds
  BY <1>3 DEF Members
<1>9. Settled(s)
  BY <1>1, <1>3, <1>5, <1>8, SMTT(30) DEF Settled, End
<1>10. Linked(s)
  <2>1. \A i \in 1 .. (Len(s) - 1) : next[s[i]] = s[i + 1]
    <3> SUFFICES ASSUME NEW i \in 1 .. (NumIds - 1) PROVE next[s[i]] = s[i + 1]
      BY <1>3
    <3>1. i \in 1 .. NumIds /\ i + 1 \in 1 .. NumIds /\ i < NumIds /\ i \in Nodes
      BY <1>1, <1>2
    <3> QED BY <1>3, <1>5, <3>1
  <2>2. next[s[Len(s)]] = Null
    <3>1. NumIds \in 1 .. NumIds /\ NumIds \in Nodes /\ ~(NumIds < NumIds)
      BY <1>1, <1>2
    <3> QED BY <1>3, <1>5, <3>1
  <2>3. \A i \in 1 .. NumIds : item[i] = Ids[i]
    BY <1>1, <1>2, <1>5
  <2>4. 1 \in 1 .. NumIds
    BY <1>1
  <2> QED BY <1>3, <1>4, <1>5, <2>1, <2>2, <2>3, <2>4 DEF Linked
<1>11. \A t \in Threads : mux = t => Progress(t, s)
  BY PoolAssumption DEF Init
<1>12. ItemsOf(s) = Ids
  <2>1. \A i \in 1 .. NumIds : item[s[i]] = Ids[i]
    BY <1>1, <1>2, <1>3, <1>5
  <2> QED BY <1>3, <2>1 DEF ItemsOf, Ids
<1>13. \A t \in Threads : InHand(t) = NoItem
  BY <1>5 DEF InHand
<1> QED BY <1>3, <1>6, <1>7, <1>9, <1>10, <1>11, <1>12, <1>13 DEF PoolInv, ListInv

\* Every step of the threads, and a step of somebody else.
LEMMA PoolNext ==
    ASSUME NEW s \in Seq(Nodes), PoolInv(s), [Next]_vars
    PROVE  Continues(s)
<1>1. CASE UNCHANGED vars
  <2>1. UNCHANGED <<front, back, N, item, next, live, pc, val, node, seen, old, stopped, mux>>
    BY <1>1 DEF vars, steque, fields, memory, locals
  <2>2. PoolInv(s)'
    BY <2>1 DEF PoolInv, PoolTypes, LockInv, ListInv, Linked, Settled, Progress
  <2>3. ItemsOf(s)' = ItemsOf(s) /\ HandsStay
    BY <2>1 DEF ItemsOf, HandsStay, InHand
  <2> QED BY <2>2, <2>3 DEF Continues, FifoStep
<1>2. CASE Next
  <2>1. PICK t \in Threads :
           \/ LockForPop(t) \/ TestEmpty(t) \/ UnlockAfterPop(t)
           \/ LockForPush(t) \/ UnlockAfterPush(t)
           \/ StequeStep(t) /\ UNCHANGED mux
    BY <1>2 DEF Next
  <2>2. CASE \/ LockForPop(t) \/ TestEmpty(t) \/ UnlockAfterPop(t)
             \/ LockForPush(t) \/ UnlockAfterPush(t)
    BY <2>2, LockStep
  <2>3. CASE StequeStep(t) /\ UNCHANGED mux
    BY <2>3, PoolMalloc, PoolTestBack, PoolSetFront, PoolLinkLast, PoolSetBack, PoolLoadCount,
       PoolCountUp, PoolTestFront, PoolReadNext, PoolUnlink, PoolTestLast, PoolClearBack,
       PoolFree, PoolCountDown DEF StequeStep
  <2> QED BY <2>1, <2>2, <2>3
<1> QED BY <1>1, <1>2

\* There always is a list.
PoolListed == \E s \in Seq(Nodes) : PoolInv(s)

LEMMA PoolAlwaysListed == Spec => []PoolListed
<1>1. Init => PoolListed
  BY PoolStart DEF PoolListed
<1>2. PoolListed /\ [Next]_vars => PoolListed'
  BY PoolNext DEF PoolListed, Continues
<1> QED BY <1>1, <1>2, PTL DEF Spec

\* No operation finds the list empty or follows a null pointer: handle_with_cache
\* tests steque_isempty and pops under one lock, and every step between keeps the
\* pointers it will follow.
THEOREM PoolSafe == Spec => []PoolNeverStops
<1>1. PoolListed => PoolNeverStops
  BY DEF PoolListed, PoolInv, PoolTypes, PoolNeverStops
<1> QED BY <1>1, PoolAlwaysListed, PTL

\* Once no thread is inside an operation, back is the last node that a reader
\* finds, N their number, and no node has leaked.
THEOREM PoolConsistent == Spec => []Consistent
<1>1. PoolListed => Consistent
  <2> SUFFICES ASSUME NEW s \in Seq(Nodes), PoolInv(s),
                      \A t \in Threads : pc[t] \notin LibraryLabels
               PROVE  /\ N = ListLength
                      /\ back = IF N = 0 THEN Null ELSE Path[N - 1]
                      /\ live = {Path[k] : k \in 0 .. (N - 1)}
    BY DEF PoolListed, Consistent
  <2>1. Settled(s)
    <3>1. CASE mux = Nobody
      BY <3>1 DEF PoolInv, ListInv
    <3>2. CASE mux # Nobody
      <4>1. mux \in Threads /\ pc[mux] \in {"testEmpty", "popped", "pushed"} /\ Progress(mux, s)
        BY <3>2 DEF PoolInv, ListInv, PoolTypes, LockInv, Inside
      <4> QED BY <4>1 DEF Progress
    <3> QED BY <3>1, <3>2
  <2>2. /\ ListLength = Len(s) /\ Members(s) = {Path[k] : k \in 0 .. (Len(s) - 1)}
        /\ Len(s) # 0 => Path[Len(s) - 1] = End(s)
    BY ListRead DEF PoolInv, ListInv
  <2>3. Len(s) = 0 => End(s) = Null
    BY DEF End
  <2> QED BY <2>1, <2>2, <2>3 DEF Settled
<1> QED BY <1>1, PoolAlwaysListed, PTL
-----------------------------------------------------------------------------
(* The refinement.                                                          *)

\* The next state's list is read in the same way.
LEMMA ReadLater == (\A s \in Seq(Nodes) : Linked(s) => Contents = ItemsOf(s))'
<1>1. \A s \in Seq(Nodes) : Linked(s) => Contents = ItemsOf(s)
  BY ListRead
<1> QED BY <1>1, PTL

Hands == [t \in Threads |-> InHand(t)]

\* A step of the threads is a Put, a Get or no step of the Fifo.
LEMMA PoolStepRefines ==
    ASSUME NEW s \in Seq(Nodes), PoolInv(s), Continues(s)
    PROVE  [AbstractPool!Next]_(AbstractPool!vars)
<1>1. PICK r \in Seq(Nodes) : PoolInv(r)' /\ FifoStep(s, r)
  BY DEF Continues
<1>2. Contents = ItemsOf(s)
  BY ListRead DEF PoolInv, ListInv
<1>3. Contents' = ItemsOf(r)'
  BY <1>1, ReadLater DEF PoolInv, ListInv
<1>4. CASE ItemsOf(r)' = ItemsOf(s) /\ HandsStay
  <2>1. Contents' = Contents /\ Hands' = Hands
    BY <1>2, <1>3, <1>4 DEF HandsStay, Hands
  <2> QED BY <2>1 DEF AbstractPool!vars, Hands
<1>5. ASSUME NEW t \in Threads, InHand(t) # NoItem,
             ItemsOf(r)' = Append(ItemsOf(s), InHand(t)),
             \A u \in Threads : InHand(u)' = IF u = t THEN NoItem ELSE InHand(u)
      PROVE  AbstractPool!Next
  <2>1. Hands[t] # NoItem /\ Contents' = Append(Contents, Hands[t])
    BY <1>2, <1>3, <1>5 DEF Hands
  <2>2. Hands' = [Hands EXCEPT ![t] = NoItem]
    BY <1>5 DEF Hands
  <2> QED BY <2>1, <2>2 DEF AbstractPool!Next, AbstractPool!Put, Hands
<1>6. ASSUME NEW t \in Threads, InHand(t) = NoItem, s # << >>,
             ItemsOf(r)' = Tail(ItemsOf(s)),
             \A u \in Threads : InHand(u)' = IF u = t THEN Head(ItemsOf(s)) ELSE InHand(u)
      PROVE  AbstractPool!Next
  <2>1. Hands[t] = NoItem /\ Contents' = Tail(Contents)
    BY <1>2, <1>3, <1>6 DEF Hands
  <2>2. Hands' = [Hands EXCEPT ![t] = Head(Contents)]
    BY <1>2, <1>6 DEF Hands
  <2>3. Contents # << >>
    <3>1. Len(s) \in Nat \ {0} /\ ItemsOf(s) = [k \in 1 .. Len(s) |-> item[s[k]]]
      BY <1>6 DEF ItemsOf
    <3> QED BY <1>2, <3>1
  <2> QED BY <2>1, <2>2, <2>3 DEF AbstractPool!Next, AbstractPool!Get, Hands
<1> QED BY <1>1, <1>4, <1>5, <1>6 DEF FifoStep

\* The list under mux is the first-in first-out pool that the proxy's workers
\* take it for: each id in one thread's hand or in the queue, handed out in the
\* order of its return.
THEOREM PoolImplementsFifo == Spec => PoolIsFifo
<1>1. Init => AbstractPool!Init
  <2> SUFFICES ASSUME Init PROVE AbstractPool!Init
    OBVIOUS
  <2>1. PICK s \in Seq(Nodes) : /\ PoolInv(s) /\ ItemsOf(s) = Ids
                                /\ \A t \in Threads : InHand(t) = NoItem
    BY PoolStart
  <2>2. Contents = Ids
    BY <2>1, ListRead DEF PoolInv, ListInv
  <2> QED BY <2>1, <2>2 DEF AbstractPool!Init
<1>2. PoolListed /\ [Next]_vars => [AbstractPool!Next]_(AbstractPool!vars)
  BY PoolNext, PoolStepRefines DEF PoolListed
<1> QED BY <1>1, <1>2, PoolAlwaysListed, PTL DEF Spec, PoolIsFifo, AbstractPool!Spec
=============================================================================
