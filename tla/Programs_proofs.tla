---------------------------- MODULE Programs_proofs ----------------------------
(***************************************************************************)
(* Theorems about the programs that run alone, for every value of their    *)
(* constants.  Of each, an invariant of the program's module is shown to   *)
(* be inductive; the variables there stand here for those of the pool.     *)
(***************************************************************************)
EXTENDS Programs, FiniteSetTheorems, WellFoundedInduction, TLAPS

-----------------------------------------------------------------------------
(* Induction.                                                               *)

\* Every non-empty set of natural numbers has a least element.
LEMMA LeastElement ==
    ASSUME NEW T \in SUBSET Nat, T # {}
    PROVE  \E n \in T : \A m \in T : n <= m
<1> DEFINE R == {ss \in Nat \X Nat : ss[1] < ss[2]}
<1>1. IsWellFoundedOn(R, Nat)
  <2> SUFFICES ASSUME NEW f \in [Nat -> Nat], \A n \in Nat : <<f[n + 1], f[n]>> \in R PROVE FALSE
    BY DEF IsWellFoundedOn
  <2> QED BY NatLessThanWellFounded DEF OpToRel, IsWellFoundedOn
<1>2. PICK n \in T : \A m \in T : ~(<<m, n>> \in R)
  <2> HIDE DEF R
  <2> QED BY <1>1, WFMin
<1>3. \A m \in T : n <= m
  <2> SUFFICES ASSUME NEW m \in T PROVE n <= m
    OBVIOUS
  <2>1. m \in Nat /\ n \in Nat /\ ~(<<m, n>> \in R)
    BY <1>2
  <2> QED BY <2>1
<1> QED BY <1>3
-----------------------------------------------------------------------------
(* The callback server.  Its variables are here: s1 the status of the call  *)
(* data at each tag, s2 its owner, s3 the queued and s4 the listening tags, *)
(* s5 the completion queue, s6 the threads, s7 the clients, s8 the calls.   *)

\* The constructor takes a free tag.
LEMMA CreateTakes ==
    ASSUME Callbacks!TypeOK, Callbacks!Create
    PROVE  \E t \in Tags : /\ s1[t] = "free"
                           /\ s1' = [s1 EXCEPT ![t] = "process"]
                           /\ s2' = [s2 EXCEPT ![t] = Callbacks!NoClient]
                           /\ s3' = s3 \cup {t}
<1>1. Callbacks!Free # {} /\ Callbacks!Free \in SUBSET Nat
  BY CallbackAssumption DEF Callbacks!Create, Callbacks!Free
<1>2. \E t \in Callbacks!Free : \A u \in Callbacks!Free : t <= u
  BY <1>1, LeastElement
<1> DEFINE t == CHOOSE x \in Callbacks!Free : \A u \in Callbacks!Free : x <= u
<1>3. t \in Callbacks!Free
  BY <1>2
<1> QED BY <1>3 DEF Callbacks!Create, Callbacks!Free

\* What the constructor does to the tags: the new one waits and is nowhere else.
LEMMA CreateKeeps ==
    ASSUME Callbacks!TypeOK, Callbacks!TagInv, Callbacks!Create,
           UNCHANGED <<s4, s5, s7, s8>>,
           NEW h \in Threads,
           \/ s6[h].pc = "start" /\ s6' = [s6 EXCEPT ![h] = Callbacks!At("next", Callbacks!NoTag)]
           \/ s6[h].pc = "respawn" /\ s6' = [s6 EXCEPT ![h].pc = "respond"]
    PROVE  (Callbacks!TypeOK /\ Callbacks!TagInv)'
<1> USE CallbackAssumption
<1>1. PICK t \in Tags : /\ s1[t] = "free"
                        /\ s1' = [s1 EXCEPT ![t] = "process"]
                        /\ s2' = [s2 EXCEPT ![t] = Callbacks!NoClient]
                        /\ s3' = s3 \cup {t}
  BY CreateTakes
<1>2. /\ t \notin s3 \cup s4
      /\ \A e \in s5 : e.tag # t
      /\ \A g \in Threads : s6[g].tag # t
  BY <1>1 DEF Callbacks!TypeOK, Callbacks!TagInv, Callbacks!WaitingTags, Callbacks!EventTags, Callbacks!HeldTags
<1>3. \A g \in Threads : s6'[g].tag = s6[g].tag
  BY DEF Callbacks!TypeOK, Callbacks!TagInv, Callbacks!HeldTags, Callbacks!At
<1>4. Callbacks!TypeOK'
  BY <1>1 DEF Callbacks!TypeOK, Callbacks!At
<1>5. Callbacks!WaitingTags'
  BY <1>1, <1>2 DEF Callbacks!TypeOK, Callbacks!TagInv, Callbacks!WaitingTags
<1>6. Callbacks!EventTags'
  BY <1>1, <1>2 DEF Callbacks!TypeOK, Callbacks!TagInv, Callbacks!EventTags
<1>7. Callbacks!HeldTags'
  BY <1>1, <1>2, <1>3 DEF Callbacks!TypeOK, Callbacks!TagInv, Callbacks!HeldTags, Callbacks!At
<1>8. Callbacks!NoTagLost'
  BY <1>1, <1>2, <1>3 DEF Callbacks!TypeOK, Callbacks!TagInv, Callbacks!NoTagLost
<1> QED BY <1>4, <1>5, <1>6, <1>7, <1>8 DEF Callbacks!TagInv

\* Initially no tag is anywhere.
LEMMA CallbacksInit ==
    ASSUME Callbacks!Init
    PROVE  Callbacks!TypeOK /\ Callbacks!TagInv
<1> USE CallbackAssumption
<1>1. Callbacks!TypeOK
  BY DEF Callbacks!Init, Callbacks!TypeOK, Callbacks!At
<1>2. Callbacks!TagInv
  BY DEF Callbacks!Init, Callbacks!At, Callbacks!TagInv, Callbacks!WaitingTags,
         Callbacks!EventTags, Callbacks!HeldTags, Callbacks!NoTagLost
<1> QED BY <1>1, <1>2

\* The queue thread, a new call and a death move no tag out of its place.
LEMMA QueueKeeps ==
    ASSUME Callbacks!TypeOK, Callbacks!TagInv, Callbacks!ProcessQueuedRequests
    PROVE  (Callbacks!TypeOK /\ Callbacks!TagInv)'
<1> USE DEF Callbacks!TypeOK, Callbacks!TagInv, Callbacks!ProcessQueuedRequests
<1>1. s3' \cup s4' = s3 \cup s4
  OBVIOUS
<1>2. Callbacks!TypeOK' /\ Callbacks!WaitingTags'
  BY DEF Callbacks!WaitingTags
<1>3. Callbacks!EventTags'
  BY <1>1 DEF Callbacks!EventTags
<1>4. Callbacks!HeldTags'
  BY <1>1 DEF Callbacks!HeldTags
<1>5. Callbacks!NoTagLost'
  BY <1>1 DEF Callbacks!NoTagLost
<1> QED BY <1>2, <1>3, <1>4, <1>5

LEMMA ClientKeeps ==
    ASSUME Callbacks!TypeOK, Callbacks!TagInv, NEW c \in Clients,
           Callbacks!Ask(c) \/ Callbacks!Die(c)
    PROVE  (Callbacks!TypeOK /\ Callbacks!TagInv)'
<1> USE CallbackAssumption DEF Callbacks!TypeOK, Callbacks!TagInv
<1>1. /\ UNCHANGED <<s1, s2, s3, s4, s5, s6>> /\ s8' \in 0 .. MaxCalls
      /\ s7' \in [Clients -> {"idle", "asked", "lost", "waiting", "gone"}]
      /\ \A d \in Clients : s7[d] = "gone" => s7'[d] = "gone"
  BY DEF Callbacks!Ask, Callbacks!Die
<1>2. Callbacks!TypeOK' /\ Callbacks!WaitingTags'
  BY <1>1 DEF Callbacks!WaitingTags
<1>3. Callbacks!EventTags'
  BY <1>1 DEF Callbacks!EventTags
<1>4. Callbacks!HeldTags'
  BY <1>1 DEF Callbacks!HeldTags
<1>5. Callbacks!NoTagLost'
  BY <1>1 DEF Callbacks!NoTagLost
<1> QED BY <1>2, <1>3, <1>4, <1>5

\* What an event is.
LEMMA EventHas ==
    ASSUME NEW t \in Tags, NEW ok \in BOOLEAN
    PROVE  \E e \in [tag : Tags, ok : BOOLEAN] :
               e.tag = t /\ e.ok = ok /\ e = Callbacks!Event(t, ok)
<1> DEFINE e == [tag |-> t, ok |-> ok]
<1>1. e \in [tag : Tags, ok : BOOLEAN] /\ e.tag = t /\ e.ok = ok
  OBVIOUS
<1> QED BY <1>1 DEF Callbacks!Event

\* A tag that was waiting for a call is now in an event.
LEMMA MatchKeeps ==
    ASSUME Callbacks!TypeOK, Callbacks!TagInv, NEW c \in Clients, NEW t \in Tags,
           Callbacks!Match(c, t)
    PROVE  (Callbacks!TypeOK /\ Callbacks!TagInv)'
<1> USE CallbackAssumption
<1>0. PICK new \in [tag : Tags, ok : BOOLEAN] :
        new.tag = t /\ new.ok = TRUE /\ new = Callbacks!Event(t, TRUE)
  BY EventHas
<1>1. /\ t \in s4 /\ s1[t] = "process" /\ t \notin s3
      /\ UNCHANGED <<s1, s3, s6, s8>>
      /\ s4' = s4 \ {t} /\ s2' = [s2 EXCEPT ![t] = c]
      /\ s5' = s5 \cup {new}
  BY <1>0 DEF Callbacks!Match, Callbacks!TagInv, Callbacks!WaitingTags
<1>2. /\ \A d \in Clients : s7[d] = "gone" => s7'[d] = "gone"
      /\ s7' \in [Clients -> {"idle", "asked", "lost", "waiting", "gone"}]
  BY DEF Callbacks!Match, Callbacks!TypeOK
<1>3. /\ \A e \in s5 : e.tag # t
      /\ \A g \in Threads : s6[g].tag # t
  BY <1>1 DEF Callbacks!TypeOK, Callbacks!TagInv, Callbacks!EventTags, Callbacks!HeldTags
<1>4. Callbacks!TypeOK'
  <2>1. s5' \subseteq [tag : Tags, ok : BOOLEAN]
    BY <1>0, <1>1 DEF Callbacks!TypeOK
  <2>2. s2' \in [Tags -> Clients \cup {Callbacks!NoClient}]
    BY <1>1 DEF Callbacks!TypeOK
  <2> QED BY <1>1, <1>2, <2>1, <2>2 DEF Callbacks!TypeOK
<1>5. Callbacks!WaitingTags'
  BY <1>1 DEF Callbacks!TagInv, Callbacks!WaitingTags
<1>6. Callbacks!EventTags'
  <2>1. \A e \in s5 : s2'[e.tag] = s2[e.tag]
    BY <1>1, <1>3 DEF Callbacks!TypeOK
  <2>2. s2'[t] = c
    BY <1>1 DEF Callbacks!TypeOK
  <2>3. \A e \in s5 : /\ s1[e.tag] # "free" /\ s2[e.tag] \in Clients
                      /\ e.tag \notin s3 \cup s4
                      /\ ~e.ok => s1[e.tag] = "finish" /\ s7[s2[e.tag]] = "gone"
    BY DEF Callbacks!TagInv, Callbacks!EventTags
  <2>4. \A e \in s5' : \/ e \in s5
                       \/ e = new
    BY <1>1
  <2>5. \A e \in s5' : /\ s1'[e.tag] # "free" /\ s2'[e.tag] \in Clients
                       /\ e.tag \notin s3' \cup s4'
                       /\ ~e.ok => s1'[e.tag] = "finish" /\ s7'[s2'[e.tag]] = "gone"
    BY <1>0, <1>1, <1>2, <2>1, <2>2, <2>3, <2>4, ZenonT(60)
  <2>6. \A e, f \in s5' : e.tag = f.tag => e = f
    BY <1>0, <1>3, <2>4 DEF Callbacks!TagInv, Callbacks!EventTags
  <2> QED BY <2>5, <2>6 DEF Callbacks!EventTags
<1>7. Callbacks!HeldTags'
  BY <1>0, <1>1, <1>3, ZenonT(60) DEF Callbacks!TypeOK, Callbacks!TagInv, Callbacks!HeldTags
<1>8. Callbacks!NoTagLost'
  <2> SUFFICES ASSUME NEW u \in Tags
               PROVE \/ s1[u] = "free"
                     \/ u \in s3 \cup s4'
                     \/ \E f \in s5' : f.tag = u
                     \/ \E g \in Threads : s6[g].tag = u
                     \/ s1[u] = "finish" /\ s2'[u] \in Clients /\ s7'[s2'[u]] = "gone"
    BY <1>1 DEF Callbacks!NoTagLost
  <2>1. CASE u = t
    BY <1>0, <1>1, <2>1
  <2>2. CASE u # t
    <3>1. s2'[u] = s2[u] /\ (u \in s4' <=> u \in s4) /\ s5 \subseteq s5'
      BY <1>1, <2>2 DEF Callbacks!TypeOK
    <3> QED BY <1>2, <3>1 DEF Callbacks!TagInv, Callbacks!NoTagLost
  <2> QED BY <2>1, <2>2
<1> QED BY <1>4, <1>5, <1>6, <1>7, <1>8 DEF Callbacks!TagInv

\* An event is dropped, or its tag passes to the thread or is deleted.
LEMMA TakeEventKeeps ==
    ASSUME Callbacks!TypeOK, Callbacks!TagInv, NEW h \in Threads, Callbacks!TakeEvent(h)
    PROVE  (Callbacks!TypeOK /\ Callbacks!TagInv)'
<1> USE CallbackAssumption
<1>1. PICK e \in s5 :
        /\ s5' = s5 \ {e}
        /\ \/ ~e.ok /\ UNCHANGED <<s1, s6>>
           \/ /\ e.ok /\ s1[e.tag] = "process"
              /\ s6' = [s6 EXCEPT ![h] = [pc |-> "respawn", tag |-> e.tag]] /\ UNCHANGED s1
           \/ /\ e.ok /\ s1[e.tag] = "finish"
              /\ s1' = [s1 EXCEPT ![e.tag] = "free"] /\ UNCHANGED s6
  BY DEF Callbacks!TakeEvent, Callbacks!At
<1>2. s6[h].pc = "next" /\ UNCHANGED <<s2, s3, s4, s7, s8>>
  BY DEF Callbacks!TakeEvent
<1>3. /\ e \in [tag : Tags, ok : BOOLEAN] /\ e.tag \in Tags /\ s1[e.tag] # "free"
      /\ s2[e.tag] \in Clients /\ e.tag \notin s3 \cup s4
      /\ ~e.ok => s1[e.tag] = "finish" /\ s7[s2[e.tag]] = "gone"
      /\ \A f \in s5 : f.tag = e.tag => f = e
      /\ \A g \in Threads : s6[g].tag # e.tag
  BY <1>1 DEF Callbacks!TypeOK, Callbacks!TagInv, Callbacks!EventTags, Callbacks!HeldTags
<1>4. Callbacks!TypeOK'
  BY <1>1, <1>2, <1>3 DEF Callbacks!TypeOK
<1>5. CASE ~e.ok /\ UNCHANGED <<s1, s6>>
  <2>1. Callbacks!WaitingTags' /\ Callbacks!EventTags'
    BY <1>1, <1>2, <1>5 DEF Callbacks!TagInv, Callbacks!WaitingTags, Callbacks!EventTags
  <2>2. Callbacks!HeldTags'
    BY <1>1, <1>2, <1>5 DEF Callbacks!TagInv, Callbacks!HeldTags
  <2>3. Callbacks!NoTagLost'
    BY <1>1, <1>2, <1>3, <1>5 DEF Callbacks!TagInv, Callbacks!NoTagLost
  <2> QED BY <1>4, <2>1, <2>2, <2>3 DEF Callbacks!TagInv
<1>6. CASE /\ e.ok /\ s1[e.tag] = "process"
           /\ s6' = [s6 EXCEPT ![h] = [pc |-> "respawn", tag |-> e.tag]] /\ UNCHANGED s1
  <2>1. Callbacks!WaitingTags' /\ Callbacks!EventTags'
    BY <1>1, <1>2, <1>6 DEF Callbacks!TagInv, Callbacks!WaitingTags, Callbacks!EventTags
  <2>2. /\ s6'[h] = [pc |-> "respawn", tag |-> e.tag]
        /\ \A g \in Threads \ {h} : s6'[g] = s6[g]
    BY <1>6 DEF Callbacks!TypeOK
  <2>3. Callbacks!HeldTags'
    BY <1>1, <1>2, <1>3, <1>6, <2>2 DEF Callbacks!TypeOK, Callbacks!TagInv, Callbacks!HeldTags
  <2>4. Callbacks!NoTagLost'
    <3> SUFFICES ASSUME NEW t \in Tags
                 PROVE \/ s1[t] = "free"
                       \/ t \in s3 \cup s4
                       \/ \E f \in s5' : f.tag = t
                       \/ \E g \in Threads : s6'[g].tag = t
                       \/ s1[t] = "finish" /\ s2[t] \in Clients /\ s7[s2[t]] = "gone"
      BY <1>2, <1>6 DEF Callbacks!NoTagLost
    <3>1. s6[h].tag \notin Tags
      BY <1>2 DEF Callbacks!TagInv, Callbacks!HeldTags
    <3>2. (\E g \in Threads : s6[g].tag = t) => \E g \in Threads : s6'[g].tag = t
      BY <2>2, <3>1
    <3>3. (\E f \in s5 : f.tag = t) => t = e.tag \/ \E f \in s5' : f.tag = t
      BY <1>1
    <3>4. CASE t = e.tag
      BY <2>2, <3>4
    <3>5. CASE t # e.tag
      BY <3>2, <3>3, <3>5 DEF Callbacks!TagInv, Callbacks!NoTagLost
    <3> QED BY <3>4, <3>5
  <2> QED BY <1>4, <2>1, <2>3, <2>4 DEF Callbacks!TagInv
<1>7. CASE /\ e.ok /\ s1[e.tag] = "finish"
           /\ s1' = [s1 EXCEPT ![e.tag] = "free"] /\ UNCHANGED s6
  <2>1. \A t \in Tags : s1'[t] = IF t = e.tag THEN "free" ELSE s1[t]
    BY <1>7 DEF Callbacks!TypeOK
  <2>2. Callbacks!WaitingTags'
    BY <1>2, <1>3, <2>1 DEF Callbacks!TypeOK, Callbacks!TagInv, Callbacks!WaitingTags
  <2>3. Callbacks!EventTags'
    <3>1. \A f \in s5' : f \in s5 /\ f.tag \in Tags /\ s1'[f.tag] = s1[f.tag]
      BY <1>1, <1>3, <2>1 DEF Callbacks!TypeOK
    <3> QED BY <1>2, <3>1 DEF Callbacks!TagInv, Callbacks!EventTags
  <2>4. Callbacks!HeldTags'
    BY <1>1, <1>2, <1>3, <1>7, <2>1 DEF Callbacks!TagInv, Callbacks!HeldTags
  <2>5. Callbacks!NoTagLost'
    <3>1. \A t \in Tags : (\E f \in s5 : f.tag = t) => t = e.tag \/ \E f \in s5' : f.tag = t
      BY <1>1
    <3> QED BY <1>2, <1>7, <2>1, <3>1 DEF Callbacks!TagInv, Callbacks!NoTagLost
  <2> QED BY <1>4, <2>2, <2>3, <2>4, <2>5 DEF Callbacks!TagInv
<1> QED BY <1>1, <1>5, <1>6, <1>7

\* The answer's event has the thread's tag.
LEMMA RespondKeeps ==
    ASSUME Callbacks!TypeOK, Callbacks!TagInv, NEW h \in Threads, Callbacks!Respond(h)
    PROVE  (Callbacks!TypeOK /\ Callbacks!TagInv)'
<1> USE CallbackAssumption
<1> DEFINE t == s6[h].tag
<1>2. /\ s6[h].pc = "respond" /\ UNCHANGED <<s2, s3, s4, s8>>
      /\ s1' = [s1 EXCEPT ![t] = "finish"]
      /\ s6' = [s6 EXCEPT ![h] = [pc |-> "next", tag |-> Callbacks!NoTag]]
      /\ s7' = [s7 EXCEPT ![s2[t]] = IF @ = "waiting" THEN "idle" ELSE @]
  BY DEF Callbacks!Respond, Callbacks!At
<1>3. /\ t \in Tags \ (s3 \cup s4) /\ s2[t] \in Clients
      /\ \A e \in s5 : e.tag # t
      /\ \A g \in Threads : s6[g].tag = t => g = h
  BY <1>2 DEF Callbacks!TagInv, Callbacks!HeldTags
<1> HIDE DEF t
<1>1. PICK new \in [tag : Tags, ok : BOOLEAN] :
        new.tag = t /\ s5' = s5 \cup {new} /\ (~new.ok => s7[s2[t]] = "gone")
  <2>1. PICK ok \in BOOLEAN : s5' = s5 \cup {Callbacks!Event(t, ok)} /\ (~ok => s7[s2[t]] = "gone")
    BY DEF Callbacks!Respond, t
  <2> QED BY <1>3, <2>1, EventHas
<1>4. /\ s7' \in [Clients -> {"idle", "asked", "lost", "waiting", "gone"}]
      /\ \A d \in Clients : s7[d] = "gone" => s7'[d] = "gone"
  BY <1>2, <1>3 DEF Callbacks!TypeOK
<1>5. /\ \A u \in Tags : s1'[u] = IF u = t THEN "finish" ELSE s1[u]
      /\ s1' \in [Tags -> {"free", "process", "finish"}]
  BY <1>2, <1>3 DEF Callbacks!TypeOK
<1>6. /\ s6'[h] = [pc |-> "next", tag |-> Callbacks!NoTag]
      /\ \A g \in Threads \ {h} : s6'[g] = s6[g]
  BY <1>2 DEF Callbacks!TypeOK
<1>7. Callbacks!TypeOK'
  BY <1>1, <1>2, <1>3, <1>4, <1>5 DEF Callbacks!TypeOK
<1>8. Callbacks!WaitingTags'
  BY <1>2, <1>3, <1>5 DEF Callbacks!TypeOK, Callbacks!TagInv, Callbacks!WaitingTags
<1>9. Callbacks!EventTags'
  BY <1>1, <1>2, <1>3, <1>4, <1>5 DEF Callbacks!TypeOK, Callbacks!TagInv, Callbacks!EventTags
<1>10. Callbacks!HeldTags'
  BY <1>1, <1>2, <1>3, <1>5, <1>6 DEF Callbacks!TypeOK, Callbacks!TagInv, Callbacks!HeldTags
<1>11. Callbacks!NoTagLost'
  <2> SUFFICES ASSUME NEW u \in Tags
               PROVE \/ s1'[u] = "free"
                     \/ u \in s3 \cup s4
                     \/ \E f \in s5' : f.tag = u
                     \/ \E g \in Threads : s6'[g].tag = u
                     \/ s1'[u] = "finish" /\ s2[u] \in Clients /\ s7'[s2[u]] = "gone"
    BY <1>2 DEF Callbacks!NoTagLost
  <2>1. CASE u = t
    BY <1>1, <2>1
  <2>2. CASE u # t
    <3>1. (\E g \in Threads : s6[g].tag = u) => \E g \in Threads : s6'[g].tag = u
      BY <1>6, <2>2 DEF t
    <3>2. s5 \subseteq s5' /\ s1'[u] = s1[u]
      BY <1>1, <1>5, <2>2
    <3> QED BY <1>4, <3>1, <3>2 DEF Callbacks!TagInv, Callbacks!NoTagLost
  <2> QED BY <2>1, <2>2
<1> QED BY <1>7, <1>8, <1>9, <1>10, <1>11 DEF Callbacks!TagInv

\* Every step keeps the tags where they belong.
LEMMA CallbacksStep ==
    ASSUME Callbacks!TypeOK, Callbacks!TagInv, Callbacks!Next
    PROVE  (Callbacks!TypeOK /\ Callbacks!TagInv)'
<1>1. ASSUME NEW h \in Threads, Callbacks!Start(h) \/ Callbacks!Respawn(h)
      PROVE (Callbacks!TypeOK /\ Callbacks!TagInv)'
  BY <1>1, CreateKeeps DEF Callbacks!Start, Callbacks!Respawn
<1>2. ASSUME NEW h \in Threads, Callbacks!TakeEvent(h) \/ Callbacks!Respond(h)
      PROVE (Callbacks!TypeOK /\ Callbacks!TagInv)'
  BY <1>2, TakeEventKeeps, RespondKeeps
<1>3. CASE Callbacks!ProcessQueuedRequests
  BY <1>3, QueueKeeps
<1>4. ASSUME NEW c \in Clients, Callbacks!Ask(c) \/ Callbacks!Die(c)
      PROVE (Callbacks!TypeOK /\ Callbacks!TagInv)'
  BY <1>4, ClientKeeps
<1>5. ASSUME NEW c \in Clients, NEW t \in Tags, Callbacks!Match(c, t)
      PROVE (Callbacks!TypeOK /\ Callbacks!TagInv)'
  BY <1>5, MatchKeeps
<1> QED BY <1>1, <1>2, <1>3, <1>4, <1>5 DEF Callbacks!Next, Callbacks!ThreadStep

\* The instance counts as this module does.
LEMMA SameCardinality == \A S : Callbacks!Cardinality(S) = Cardinality(S)
BY DEF Callbacks!Cardinality, Cardinality

\* A set with at most one element has 0 elements, or 1.
LEMMA AtMostOne ==
    ASSUME NEW S, \A x, y \in S : x = y
    PROVE  Cardinality(S) = IF S = {} THEN 0 ELSE 1
<1>1. CASE S = {}
  BY <1>1, FS_EmptySet
<1>2. CASE S # {}
  <2>1. PICK x : S = {x}
    BY <1>2
  <2> QED BY <2>1, FS_Singleton
<1> QED BY <1>1, <1>2

\* A tag belongs in one place, or in none when the call data is deleted or lost.
LEMMA TagPlaces ==
    ASSUME Callbacks!TypeOK, Callbacks!TagInv, NEW t \in Tags
    PROVE  /\ Callbacks!Places(t) <= 1
           /\ s1[t] = "free" => Callbacks!Places(t) = 0
           /\ s1[t] # "free" /\ Callbacks!Places(t) = 0 => s7[s2[t]] = "gone"
<1> USE CallbackAssumption
<1> DEFINE events  == {e \in s5 : e.tag = t}
           threads == {h \in Threads : s6[h].tag = t}
<1>1. Cardinality(events) = IF events = {} THEN 0 ELSE 1
  <2>1. \A e, f \in events : e = f
    BY DEF Callbacks!TagInv, Callbacks!EventTags
  <2> HIDE DEF events
  <2> QED BY <2>1, AtMostOne
<1>2. Cardinality(threads) = IF threads = {} THEN 0 ELSE 1
  <2>1. \A g, h \in threads : g = h
    BY DEF Callbacks!TagInv, Callbacks!HeldTags
  <2> HIDE DEF threads
  <2> QED BY <2>1, AtMostOne
<1>3. events # {} => t \notin s3 \cup s4 /\ threads = {} /\ s1[t] # "free"
  BY DEF Callbacks!TypeOK, Callbacks!TagInv, Callbacks!EventTags, Callbacks!HeldTags
<1>4. threads # {} => t \notin s3 \cup s4 /\ s1[t] # "free"
  BY DEF Callbacks!TypeOK, Callbacks!TagInv, Callbacks!HeldTags
<1>5. t \in s3 \cup s4 => s1[t] # "free" /\ ~(t \in s3 /\ t \in s4)
  BY DEF Callbacks!TagInv, Callbacks!WaitingTags
<1>6. s1[t] # "free" /\ t \notin s3 \cup s4 /\ events = {} /\ threads = {} => s7[s2[t]] = "gone"
  BY DEF Callbacks!TagInv, Callbacks!NoTagLost
<1>7. Callbacks!Places(t) = (IF t \in s3 THEN 1 ELSE 0) + (IF t \in s4 THEN 1 ELSE 0)
                              + Cardinality(events) + Cardinality(threads)
  BY SameCardinality DEF Callbacks!Places
<1> HIDE DEF events, threads
<1> QED BY <1>1, <1>2, <1>3, <1>4, <1>5, <1>6, <1>7

\* TagsLive follows from where the tags are.
LEMMA TagsAreLive ==
    ASSUME Callbacks!TypeOK, Callbacks!TagInv
    PROVE  Callbacks!TagsLive
BY TagPlaces DEF Callbacks!TagsLive

\* Whichever program runs, the invariant of the callback server holds.
CallbacksInv == program = "callbacks" => Callbacks!TypeOK /\ Callbacks!TagInv

LEMMA CallbacksInvariant == Spec => []CallbacksInv
<1>1. Init => CallbacksInv
  BY CallbacksInit DEF Init, CallbacksInv
<1>2. CallbacksInv /\ [Next]_vars => CallbacksInv'
  <2> SUFFICES ASSUME CallbacksInv, [Next]_vars, program' = "callbacks"
               PROVE (Callbacks!TypeOK /\ Callbacks!TagInv)'
    BY DEF CallbacksInv
  <2>1. CASE UNCHANGED vars
    BY <2>1 DEF CallbacksInv, vars, Callbacks!TypeOK, Callbacks!TagInv, Callbacks!WaitingTags,
                Callbacks!EventTags, Callbacks!HeldTags, Callbacks!NoTagLost
  <2>2. CASE Next
    <3>1. program = "callbacks" /\ Callbacks!Next
      BY <2>2 DEF Next
    <3> QED BY <3>1, CallbacksStep DEF CallbacksInv
  <2> QED BY <2>1, <2>2
<1> QED BY <1>1, <1>2, PTL DEF Spec

\* No call data is used after it is deleted, by two calls, or forgotten with a
\* client that lives: for any number of threads, clients, addresses and calls.
THEOREM TagsStayLive == Spec => []TagsLive
<1>1. CallbacksInv => TagsLive
  BY TagsAreLive DEF CallbacksInv, TagsLive
<1> QED BY <1>1, CallbacksInvariant, PTL
-----------------------------------------------------------------------------
(* The number of listeners.                                                 *)

\* The sets that ListenersStay counts are finite.
LEMMA CallbacksFinite ==
    ASSUME Callbacks!TypeOK, Callbacks!TagInv
    PROVE  /\ IsFiniteSet(s3 \cup s4) /\ IsFiniteSet(s5) /\ IsFiniteSet(Callbacks!Called)
           /\ \A pc : IsFiniteSet(Callbacks!To(pc))
<1> USE CallbackAssumption
<1>1. s3 \cup s4 \in SUBSET Tags
  BY DEF Callbacks!TypeOK
<1>2. IsFiniteSet(s3 \cup s4)
  BY <1>1, FS_Subset
<1>3. IsFiniteSet(s5)
  <2> DEFINE f == [e \in s5 |-> e.tag]
  <2>1. f \in Injection(s5, Tags)
    BY DEF Callbacks!TypeOK, Callbacks!TagInv, Callbacks!EventTags, Injection, IsInjective
  <2> HIDE DEF f
  <2> QED BY <2>1, FS_Injection
<1>4. IsFiniteSet(Callbacks!Called)
  <2>1. Callbacks!Called \in SUBSET s5
    BY DEF Callbacks!Called
  <2> QED BY <1>3, <2>1, FS_Subset
<1>5. ASSUME NEW pc PROVE IsFiniteSet(Callbacks!To(pc))
  <2>1. Callbacks!To(pc) \in SUBSET Threads
    BY DEF Callbacks!To
  <2> QED BY <2>1, FS_Subset
<1> QED BY <1>2, <1>3, <1>4, <1>5

\* Call data that listen, or will.
Listeners ==
    Cardinality(s3 \cup s4) + Cardinality(Callbacks!Called)
        + Cardinality(Callbacks!To("start")) + Cardinality(Callbacks!To("respawn"))

\* A set that gains or loses one element.
LEMMA OneMore ==
    ASSUME NEW S, NEW x, IsFiniteSet(S), x \notin S
    PROVE  Cardinality(S) \in Nat /\ Cardinality(S \cup {x}) = Cardinality(S) + 1
BY FS_AddElement, FS_CardinalityType

LEMMA OneLess ==
    ASSUME NEW S, NEW x \in S, IsFiniteSet(S)
    PROVE  Cardinality(S) \in Nat /\ Cardinality(S \ {x}) = Cardinality(S) - 1
BY FS_RemoveElement, FS_CardinalityType

\* The sums are sums of numbers.
LEMMA CountsAreNumbers ==
    ASSUME Callbacks!TypeOK, Callbacks!TagInv
    PROVE  /\ Cardinality(s3 \cup s4) \in Nat /\ Cardinality(Callbacks!Called) \in Nat
           /\ \A pc : Cardinality(Callbacks!To(pc)) \in Nat
BY CallbacksFinite, FS_CardinalityType

\* A thread that changes its label.
LEMMA ThreadMoves ==
    ASSUME NEW h \in Threads, NEW pc,
           \A g \in Threads : s6'[g].pc = IF g = h THEN pc ELSE s6[g].pc
    PROVE  \A old : Callbacks!To(old)' = IF old = pc THEN Callbacks!To(old) \cup {h}
                                         ELSE Callbacks!To(old) \ {h}
BY DEF Callbacks!To

\* The new call data makes up for the thread that was to create it.
LEMMA CreateCounts ==
    ASSUME Callbacks!TypeOK, Callbacks!TagInv, Callbacks!Create,
           UNCHANGED <<s4, s5>>,
           NEW h \in Threads, s6[h].pc \in {"start", "respawn"},
           NEW pc \in {"next", "respond"},
           \A g \in Threads : s6'[g].pc = IF g = h THEN pc ELSE s6[g].pc
    PROVE  Listeners' = Listeners
<1>1. PICK t \in Tags : /\ s1[t] = "free"
                        /\ s1' = [s1 EXCEPT ![t] = "process"]
                        /\ s3' = s3 \cup {t}
  BY CreateTakes
<1>2. t \notin s3 \cup s4 /\ \A e \in s5 : e.tag # t /\ e.tag \in Tags
  BY <1>1 DEF Callbacks!TypeOK, Callbacks!TagInv, Callbacks!WaitingTags, Callbacks!EventTags
<1>3. Cardinality(s3' \cup s4') = Cardinality(s3 \cup s4) + 1
  <2>1. s3' \cup s4' = (s3 \cup s4) \cup {t}
    BY <1>1
  <2> QED BY <1>2, <2>1, CallbacksFinite, OneMore
<1>4. Callbacks!Called' = Callbacks!Called
  BY <1>1, <1>2 DEF Callbacks!TypeOK, Callbacks!Called
<1>5. /\ Callbacks!To("start")' = Callbacks!To("start") \ {h}
      /\ Callbacks!To("respawn")' = Callbacks!To("respawn") \ {h}
  BY ThreadMoves
<1>6. CASE s6[h].pc = "start"
  <2>1. h \in Callbacks!To("start") /\ h \notin Callbacks!To("respawn")
    BY <1>6 DEF Callbacks!To
  <2>2. Cardinality(Callbacks!To("start"))' = Cardinality(Callbacks!To("start")) - 1
    BY <1>5, <2>1, CallbacksFinite, OneLess
  <2>3. Callbacks!To("respawn")' = Callbacks!To("respawn")
    BY <1>5, <2>1
  <2> QED BY <1>3, <1>4, <1>5, <2>2, <2>3, CountsAreNumbers DEF Listeners
<1>7. CASE s6[h].pc = "respawn"
  <2>1. h \in Callbacks!To("respawn") /\ h \notin Callbacks!To("start")
    BY <1>7 DEF Callbacks!To
  <2>2. Cardinality(Callbacks!To("respawn"))' = Cardinality(Callbacks!To("respawn")) - 1
    BY <1>5, <2>1, CallbacksFinite, OneLess
  <2>3. Callbacks!To("start")' = Callbacks!To("start")
    BY <1>5, <2>1
  <2> QED BY <1>3, <1>4, <1>5, <2>2, <2>3, CountsAreNumbers DEF Listeners
<1> QED BY <1>6, <1>7

\* Neither the queue thread nor the clients' steps other than a match move anything.
LEMMA QuietCounts ==
    ASSUME s3' \cup s4' = s3 \cup s4, UNCHANGED <<s1, s5, s6>>
    PROVE  Listeners' = Listeners
BY DEF Listeners, Callbacks!Called, Callbacks!To

\* A call data that has got a call is in an event.
LEMMA MatchCounts ==
    ASSUME Callbacks!TypeOK, Callbacks!TagInv, NEW c \in Clients, NEW t \in Tags,
           Callbacks!Match(c, t)
    PROVE  Listeners' = Listeners
<1>1. PICK new : new.tag = t /\ s5' = s5 \cup {new}
  BY EventHas DEF Callbacks!Match
<1>2. t \in s4 /\ t \notin s3 /\ s4' = s4 \ {t} /\ s1[t] = "process" /\ UNCHANGED <<s1, s3, s6>>
  BY DEF Callbacks!Match, Callbacks!TagInv, Callbacks!WaitingTags
<1>3. new \notin s5
  BY <1>1, <1>2 DEF Callbacks!TagInv, Callbacks!EventTags
<1>4. Cardinality(s3' \cup s4') = Cardinality(s3 \cup s4) - 1
  <2>1. s3' \cup s4' = (s3 \cup s4) \ {t}
    BY <1>2
  <2> QED BY <1>2, <2>1, CallbacksFinite, OneLess
<1>5. Cardinality(Callbacks!Called)' = Cardinality(Callbacks!Called) + 1
  <2>1. Callbacks!Called' = Callbacks!Called \cup {new} /\ new \notin Callbacks!Called
    BY <1>1, <1>2, <1>3 DEF Callbacks!Called
  <2> QED BY <2>1, CallbacksFinite, OneMore
<1>6. \A pc : Callbacks!To(pc)' = Callbacks!To(pc)
  BY <1>2 DEF Callbacks!To
<1> QED BY <1>4, <1>5, <1>6, CountsAreNumbers DEF Listeners

\* A thread takes the call, or an event without one.
LEMMA TakeEventCounts ==
    ASSUME Callbacks!TypeOK, Callbacks!TagInv, NEW h \in Threads, Callbacks!TakeEvent(h)
    PROVE  Listeners' = Listeners
<1>1. PICK e \in s5 :
        /\ s5' = s5 \ {e}
        /\ \/ ~e.ok /\ UNCHANGED <<s1, s6>>
           \/ /\ e.ok /\ s1[e.tag] = "process"
              /\ s6' = [s6 EXCEPT ![h] = [pc |-> "respawn", tag |-> e.tag]] /\ UNCHANGED s1
           \/ /\ e.ok /\ s1[e.tag] = "finish"
              /\ s1' = [s1 EXCEPT ![e.tag] = "free"] /\ UNCHANGED s6
  BY DEF Callbacks!TakeEvent, Callbacks!At
<1>2. s6[h].pc = "next" /\ UNCHANGED <<s3, s4>>
  BY DEF Callbacks!TakeEvent
<1>3. /\ ~e.ok => s1[e.tag] = "finish"
      /\ \A f \in s5 \ {e} : f.tag # e.tag
      /\ \A f \in s5 : f.tag \in Tags
  BY DEF Callbacks!TypeOK, Callbacks!TagInv, Callbacks!EventTags
<1>4. CASE s1[e.tag] = "finish"
  <2>1. UNCHANGED s6 /\ \A f \in s5 \ {e} : s1'[f.tag] = s1[f.tag]
    BY <1>1, <1>3, <1>4 DEF Callbacks!TypeOK
  <2>2. Callbacks!Called' = Callbacks!Called
    BY <1>1, <1>4, <2>1 DEF Callbacks!Called
  <2>3. \A pc : Callbacks!To(pc)' = Callbacks!To(pc)
    BY <2>1 DEF Callbacks!To
  <2> QED BY <1>2, <2>2, <2>3 DEF Listeners
<1>5. CASE s1[e.tag] # "finish"
  <2>1. /\ UNCHANGED s1 /\ s1[e.tag] = "process"
        /\ s6' = [s6 EXCEPT ![h] = [pc |-> "respawn", tag |-> e.tag]]
    BY <1>1, <1>3, <1>5
  <2>2. Callbacks!Called' = Callbacks!Called \ {e} /\ e \in Callbacks!Called
    BY <1>1, <2>1 DEF Callbacks!Called
  <2>3. Cardinality(Callbacks!Called)' = Cardinality(Callbacks!Called) - 1
    BY <2>2, CallbacksFinite, OneLess
  <2>4. h \notin Callbacks!To("start") /\ h \notin Callbacks!To("respawn")
    BY <1>2 DEF Callbacks!To
  <2>5. /\ Callbacks!To("start")' = Callbacks!To("start") \ {h}
        /\ Callbacks!To("respawn")' = Callbacks!To("respawn") \cup {h}
    <3>1. \A g \in Threads : s6'[g].pc = IF g = h THEN "respawn" ELSE s6[g].pc
      BY <2>1 DEF Callbacks!TypeOK
    <3> QED BY <3>1, ThreadMoves
  <2>6. Callbacks!To("start")' = Callbacks!To("start")
    BY <2>4, <2>5
  <2>7. Cardinality(Callbacks!To("respawn"))' = Cardinality(Callbacks!To("respawn")) + 1
    BY <2>4, <2>5, CallbacksFinite, OneMore
  <2> QED BY <1>2, <2>3, <2>6, <2>7, CountsAreNumbers DEF Listeners
<1> QED BY <1>4, <1>5

\* An answered call data is no listener, before and after.
LEMMA RespondCounts ==
    ASSUME Callbacks!TypeOK, Callbacks!TagInv, NEW h \in Threads, Callbacks!Respond(h)
    PROVE  Listeners' = Listeners
<1> DEFINE t == s6[h].tag
<1>1. /\ s6[h].pc = "respond" /\ UNCHANGED <<s3, s4>>
      /\ s1' = [s1 EXCEPT ![t] = "finish"]
      /\ s6' = [s6 EXCEPT ![h] = [pc |-> "next", tag |-> Callbacks!NoTag]]
  BY DEF Callbacks!Respond, Callbacks!At
<1>2. t \in Tags /\ \A e \in s5 : e.tag # t /\ e.tag \in Tags
  BY <1>1 DEF Callbacks!TypeOK, Callbacks!TagInv, Callbacks!HeldTags
<1> HIDE DEF t
<1>3. PICK new : new.tag = t /\ s5' = s5 \cup {new}
  <2>1. PICK ok \in BOOLEAN : s5' = s5 \cup {Callbacks!Event(t, ok)}
    BY DEF Callbacks!Respond, t
  <2> QED BY <1>2, <2>1, EventHas
<1>4. Callbacks!Called' = Callbacks!Called
  <2>1. s1'[t] = "finish" /\ \A e \in s5 : s1'[e.tag] = s1[e.tag]
    BY <1>1, <1>2 DEF Callbacks!TypeOK
  <2> QED BY <1>3, <2>1 DEF Callbacks!Called
<1>5. h \notin Callbacks!To("start") /\ h \notin Callbacks!To("respawn")
  BY <1>1 DEF Callbacks!To
<1>6. /\ Callbacks!To("start")' = Callbacks!To("start") \ {h}
      /\ Callbacks!To("respawn")' = Callbacks!To("respawn") \ {h}
  <2>1. \A g \in Threads : s6'[g].pc = IF g = h THEN "next" ELSE s6[g].pc
    BY <1>1 DEF Callbacks!TypeOK
  <2> QED BY <2>1, ThreadMoves
<1> QED BY <1>1, <1>4, <1>5, <1>6 DEF Listeners

LEMMA CallbacksStepCounts ==
    ASSUME Callbacks!TypeOK, Callbacks!TagInv, Callbacks!Next
    PROVE  Listeners' = Listeners
<1>1. ASSUME NEW h \in Threads, Callbacks!Start(h) PROVE Listeners' = Listeners
  <2>1. \A g \in Threads : s6'[g].pc = IF g = h THEN "next" ELSE s6[g].pc
    BY <1>1 DEF Callbacks!Start, Callbacks!At, Callbacks!TypeOK
  <2> QED BY <1>1, <2>1, CreateCounts DEF Callbacks!Start
<1>2. ASSUME NEW h \in Threads, Callbacks!Respawn(h) PROVE Listeners' = Listeners
  <2>1. \A g \in Threads : s6'[g].pc = IF g = h THEN "respond" ELSE s6[g].pc
    BY <1>2 DEF Callbacks!Respawn, Callbacks!TypeOK
  <2> QED BY <1>2, <2>1, CreateCounts DEF Callbacks!Respawn
<1>3. ASSUME NEW h \in Threads, Callbacks!TakeEvent(h) \/ Callbacks!Respond(h)
      PROVE Listeners' = Listeners
  BY <1>3, TakeEventCounts, RespondCounts
<1>4. CASE Callbacks!ProcessQueuedRequests
  BY <1>4, QuietCounts DEF Callbacks!ProcessQueuedRequests
<1>5. ASSUME NEW c \in Clients, Callbacks!Ask(c) \/ Callbacks!Die(c)
      PROVE Listeners' = Listeners
  BY <1>5, QuietCounts DEF Callbacks!Ask, Callbacks!Die
<1>6. ASSUME NEW c \in Clients, NEW t \in Tags, Callbacks!Match(c, t)
      PROVE Listeners' = Listeners
  BY <1>6, MatchCounts
<1> QED BY <1>1, <1>2, <1>3, <1>4, <1>5, <1>6 DEF Callbacks!Next, Callbacks!ThreadStep

\* ListenersStay counts them.
LEMMA ListenersCounted ==
    Callbacks!ListenersStay <=> Listeners = Cardinality(Threads)
BY SameCardinality DEF Callbacks!ListenersStay, Listeners

\* However clients come, go and die, for any number of threads, clients and
\* calls: as many call data are open for a next call, or about to be, as there are
\* threads.
THEOREM ListenersAlwaysStay == Spec => []ListenersStay
<1>1. Init => ListenersStay
  <2> SUFFICES ASSUME Callbacks!Init PROVE Callbacks!ListenersStay
    BY DEF Init, ListenersStay
  <2>1. /\ s3 \cup s4 = {} /\ Callbacks!Called = {}
        /\ Callbacks!To("start") = Threads /\ Callbacks!To("respawn") = {}
    BY DEF Callbacks!Init, Callbacks!Called, Callbacks!To, Callbacks!At
  <2>2. Cardinality(Threads) \in Nat /\ Cardinality({}) = 0
    BY CallbackAssumption, FS_CardinalityType, FS_EmptySet
  <2>3. Listeners = 0 + 0 + Cardinality(Threads) + 0
    BY <2>1, <2>2 DEF Listeners
  <2> QED BY <2>2, <2>3, ListenersCounted
<1>2. CallbacksInv /\ ListenersStay /\ [Next]_vars => ListenersStay'
  <2> SUFFICES ASSUME CallbacksInv, ListenersStay, [Next]_vars, program' = "callbacks"
               PROVE Callbacks!ListenersStay'
    BY DEF ListenersStay
  <2>1. CASE UNCHANGED vars
    BY <2>1 DEF ListenersStay, vars, Callbacks!ListenersStay, Callbacks!Called, Callbacks!To
  <2>2. CASE Next
    <3>1. program = "callbacks" /\ Callbacks!Next
      BY <2>2 DEF Next
    <3>2. Listeners' = Listeners
      BY <3>1, CallbacksStepCounts DEF CallbacksInv
    <3>3. Listeners = Cardinality(Threads)
      BY <3>1, ListenersCounted DEF ListenersStay
    <3>4. Callbacks!ListenersStay' <=> Listeners' = Cardinality(Threads)
      BY SameCardinality DEF Callbacks!ListenersStay, Listeners
    <3> QED BY <3>2, <3>3, <3>4
  <2> QED BY <2>1, <2>2
<1> QED BY <1>1, <1>2, CallbacksInvariant, PTL DEF Spec
-----------------------------------------------------------------------------
(* The table of simplecache.c: s1 the lines that are left, s2 the items, s3  *)
(* the capacity, s4 the label, s5 the key, s6 and s7 lo and hi, s8 the       *)
(* result.                                                                   *)

\* A set that has 0 and with each number the next one has all of them.
LEMMA Induction ==
    ASSUME NEW S \in SUBSET Nat, 0 \in S, \A n \in S : n + 1 \in S
    PROVE  S = Nat
<1> SUFFICES ASSUME Nat \ S # {} PROVE FALSE
  OBVIOUS
<1>1. PICK n \in Nat \ S : \A m \in Nat \ S : n <= m
  BY LeastElement
<1>2. n - 1 \in S
  BY <1>1
<1> QED BY <1>1, <1>2

\* The elements of a sequence.
LEMMA ElementIn ==
    ASSUME NEW S, NEW q \in Seq(S), NEW i \in 1 .. Len(q)
    PROVE  q[i] \in S
OBVIOUS

LEMMA HeadIn ==
    ASSUME NEW S, NEW q \in Seq(S), q # << >>
    PROVE  Head(q) \in S /\ Tail(q) \in Seq(S)
OBVIOUS

\* What qsort promises of neighbours holds of any two.
LEMMA SortedThroughout ==
    ASSUME NEW n \in Nat, NEW k \in [1 .. n -> Int],
           \A i \in 1 .. n - 1 : k[i] <= k[i + 1]
    PROVE  \A i, j \in 1 .. n : i <= j => k[i] <= k[j]
<1> DEFINE S == {d \in Nat : \A i \in 1 .. n : i + d \in 1 .. n => k[i] <= k[i + d]}
<1>1. 0 \in S
  OBVIOUS
<1>2. ASSUME NEW d \in S PROVE d + 1 \in S
  <2> SUFFICES ASSUME NEW i \in 1 .. n, i + (d + 1) \in 1 .. n PROVE k[i] <= k[i + (d + 1)]
    OBVIOUS
  <2>1. i + d \in 1 .. n - 1 /\ i + (d + 1) = (i + d) + 1
    OBVIOUS
  <2>2. k[i] <= k[i + d]
    BY <2>1
  <2>3. k[i + d] <= k[(i + d) + 1]
    BY <2>1
  <2>4. k[i] \in Int /\ k[i + d] \in Int /\ k[(i + d) + 1] \in Int
    BY <2>1
  <2> QED BY <2>1, <2>2, <2>3, <2>4
<1> HIDE DEF S
<1>3. S = Nat
  <2>1. S \in SUBSET Nat
    BY DEF S
  <2> QED BY <1>1, <1>2, <2>1, Induction
<1> SUFFICES ASSUME NEW i \in 1 .. n, NEW j \in 1 .. n, i <= j PROVE k[i] <= k[j]
  OBVIOUS
<1>4. j - i \in S /\ i + (j - i) = j
  BY <1>3
<1> QED BY <1>4 DEF S

LEMMA TableInit ==
    ASSUME Table!Init
    PROVE  Table!SearchInv
BY TableAssumption DEF Table!Init, Table!SearchInv, Table!TypeOK, Table!ItemsOK, Table!Bisected,
                       Table!LookupRight, Table!NotFound

\* There is room for each item and for one more.
LEMMA ReadLineKeeps ==
    ASSUME Table!SearchInv, Table!ReadLine
    PROVE  Table!SearchInv'
<1> DEFINE line == Head(s1)
           item == [key |-> line.key, fildes |-> Len(s2)]
<1>1. /\ s4 = "read" /\ s1 # << >> /\ s1' = Tail(s1)
      /\ UNCHANGED <<s5, s6, s7, s8>>
  BY DEF Table!ReadLine
<1>2. /\ s1 \in Seq([key : Int, opens : {"whole", "short"}, eol : BOOLEAN])
      /\ s2 \in Seq([key : Int, fildes : Nat]) /\ s3 \in Nat /\ Len(s2) < s3
      /\ s5 \in Keys /\ s8 = Table!NotFound
      /\ s6 \in 0 .. Len(s2) /\ s7 \in -1 .. Len(s2) - 1
  BY <1>1 DEF Table!SearchInv, Table!ItemsOK, Table!TypeOK
<1>3. /\ s1' \in Seq([key : Int, opens : {"whole", "short"}, eol : BOOLEAN])
      /\ line \in [key : Int, opens : {"whole", "short"}, eol : BOOLEAN]
  BY <1>1, <1>2, HeadIn
<1>4. CASE Table!Opens(line)
  <2>1. /\ s2' = Append(s2, item) /\ s3' = Table!CapacityFor(Len(s2) + 1) /\ s4' = s4
    BY <1>4 DEF Table!ReadLine
  <2>2. item \in [key : Int, fildes : Nat]
    <3>1. line.key \in Int /\ Len(s2) \in Nat
      BY <1>2, <1>3
    <3> QED BY <3>1
  <2> HIDE DEF item, line
  <2>3. s2' \in Seq([key : Int, fildes : Nat]) /\ Len(s2') = Len(s2) + 1 /\ Len(s2) \in Nat
    BY <1>2, <2>1, <2>2
  <2>4. s3' \in Nat /\ Len(s2') < s3'
    BY <1>2, <2>1, <2>3 DEF Table!CapacityFor
  <2>5. Table!TypeOK'
    BY <1>1, <1>2, <2>1, <2>3, <2>4 DEF Table!TypeOK, Table!NotFound
  <2>6. \A i \in 1 .. Len(s2') : s2'[i].fildes < Len(s2')
    <3>1. \A i \in 1 .. Len(s2) : s2[i].fildes < Len(s2) /\ s2[i].fildes \in Nat
      <4> SUFFICES ASSUME NEW i \in 1 .. Len(s2)
                   PROVE s2[i].fildes < Len(s2) /\ s2[i].fildes \in Nat
        OBVIOUS
      <4>1. s2[i] \in [key : Int, fildes : Nat]
        BY <1>2, ElementIn
      <4> QED BY <4>1 DEF Table!SearchInv, Table!ItemsOK
    <3>2. \A i \in 1 .. Len(s2) : s2'[i] = s2[i]
      BY <1>2, <2>1, <2>2
    <3>3. s2'[Len(s2) + 1] = item /\ item.fildes = Len(s2)
      BY <1>2, <2>1, <2>2 DEF item
    <3> SUFFICES ASSUME NEW i \in 1 .. Len(s2') PROVE s2'[i].fildes < Len(s2')
      OBVIOUS
    <3>4. i \in 1 .. Len(s2) \/ i = Len(s2) + 1
      BY <2>3
    <3> QED BY <2>3, <3>1, <3>2, <3>3, <3>4
  <2>7. Table!ItemsOK'
    BY <1>1, <1>2, <1>3, <2>1, <2>3, <2>4, <2>6 DEF Table!ItemsOK
  <2> QED BY <1>1, <2>1, <2>5, <2>7 DEF Table!SearchInv, Table!Bisected, Table!LookupRight
<1>5. CASE ~Table!Opens(line)
  <2>1. s4' = "exit" /\ UNCHANGED <<s2, s3>>
    BY <1>5 DEF Table!ReadLine
  <2>2. Table!TypeOK' /\ Table!ItemsOK'
    BY <1>1, <1>2, <1>3, <2>1 DEF Table!SearchInv, Table!TypeOK, Table!ItemsOK
  <2> QED BY <2>1, <2>2 DEF Table!SearchInv, Table!Bisected, Table!LookupRight
<1> QED BY <1>4, <1>5

\* Whatever order qsort gives equal keys, the array is sorted.
LEMMA SortKeeps ==
    ASSUME Table!SearchInv, Table!Sort
    PROVE  Table!SearchInv'
<1> DEFINE n == Len(s2)
<1>1. /\ s2 \in Seq([key : Int, fildes : Nat]) /\ n \in Nat /\ s4 = "read"
      /\ s1 \in Seq([key : Int, opens : {"whole", "short"}, eol : BOOLEAN])
      /\ s3 \in Nat /\ n < s3 /\ s5 \in Keys /\ s8 = Table!NotFound
  BY DEF Table!Sort, Table!SearchInv, Table!ItemsOK, Table!TypeOK
<1>2. PICK p \in Table!Bijection(1 .. n, 1 .. n) : s2' = [i \in 1 .. n |-> s2[p[i]]]
  BY DEF Table!Sort
<1>3. /\ \A i \in 1 .. n - 1 : s2'[i].key <= s2'[i + 1].key
      /\ s6' = 0 /\ s7' = n - 1 /\ s4' = "get" /\ UNCHANGED <<s1, s3, s5, s8>>
  BY DEF Table!Sort
<1>4. p \in [1 .. n -> 1 .. n]
  BY <1>2 DEF Table!Bijection, Table!Injection
<1>5. s2' \in [1 .. n -> [key : Int, fildes : Nat]]
  <2>1. \A i \in 1 .. n : s2[p[i]] \in [key : Int, fildes : Nat]
    BY <1>1, <1>4, ElementIn
  <2> QED BY <1>2, <2>1
<1>6. s2' \in Seq([key : Int, fildes : Nat]) /\ Len(s2') = n
  BY <1>1, <1>5
<1>7. \A i, j \in 1 .. n : i <= j => s2'[i].key <= s2'[j].key
  <2> DEFINE k == [i \in 1 .. n |-> s2'[i].key]
  <2>1. k \in [1 .. n -> Int]
    BY <1>5
  <2>2. \A i \in 1 .. n - 1 : k[i] <= k[i + 1]
    <3> SUFFICES ASSUME NEW i \in 1 .. n - 1 PROVE k[i] <= k[i + 1]
      OBVIOUS
    <3>1. i \in 1 .. n /\ i + 1 \in 1 .. n
      BY <1>1
    <3>2. s2'[i].key <= s2'[i + 1].key
      BY <1>3
    <3> QED BY <3>1, <3>2
  <2>3. \A i, j \in 1 .. n : i <= j => k[i] <= k[j]
    <3> HIDE DEF k, n
    <3> QED BY <1>1, <2>1, <2>2, SortedThroughout
  <2> QED BY <2>3
<1> HIDE DEF n
<1>8. Table!TypeOK' /\ Table!ItemsOK'
  <2>1. \A i \in 1 .. n : s2[i].fildes < n
    BY DEF Table!SearchInv, Table!ItemsOK, n
  <2>2. \A i \in 1 .. n : s2'[i].fildes < n
    BY <1>2, <1>4, <2>1
  <2> QED BY <1>1, <1>3, <1>6, <2>2 DEF Table!TypeOK, Table!ItemsOK
<1>9. Table!Bisected'
  BY <1>1, <1>3, <1>6, <1>7 DEF Table!Bisected
<1> QED BY <1>3, <1>8, <1>9 DEF Table!SearchInv, Table!LookupRight

\* A round excludes the half that cannot have the key.
LEMMA ProbeKeeps ==
    ASSUME Table!SearchInv, Table!Probe
    PROVE  Table!SearchInv'
<1> DEFINE n == Len(s2)
           m == Table!Middle
<1>1. /\ s2 \in Seq([key : Int, fildes : Nat]) /\ n \in Nat /\ s4 = "get"
      /\ s3 \in Nat /\ n < s3 /\ s5 \in Keys /\ s5 \in Int /\ s8 = Table!NotFound
      /\ s6 \in 0 .. n /\ s7 \in -1 .. n - 1 /\ s6 <= s7
  BY TableAssumption DEF Table!Probe, Table!Searching, Table!SearchInv, Table!ItemsOK, Table!TypeOK
<1>2. /\ \A i, j \in 1 .. n : i <= j => s2[i].key <= s2[j].key
      /\ \A i \in 1 .. s6 : s2[i].key < s5
      /\ \A i \in s7 + 2 .. n : s2[i].key > s5
  BY <1>1 DEF Table!SearchInv, Table!Bisected
<1>3. m \in s6 .. s7 /\ m \in Int
  BY <1>1 DEF Table!Middle
<1>4. UNCHANGED <<s1, s2, s3, s5>>
  BY DEF Table!Probe
<1>5. \/ s5 < s2[m + 1].key /\ s7' = m - 1 /\ UNCHANGED <<s6, s8, s4>>
      \/ s5 > s2[m + 1].key /\ s6' = m + 1 /\ UNCHANGED <<s7, s8, s4>>
      \/ s5 = s2[m + 1].key /\ s8' = s2[m + 1].fildes /\ s4' = "return" /\ UNCHANGED <<s6, s7>>
  BY DEF Table!Probe
<1> HIDE DEF m
<1>6. m + 1 \in 1 .. n
  BY <1>1, <1>3
<1>7. ASSUME NEW i \in 1 .. n PROVE s2[i] \in [key : Int, fildes : Nat] /\ s2[i].key \in Int
  <2>1. s2[i] \in [key : Int, fildes : Nat]
    BY <1>1, ElementIn
  <2> QED BY <2>1
<1>8. CASE s5 < s2[m + 1].key /\ s7' = m - 1 /\ UNCHANGED <<s6, s8, s4>>
  <2>1. ASSUME NEW i \in m + 1 .. n PROVE s2[i].key > s5
    <3>1. i \in 1 .. n /\ m + 1 <= i
      BY <1>3, <1>6
    <3>2. s2[m + 1].key <= s2[i].key
      BY <1>2, <1>6, <3>1
    <3>3. s2[i].key \in Int /\ s2[m + 1].key \in Int
      BY <1>6, <1>7, <3>1
    <3>4. s5 \in Int /\ s5 < s2[m + 1].key
      BY <1>1, <1>8
    <3> QED BY <3>2, <3>3, <3>4
  <2>2. Table!Bisected'
    BY <1>1, <1>2, <1>3, <1>4, <1>8, <2>1 DEF Table!Bisected
  <2>3. Table!TypeOK' /\ Table!ItemsOK'
    BY <1>1, <1>3, <1>4, <1>8 DEF Table!SearchInv, Table!TypeOK, Table!ItemsOK
  <2> QED BY <1>1, <1>8, <2>2, <2>3 DEF Table!SearchInv, Table!LookupRight
<1>9. CASE s5 > s2[m + 1].key /\ s6' = m + 1 /\ UNCHANGED <<s7, s8, s4>>
  <2>1. ASSUME NEW i \in 1 .. m + 1 PROVE s2[i].key < s5
    <3>1. i \in 1 .. n /\ i <= m + 1
      BY <1>1, <1>3, <1>6
    <3>2. s2[i].key <= s2[m + 1].key
      BY <1>2, <1>6, <3>1
    <3>3. s2[i].key \in Int /\ s2[m + 1].key \in Int
      BY <1>6, <1>7, <3>1
    <3>4. s5 \in Int /\ s2[m + 1].key < s5
      BY <1>1, <1>9
    <3> QED BY <3>2, <3>3, <3>4
  <2>2. Table!Bisected'
    BY <1>1, <1>2, <1>3, <1>4, <1>9, <2>1 DEF Table!Bisected
  <2>3. Table!TypeOK' /\ Table!ItemsOK'
    BY <1>1, <1>3, <1>4, <1>9 DEF Table!SearchInv, Table!TypeOK, Table!ItemsOK
  <2> QED BY <1>1, <1>9, <2>2, <2>3 DEF Table!SearchInv, Table!LookupRight
<1>10. CASE s5 = s2[m + 1].key /\ s8' = s2[m + 1].fildes /\ s4' = "return" /\ UNCHANGED <<s6, s7>>
  <2>1. s2[m + 1] \in [key : Int, fildes : Nat]
    BY <1>6, <1>7
  <2>2. s2[m + 1] = [key |-> s5, fildes |-> s8'] /\ s8' \in Nat
    BY <1>10, <2>1
  <2>3. Table!LookupRight'
    BY <1>4, <1>6, <2>2 DEF Table!LookupRight, Table!NotFound
  <2>4. Table!ItemsOK' /\ Table!Bisected'
    BY <1>1, <1>4, <1>10 DEF Table!SearchInv, Table!ItemsOK, Table!Bisected
  <2>5. s8' < n
    BY <1>6, <1>10 DEF Table!SearchInv, Table!ItemsOK
  <2>6. Table!TypeOK'
    BY <1>1, <1>4, <1>10, <2>2, <2>5 DEF Table!TypeOK
  <2> QED BY <2>3, <2>4, <2>6 DEF Table!SearchInv
<1> QED BY <1>5, <1>8, <1>9, <1>10

\* When nothing is left to search, everything is excluded.
LEMMA MissKeeps ==
    ASSUME Table!SearchInv, Table!Miss
    PROVE  Table!SearchInv'
<1>1. /\ s2 \in Seq([key : Int, fildes : Nat]) /\ s5 \in Int /\ s8 = Table!NotFound /\ s4 = "get"
      /\ s6 \in 0 .. Len(s2) /\ s7 \in -1 .. Len(s2) - 1 /\ ~(s6 <= s7)
      /\ s4' = "return" /\ UNCHANGED <<s1, s2, s3, s5, s6, s7, s8>>
  BY TableAssumption DEF Table!Miss, Table!Searching, Table!SearchInv, Table!ItemsOK, Table!TypeOK
<1>2. /\ \A i \in 1 .. s6 : s2[i].key < s5
      /\ \A i \in s7 + 2 .. Len(s2) : s2[i].key > s5
      /\ s6 <= s7 + 1
  BY <1>1 DEF Table!SearchInv, Table!Bisected
<1>3. ASSUME NEW i \in 1 .. Len(s2) PROVE s2[i].key # s5
  <2>1. s2[i] \in [key : Int, fildes : Nat]
    BY <1>1, ElementIn
  <2>2. s2[i].key \in Int
    BY <2>1
  <2>3. i \in 1 .. s6 \/ i \in s7 + 2 .. Len(s2)
    BY <1>1, <1>2
  <2>4. s2[i].key < s5 \/ s2[i].key > s5
    BY <1>2, <2>3
  <2> QED BY <1>1, <2>2, <2>4
<1>4. Table!LookupRight'
  BY <1>1, <1>3 DEF Table!LookupRight
<1>5. Table!TypeOK' /\ Table!ItemsOK' /\ Table!Bisected'
  BY <1>1 DEF Table!SearchInv, Table!TypeOK, Table!ItemsOK, Table!Bisected
<1> QED BY <1>4, <1>5 DEF Table!SearchInv

SearchesInv == program = "table" => Table!SearchInv

LEMMA SearchesInvariant == Spec => []SearchesInv
<1>1. Init => SearchesInv
  BY TableInit DEF Init, SearchesInv
<1>2. SearchesInv /\ [Next]_vars => SearchesInv'
  <2> SUFFICES ASSUME SearchesInv, [Next]_vars, program' = "table" PROVE Table!SearchInv'
    BY DEF SearchesInv
  <2>1. CASE UNCHANGED vars
    BY <2>1 DEF SearchesInv, vars, Table!SearchInv, Table!TypeOK, Table!ItemsOK,
       Table!Bisected, Table!LookupRight
  <2>2. CASE Next
    <3>1. program = "table" /\ Table!Next /\ Table!SearchInv
      BY <2>2 DEF Next, SearchesInv
    <3> QED BY <3>1, ReadLineKeeps, SortKeeps, ProbeKeeps, MissKeeps DEF Table!Next
  <2> QED BY <2>1, <2>2
<1> QED BY <1>1, <1>2, PTL DEF Spec

\* Whatever the list, its repeated keys and the order qsort gives them: a lookup
\* gives a file listed under the key, and none only when the key is not listed.
THEOREM LookupAlwaysRight == Spec => []LookupRight
<1>1. SearchesInv => LookupRight
  BY DEF SearchesInv, LookupRight, Table!SearchInv
<1> QED BY <1>1, SearchesInvariant, PTL
-----------------------------------------------------------------------------
(* Part 1 of the file service: s1 and s2 the file at the client and at the   *)
(* server, s3 the call, s4 the handlers, s5 the status, s6 disturbed, s7 the *)
(* calls and changes left.                                                   *)

\* Contents are sequences of blocks.
LEMMA TransferValues ==
    /\ \A v \in Versions \cup {Absent} : Part1!Copy(v)
    /\ << >> \in Seq(Part1!Blocks) /\ << >> # Absent
    /\ Part1!Hole \in Part1!Blocks /\ Part1!Junk \in Part1!Blocks
<1>1. \A v \in Versions \cup {Absent} : Part1!Copy(v)
  BY TransferAssumption DEF Part1!Copy
<1>2. << >> \in Seq(Part1!Blocks)
  OBVIOUS
<1>3. Part1!Hole \in Part1!Blocks /\ Part1!Junk \in Part1!Blocks
  BY DEF Part1!Blocks
<1> QED BY <1>1, <1>2, <1>3, TransferAssumption

LEMMA IdleIs ==
    /\ Part1!Idle \in Part1!HandlerStates
    /\ Part1!Idle.op = Part1!None /\ Part1!Idle.pc = "read" /\ Part1!Idle.stream = << >>
    /\ Part1!Idle.closed = FALSE /\ Part1!Idle.cancelled = FALSE /\ Part1!Idle.file = Part1!None
    /\ Part1!Idle.length = 0 /\ Part1!Idle.pos = 0
BY DEF Part1!Idle, Part1!HandlerStates, Part1!Ops

LEMMA NoCallIs ==
    /\ Part1!NoCall \in Part1!CallStates /\ Part1!NoCall.op = Part1!None
    /\ Part1!NoCall.reply = Part1!None
    /\ Part1!NoStatus \in Part1!StatusStates /\ Part1!NoStatus.op = Part1!None
    /\ Part1!NoStatus.code = Part1!None
BY DEF Part1!NoCall, Part1!CallStates, Part1!NoStatus, Part1!StatusStates, Part1!Ops

LEMMA TransferInit ==
    ASSUME Part1!Init
    PROVE  Part1!TransferInv
<1>1. Part1!Copy(s1) /\ Part1!Copy(s2)
  BY TransferValues DEF Part1!Init
<1>2. Part1!Records
  BY <1>1, IdleIs, NoCallIs DEF Part1!Init, Part1!Records
<1>3. Part1!Streams /\ Part1!Served
  BY NoCallIs, IdleIs DEF Part1!Init, Part1!Streams, Part1!Served, Part1!Serves, Part1!None
<1>4. Part1!Alone
  BY DEF Part1!Init, Part1!Alone
<1>5. Part1!Uploaded /\ Part1!Downloaded
  BY NoCallIs DEF Part1!Init, Part1!Uploaded, Part1!Downloaded, Part1!None
<1> QED BY <1>2, <1>3, <1>4, <1>5 DEF Part1!TransferInv

\* A change by the user makes the last status one of nothing.
LEMMA SaveKeeps ==
    ASSUME Part1!TransferInv, Part1!Save
    PROVE  Part1!TransferInv'
<1>1. /\ s3 = Part1!NoCall /\ s1' \in Versions \cup {Absent} /\ s5' = Part1!NoStatus
      /\ UNCHANGED <<s2, s3, s4, s6>>
  BY DEF Part1!Save
<1>2. Part1!Copy(s1') /\ Part1!Copy(s2)
  BY <1>1, TransferValues DEF Part1!TransferInv, Part1!Records
<1>3. Part1!Records'
  BY <1>1, <1>2, NoCallIs DEF Part1!TransferInv, Part1!Records, Part1!Copy
<1>4. Part1!Streams' /\ Part1!Served'
  BY <1>1, NoCallIs DEF Part1!TransferInv, Part1!Streams, Part1!Served, Part1!Serves, Part1!None
<1>5. Part1!Alone' /\ Part1!Uploaded' /\ Part1!Downloaded'
  BY <1>1, NoCallIs DEF Part1!TransferInv, Part1!Alone, Part1!Uploaded, Part1!Downloaded, Part1!None
<1> QED BY <1>3, <1>4, <1>5 DEF Part1!TransferInv

\* A new call has a handler of its own, and all others are idle unless one has
\* outlived its call.
LEMMA BeginKeeps ==
    ASSUME Part1!TransferInv, NEW op \in {"store", "fetch", "delete", "stat", "list"},
           Part1!Begin(op), UNCHANGED s2,
           \/ op = "store" /\ s1 # Absent /\ UNCHANGED s1
           \/ op = "fetch" /\ s1' = << >>
           \/ op \in {"delete", "stat", "list"} /\ UNCHANGED s1
    PROVE  Part1!TransferInv'
<1>1. PICK h \in Handlers : /\ s4[h] = Part1!Idle
                            /\ s4' = [s4 EXCEPT ![h].op = op]
                            /\ s3' = [Part1!NoCall EXCEPT !.op = op, !.handler = h]
  BY DEF Part1!Begin
<1>2. /\ s3 = Part1!NoCall /\ s5' = [op |-> op, code |-> Part1!None, before |-> s2]
      /\ s6' = (s6 \/ \E g \in Handlers : s4[g] # Part1!Idle)
  BY DEF Part1!Begin
<1>3. Part1!Records /\ Part1!Served
  BY DEF Part1!TransferInv
<1>4. /\ s3'.op = op /\ s3'.handler = h /\ s3'.done = 0 /\ s3'.reply = Part1!None
      /\ s3' # Part1!NoCall /\ s3' \in Part1!CallStates
  BY <1>1 DEF Part1!NoCall, Part1!None, Part1!CallStates, Part1!Ops
<1>5. /\ s4'[h].op = op /\ s4'[h].pc = "read" /\ s4'[h].stream = << >> /\ s4'[h].closed = FALSE
      /\ s4'[h].cancelled = FALSE /\ s4'[h].file = Part1!None /\ s4'[h].pos = 0
      /\ s4'[h].length = 0 /\ s4'[h] # Part1!Idle /\ s4'[h] \in Part1!HandlerStates
      /\ \A g \in Handlers \ {h} : s4'[g] = s4[g]
  <2>1. s4'[h] = [Part1!Idle EXCEPT !.op = op] /\ \A g \in Handlers \ {h} : s4'[g] = s4[g]
    BY <1>1, <1>3 DEF Part1!Records
  <2> QED BY <2>1, IdleIs DEF Part1!None, Part1!HandlerStates, Part1!Ops
<1>6. s5'.op = op /\ s5'.code = Part1!None /\ s5'.before = s2
  BY <1>2
<1>7. Part1!Copy(s1)'
  BY <1>3, TransferValues DEF Part1!Records, Part1!Copy, Part1!Blocks
<1>8. Part1!Records'
  <2>1. s5' \in Part1!StatusStates
    BY <1>2, <1>3 DEF Part1!Records, Part1!Copy, Part1!StatusStates, Part1!Ops
  <2>2. s4' \in [Handlers -> Part1!HandlerStates]
    BY <1>1, <1>3, <1>5 DEF Part1!Records
  <2> QED BY <1>2, <1>3, <1>4, <1>7, <2>1, <2>2 DEF Part1!Records, Part1!Copy
<1>9. Part1!Served'
  BY <1>2, <1>3, <1>4, <1>5, <1>6 DEF Part1!Served, Part1!Serves, Part1!None
<1>10. Part1!Streams'
  BY <1>4, <1>5, TransferValues DEF Part1!TransferInv, Part1!Streams, Part1!None
<1>11. ~s6' => \A g \in Handlers \ {h} : s4'[g] = Part1!Idle
  BY <1>2, <1>5
<1>12. Part1!Alone'
  BY <1>5, <1>6, <1>11 DEF Part1!Alone, Part1!None
<1>13. Part1!Uploaded'
  <2> SUFFICES ASSUME ~s6', op = "store" PROVE Part1!Uploaded'
    BY <1>6 DEF Part1!Uploaded
  <2>1. s1' = s1 /\ s1 \in Seq(Part1!Blocks)
    BY <1>3 DEF Part1!Records, Part1!Copy
  <2>2. Len(s4'[h].stream) = 0 /\ Len(s1) \in Nat
    BY <1>5, <2>1
  <2>3. Part1!Following(h, s1, s4[h].pos)'
    BY <1>5, <2>1, <2>2 DEF Part1!Following
  <2> QED BY <1>4, <1>5, <1>6, <1>11, <2>1, <2>2, <2>3
          DEF Part1!Uploaded, Part1!Serves, Part1!None
<1>14. Part1!Downloaded'
  <2> SUFFICES ASSUME ~s6', op = "fetch" PROVE Part1!Downloaded'
    BY <1>6 DEF Part1!Downloaded
  <2>1. s1' = << >> /\ << >> \in Seq(Part1!Blocks) /\ Len(<< >>) = 0
    BY TransferValues
  <2> QED BY <1>4, <1>5, <1>6, <2>1 DEF Part1!Downloaded, Part1!Serves, Part1!None
<1> QED BY <1>8, <1>9, <1>12, <1>13, <1>14, <1>10 DEF Part1!TransferInv

\* The handler of the client's call.
LEMMA CallHasHandler ==
    ASSUME Part1!TransferInv, s3 # Part1!NoCall
    PROVE  /\ s3.handler \in Handlers /\ s4[s3.handler] \in Part1!HandlerStates
           /\ s3 \in Part1!CallStates /\ s5 \in Part1!StatusStates
           /\ s3.op # Part1!None /\ s5.op = s3.op /\ s5.code = Part1!None
           /\ s4[s3.handler].op = s3.op /\ ~s4[s3.handler].cancelled
           /\ s4[s3.handler].pc = "returned" <=> s3.reply # Part1!None
           /\ s4[s3.handler] # Part1!Idle
           /\ \A h \in Handlers : Part1!Serves(h) <=> h = s3.handler
<1>1. s3.handler \in Handlers /\ Part1!Serves(s3.handler)
  BY DEF Part1!TransferInv, Part1!Served, Part1!Serves
<1>2. /\ s4[s3.handler] \in Part1!HandlerStates /\ s3 \in Part1!CallStates
      /\ s5 \in Part1!StatusStates
  BY <1>1 DEF Part1!TransferInv, Part1!Records
<1>3. /\ s3.op # Part1!None /\ s5.op = s3.op /\ s5.code = Part1!None
      /\ s4[s3.handler].op = s3.op /\ ~s4[s3.handler].cancelled
      /\ s4[s3.handler].pc = "returned" <=> s3.reply # Part1!None
  BY <1>1 DEF Part1!TransferInv, Part1!Served
<1>4. s4[s3.handler] # Part1!Idle
  BY <1>3, IdleIs
<1>5. \A h \in Handlers : Part1!Serves(h) <=> h = s3.handler
  BY DEF Part1!Serves
<1> QED BY <1>1, <1>2, <1>3, <1>4, <1>5

\* A sequence with one more element, and without its first.
LEMMA AppendIs ==
    ASSUME NEW S, NEW q \in Seq(S), NEW x \in S
    PROVE  /\ Append(q, x) \in Seq(S) /\ Len(Append(q, x)) = Len(q) + 1 /\ Len(q) \in Nat
           /\ \A i \in 1 .. Len(q) : Append(q, x)[i] = q[i]
           /\ Append(q, x)[Len(q) + 1] = x /\ Append(q, x) # << >>
OBVIOUS

LEMMA TailIs ==
    ASSUME NEW S, NEW q \in Seq(S), q # << >>
    PROVE  /\ Tail(q) \in Seq(S) /\ Len(Tail(q)) = Len(q) - 1 /\ Len(q) \in Nat \ {0}
           /\ Head(q) = q[1] /\ Head(q) \in S
           /\ \A i \in 1 .. Len(q) - 1 : Tail(q)[i] = q[i + 1]
OBVIOUS

\* While one handler goes on, the others and what is said of all of them stay.
LEMMA HandlerGoesOn ==
    ASSUME Part1!TransferInv, UNCHANGED <<s5, s6>>,
           NEW m \in Handlers, s4[m] # Part1!Idle,
           NEW k \in Part1!HandlerStates, s4' = [s4 EXCEPT ![m] = k],
           k.op = s4[m].op, k.cancelled = s4[m].cancelled, k.file \in {s4[m].file, "live"},
           k.pc = "write" => k.op = "store" /\ k.stream # << >>,
           k.file # Part1!None => k.op \in {"store", "fetch"},
           s3' \in Part1!CallStates, s3'.op = s3.op, s3'.handler = s3.handler,
           Part1!Serves(m) \/ s3' = s3,
           IF Part1!Serves(m) THEN k.pc = "returned" <=> s3'.reply # Part1!None
                              ELSE k.pc # "returned",
           Part1!Copy(s1'), s1' = s1 \/ s1' # Absent,
           Part1!Copy(s2'), s2' = s2 \/ s2' # Absent, k.file = "live" => s2' # Absent
    PROVE  /\ (Part1!Records /\ Part1!Streams /\ Part1!Served /\ Part1!Alone)'
           /\ s4'[m] = k /\ \A h \in Handlers \ {m} : s4'[h] = s4[h]
           /\ \A h \in Handlers : Part1!Serves(h)' <=> Part1!Serves(h)
<1>1. /\ s4' \in [Handlers -> Part1!HandlerStates] /\ s4'[m] = k
      /\ \A h \in Handlers \ {m} : s4'[h] = s4[h]
  BY DEF Part1!TransferInv, Part1!Records
<1>2. (s3 = Part1!NoCall <=> s3' = Part1!NoCall)
  BY CallHasHandler, NoCallIs DEF Part1!Serves
<1>3. \A h \in Handlers : Part1!Serves(h)' <=> Part1!Serves(h)
  BY <1>2 DEF Part1!Serves
<1>4. Part1!Records'
  BY <1>1 DEF Part1!TransferInv, Part1!Records, Part1!Copy
<1>5. Part1!Streams'
  BY <1>1 DEF Part1!TransferInv, Part1!Streams
<1>6. Part1!Served'
  <2>1. s3' # Part1!NoCall => /\ s3'.handler \in Handlers /\ s3'.op # Part1!None
                              /\ s5'.op = s3'.op /\ s5'.code = Part1!None
    BY <1>2, CallHasHandler
  <2>2. ASSUME NEW h \in Handlers \ {m}
        PROVE \/ ~Part1!Serves(h)' /\ s4'[h] = Part1!Idle
              \/ ~Part1!Serves(h)' /\ s4'[h].cancelled /\ s4'[h].pc # "returned"
              \/ /\ Part1!Serves(h)' /\ s4'[h].op = s3'.op /\ ~s4'[h].cancelled
                 /\ s4'[h].pc = "returned" <=> s3'.reply # Part1!None
    <3>1. Part1!Serves(h) => ~Part1!Serves(m)
      BY DEF Part1!Serves
    <3> QED BY <1>1, <1>3, <3>1 DEF Part1!TransferInv, Part1!Served
  <2>3. \/ ~Part1!Serves(m)' /\ k.cancelled /\ k.pc # "returned"
        \/ /\ Part1!Serves(m)' /\ k.op = s3'.op /\ ~k.cancelled
           /\ k.pc = "returned" <=> s3'.reply # Part1!None
    BY <1>3 DEF Part1!TransferInv, Part1!Served
  <2> QED BY <1>1, <2>1, <2>2, <2>3 DEF Part1!Served
<1>7. Part1!Alone'
  BY <1>1, IdleIs, ZenonT(60) DEF Part1!TransferInv, Part1!Alone, Part1!None
<1> QED BY <1>1, <1>3, <1>4, <1>5, <1>6, <1>7

\* What is known of the only handler of a store that is not disturbed.
LEMMA StoreAlone ==
    ASSUME Part1!TransferInv, ~s6, s5.op = "store", NEW m \in Handlers, s4[m] # Part1!Idle
    PROVE  /\ s1 \in Seq(Part1!Blocks) /\ s4[m].op = "store" /\ s4[m].file \in {Part1!None, "live"}
           /\ s5.code \in {Part1!None, "deadline exceeded"}
           /\ Part1!Following(m, s1, s4[m].pos)
           /\ s4[m].file = Part1!None => s4[m].pos = 0 /\ s2 = s5.before
           /\ s4[m].file # Part1!None => Part1!StartOf(s2, s1) /\ Len(s2) = s4[m].pos
           /\ Part1!Serves(m) => s3.done = s4[m].pos + Len(s4[m].stream)
           /\ Part1!Serves(m) /\ s4[m].closed => s3.done = Len(s1)
           /\ Part1!Serves(m) /\ s3.reply # Part1!None =>
                 s3.reply = "ok" /\ s4[m].closed /\ s4[m].stream = << >>
           /\ s2 = s5.before \/ Part1!StartOf(s2, s1)
           /\ \A h \in Handlers \ {m} : s4[h] = Part1!Idle
<1>1. s4[m] \in Part1!HandlerStates
  BY DEF Part1!TransferInv, Part1!Records
<1>2. /\ s4[m].op = "store" /\ s4[m].file \in {Part1!None, "live"}
      /\ s5.code \in {Part1!None, "deadline exceeded"}
      /\ \A h \in Handlers \ {m} : s4[h] = Part1!Idle
  BY <1>1 DEF Part1!TransferInv, Part1!Alone, Part1!HandlerStates, Part1!None
<1> QED BY <1>2 DEF Part1!TransferInv, Part1!Uploaded

\* What is to be shown of it after a step.
LEMMA StoreStaysAlone ==
    ASSUME Part1!TransferInv, UNCHANGED <<s5, s6>>,
           NEW m \in Handlers, s4[m] # Part1!Idle,
           \A h \in Handlers \ {m} : s4'[h] = s4[h],
           ~s6 /\ s5.op = "store" =>
              /\ s1' \in Seq(Part1!Blocks)
              /\ s2' = s5.before \/ Part1!StartOf(s2', s1')
              /\ Part1!Following(m, s1, s4[m].pos)'
              /\ s4'[m].file = Part1!None => s4'[m].pos = 0 /\ s2' = s5.before
              /\ s4'[m].file # Part1!None => Part1!StartOf(s2', s1') /\ Len(s2') = s4'[m].pos
              /\ Part1!Serves(m)' => s3'.done = s4'[m].pos + Len(s4'[m].stream)
              /\ Part1!Serves(m)' /\ s4'[m].closed => s3'.done = Len(s1')
              /\ Part1!Serves(m)' /\ s3'.reply # Part1!None =>
                    s3'.reply = "ok" /\ s4'[m].closed /\ s4'[m].stream = << >>
    PROVE  Part1!Uploaded'
<1> SUFFICES ASSUME ~s6, s5.op = "store" PROVE Part1!Uploaded'
  BY DEF Part1!Uploaded
<1>1. /\ \A h \in Handlers \ {m} : s4'[h] = Part1!Idle
      /\ s5.code # "ok"
  BY StoreAlone DEF Part1!None
<1> QED BY <1>1 DEF Part1!Uploaded

\* The same of the only handler of a fetch.
LEMMA FetchAlone ==
    ASSUME Part1!TransferInv, ~s6, s5.op = "fetch", NEW m \in Handlers, s4[m] # Part1!Idle
    PROVE  /\ s4[m].op = "fetch" /\ s4[m].file \in {Part1!None, "live"}
           /\ s5.code \in {Part1!None, "deadline exceeded"}
           /\ s1 = << >> \/ Part1!StartOf(s1, s2)
           /\ Part1!Serves(m) =>
                /\ s1 \in Seq(Part1!Blocks) /\ Len(s1) = s3.done
                /\ s4[m].file = Part1!None => /\ s4[m].pos = 0 /\ s4[m].stream = << >>
                                              /\ s3.done = 0
                /\ s4[m].file # Part1!None =>
                     /\ Part1!StartOf(s1, s2) /\ Part1!Following(m, s2, s3.done)
                     /\ s4[m].length = Len(s2)
                     /\ s3.done + Len(s4[m].stream) = s4[m].pos
                /\ s3.reply = "ok" => s4[m].file # Part1!None /\ s4[m].pos = s4[m].length
                /\ s3.reply = "not found" => s4[m].stream = << >> /\ s2 = Absent
           /\ \A h \in Handlers \ {m} : s4[h] = Part1!Idle
<1>1. s4[m] \in Part1!HandlerStates
  BY DEF Part1!TransferInv, Part1!Records
<1>2. /\ s4[m].op = "fetch" /\ s4[m].file \in {Part1!None, "live"}
      /\ s5.code \in {Part1!None, "deadline exceeded"}
      /\ \A h \in Handlers \ {m} : s4[h] = Part1!Idle
  BY <1>1 DEF Part1!TransferInv, Part1!Alone, Part1!HandlerStates, Part1!None
<1> QED BY <1>2 DEF Part1!TransferInv, Part1!Downloaded

LEMMA FetchStaysAlone ==
    ASSUME Part1!TransferInv, UNCHANGED <<s5, s6>>,
           NEW m \in Handlers, s4[m] # Part1!Idle,
           \A h \in Handlers \ {m} : s4'[h] = s4[h],
           \A h \in Handlers : Part1!Serves(h)' <=> Part1!Serves(h),
           ~s6 /\ s5.op = "fetch" =>
              /\ s1' = << >> \/ Part1!StartOf(s1', s2')
              /\ Part1!Serves(m) =>
                   /\ s1' \in Seq(Part1!Blocks) /\ Len(s1') = s3'.done
                   /\ s4'[m].file = Part1!None => /\ s4'[m].pos = 0 /\ s4'[m].stream = << >>
                                                  /\ s3'.done = 0
                   /\ s4'[m].file # Part1!None =>
                        /\ Part1!StartOf(s1', s2') /\ Part1!Following(m, s2, s3.done)'
                        /\ s4'[m].length = Len(s2')
                        /\ s3'.done + Len(s4'[m].stream) = s4'[m].pos
                   /\ s3'.reply = "ok" => s4'[m].file # Part1!None /\ s4'[m].pos = s4'[m].length
                   /\ s3'.reply = "not found" => s4'[m].stream = << >> /\ s2' = Absent
    PROVE  Part1!Downloaded'
<1> SUFFICES ASSUME ~s6, s5.op = "fetch" PROVE Part1!Downloaded'
  BY DEF Part1!Downloaded
<1>1. /\ \A h \in Handlers \ {m} : s4[h] = Part1!Idle
      /\ s5.code \in {Part1!None, "deadline exceeded"}
  BY FetchAlone
<1>2. \A h \in Handlers : Part1!Serves(h) => h = m
  <2> SUFFICES ASSUME NEW h \in Handlers, Part1!Serves(h) PROVE h = m
    OBVIOUS
  <2>1. s4[h] # Part1!Idle
    BY CallHasHandler DEF Part1!Serves
  <2> QED BY <1>1, <2>1
<1> QED BY <1>1, <1>2 DEF Part1!Downloaded, Part1!None

\* The operation of a handler is that of the status, when it is alone.
LEMMA OtherCalls ==
    ASSUME Part1!TransferInv, NEW m \in Handlers, s4[m] # Part1!Idle, ~s6,
           s5.op # Part1!None
    PROVE  s4[m].op = s5.op
BY DEF Part1!TransferInv, Part1!Alone

\* The handler of a call that was cancelled returns.
LEMMA CancelledReturns ==
    ASSUME Part1!TransferInv, NEW m \in Handlers, s4[m].cancelled,
           s4' = [s4 EXCEPT ![m] = Part1!Idle], UNCHANGED <<s1, s2, s3, s5, s6>>
    PROVE  Part1!TransferInv'
<1>1. s4[m] # Part1!Idle /\ ~Part1!Serves(m)
  BY IdleIs DEF Part1!TransferInv, Part1!Served
<1>2. /\ s4' \in [Handlers -> Part1!HandlerStates] /\ s4'[m] = Part1!Idle
      /\ \A h \in Handlers \ {m} : s4'[h] = s4[h]
  BY IdleIs DEF Part1!TransferInv, Part1!Records
<1>3. \A h \in Handlers : Part1!Serves(h)' <=> Part1!Serves(h)
  BY DEF Part1!Serves
<1>4. Part1!Records' /\ Part1!Streams'
  BY <1>2, IdleIs DEF Part1!TransferInv, Part1!Records, Part1!Copy, Part1!Streams, Part1!None
<1>5. Part1!Served'
  BY <1>1, <1>2, <1>3 DEF Part1!TransferInv, Part1!Served
<1>6. Part1!Alone'
  BY <1>2 DEF Part1!TransferInv, Part1!Alone
<1>7. Part1!Uploaded'
  BY <1>2, <1>3 DEF Part1!TransferInv, Part1!Uploaded, Part1!Following
<1>8. Part1!Downloaded'
  BY <1>1, <1>2, <1>3, ZenonT(60) DEF Part1!TransferInv, Part1!Downloaded, Part1!Following
<1> QED BY <1>4, <1>5, <1>6, <1>7, <1>8 DEF Part1!TransferInv

\* A block put into a content, and one put at its end.
LEMMA PutIs ==
    ASSUME NEW c \in Seq(Part1!Blocks), NEW p \in Nat, NEW b \in Part1!Blocks
    PROVE  /\ Part1!Put(c, p, b) \in Seq(Part1!Blocks) /\ Part1!Put(c, p, b) # Absent
           /\ p = Len(c) => /\ Len(Part1!Put(c, p, b)) = p + 1
                            /\ \A i \in 1 .. p : Part1!Put(c, p, b)[i] = c[i]
                            /\ Part1!Put(c, p, b)[p + 1] = b
<1> DEFINE n == IF p < Len(c) THEN Len(c) ELSE p + 1
           q == [i \in 1 .. n |-> IF i = p + 1 THEN b ELSE IF i <= Len(c) THEN c[i] ELSE Part1!Hole]
<1>1. Part1!Put(c, p, b) = q
  BY DEF Part1!Put
<1>2. n \in Nat /\ Len(c) \in Nat
  OBVIOUS
<1>3. \A i \in 1 .. n : q[i] \in Part1!Blocks
  <2> SUFFICES ASSUME NEW i \in 1 .. n PROVE q[i] \in Part1!Blocks
    OBVIOUS
  <2>1. i <= Len(c) => c[i] \in Part1!Blocks
    BY <1>2, ElementIn
  <2> QED BY <2>1, TransferValues
<1>4. q \in Seq(Part1!Blocks) /\ Len(q) = n
  <2> HIDE DEF n
  <2>1. q \in [1 .. n -> Part1!Blocks]
    BY <1>3
  <2> HIDE DEF q
  <2> QED BY <1>2, <2>1
<1>5. q # Absent
  BY <1>4, TransferAssumption
<1>6. p = Len(c) => n = p + 1 /\ (\A i \in 1 .. p : q[i] = c[i]) /\ q[p + 1] = b
  BY <1>2
<1> HIDE DEF n, q
<1> QED BY <1>1, <1>4, <1>5, <1>6

LEMMA PutStarts ==
    ASSUME NEW x, NEW y, Part1!StartOf(x, y), Len(x) < Len(y), NEW p, p = Len(x)
    PROVE  /\ Part1!StartOf(Part1!Put(x, p, y[p + 1]), y)
           /\ Len(Part1!Put(x, p, y[p + 1])) = p + 1
<1>1. /\ x \in Seq(Part1!Blocks) /\ y \in Seq(Part1!Blocks) /\ p \in Nat /\ Len(y) \in Nat
      /\ \A i \in 1 .. p : x[i] = y[i]
  BY DEF Part1!StartOf
<1>2. y[p + 1] \in Part1!Blocks
  <2>1. p + 1 \in 1 .. Len(y)
    BY <1>1
  <2> QED BY <1>1, <2>1, ElementIn
<1> DEFINE q == Part1!Put(x, p, y[p + 1])
<1>3. /\ q \in Seq(Part1!Blocks) /\ Len(q) = p + 1
      /\ \A i \in 1 .. p : q[i] = x[i]
      /\ q[p + 1] = y[p + 1]
  <2>1. \A b \in Part1!Blocks :
           /\ Part1!Put(x, p, b) \in Seq(Part1!Blocks) /\ Len(Part1!Put(x, p, b)) = p + 1
           /\ \A i \in 1 .. p : Part1!Put(x, p, b)[i] = x[i]
           /\ Part1!Put(x, p, b)[p + 1] = b
    BY <1>1, PutIs, ZenonT(60)
  <2> QED BY <1>2, <2>1
<1> HIDE DEF q
<1>4. Len(q) <= Len(y)
  BY <1>1, <1>3
<1>5. \A i \in 1 .. p + 1 : q[i] = y[i]
  BY <1>1, <1>3
<1>6. Part1!StartOf(q, y)
  BY <1>1, <1>3, <1>4, <1>5 DEF Part1!StartOf
<1> QED BY <1>3, <1>6 DEF q

\* The stream of a handler gets the next block of the file, or loses the first.
LEMMA StreamGrows ==
    ASSUME NEW q \in Seq(Part1!Blocks), NEW file \in Seq(Part1!Blocks), NEW from \in Nat,
           from + Len(q) < Len(file),
           \A i \in 1 .. Len(q) : q[i] = file[from + i],
           NEW r, r = Append(q, file[from + Len(q) + 1])
    PROVE  /\ r \in Seq(Part1!Blocks) /\ r # << >> /\ Len(r) = Len(q) + 1
           /\ from + Len(r) <= Len(file)
           /\ \A i \in 1 .. Len(r) : r[i] = file[from + i]
<1>1. Len(q) \in Nat /\ Len(file) \in Nat
  OBVIOUS
<1>2. file[from + Len(q) + 1] \in Part1!Blocks
  <2>1. from + Len(q) + 1 \in 1 .. Len(file)
    BY <1>1
  <2> QED BY <2>1, ElementIn
<1>3. /\ r \in Seq(Part1!Blocks) /\ Len(r) = Len(q) + 1
      /\ \A i \in 1 .. Len(q) : r[i] = q[i]
      /\ r[Len(q) + 1] = file[from + Len(q) + 1]
  BY <1>2, AppendIs
<1>4. \A i \in 1 .. Len(r) : r[i] = file[from + i]
  <2> SUFFICES ASSUME NEW i \in 1 .. Len(q) + 1 PROVE r[i] = file[from + i]
    BY <1>3
  <2>1. CASE i \in 1 .. Len(q)
    BY <2>1, <1>3
  <2>2. CASE i = Len(q) + 1
    <3>1. from + i = from + Len(q) + 1
      BY <2>2, <1>1
    <3> QED BY <2>2, <3>1, <1>3
  <2> QED BY <2>1, <2>2, <1>1
<1>5. from + Len(r) <= Len(file) /\ r # << >>
  BY <1>1, <1>3
<1> QED BY <1>3, <1>4, <1>5

LEMMA StreamShrinks ==
    ASSUME NEW q \in Seq(Part1!Blocks), q # << >>,
           NEW file \in Seq(Part1!Blocks), NEW from \in Nat,
           from + Len(q) <= Len(file), \A i \in 1 .. Len(q) : q[i] = file[from + i]
    PROVE  /\ Head(q) = file[from + 1] /\ from < Len(file)
           /\ from + 1 + Len(Tail(q)) <= Len(file) /\ Len(Tail(q)) = Len(q) - 1
           /\ \A i \in 1 .. Len(Tail(q)) : Tail(q)[i] = file[from + 1 + i]
<1>1. /\ Tail(q) \in Seq(Part1!Blocks) /\ Len(Tail(q)) = Len(q) - 1 /\ Len(q) \in Nat \ {0}
      /\ Head(q) = q[1]
      /\ \A i \in 1 .. Len(q) - 1 : Tail(q)[i] = q[i + 1]
  BY TailIs
<1>2. Len(file) \in Nat
  OBVIOUS
<1>3. Head(q) = file[from + 1]
  BY <1>1
<1>4. from < Len(file) /\ from + 1 + Len(Tail(q)) <= Len(file)
  BY <1>1, <1>2
<1>5. \A i \in 1 .. Len(Tail(q)) : Tail(q)[i] = file[from + 1 + i]
  <2> SUFFICES ASSUME NEW i \in 1 .. Len(q) - 1 PROVE Tail(q)[i] = file[from + 1 + i]
    BY <1>1
  <2>1. i + 1 \in 1 .. Len(q) /\ from + (i + 1) = from + 1 + i
    BY <1>1
  <2>2. q[i + 1] = file[from + (i + 1)]
    BY <2>1
  <2> QED BY <2>1, <2>2, <1>1
<1> QED BY <1>1, <1>3, <1>4, <1>5

\* The client of a store hands over the next block of its file.
LEMMA SendBlockKeeps ==
    ASSUME Part1!TransferInv, Part1!SendBlock
    PROVE  Part1!TransferInv'
<1>0. PICK m : m = s3.handler
  OBVIOUS
<1> DEFINE k == [s4[m] EXCEPT !.stream = Append(@, s1[s3.done + 1])]
<1>1. /\ s3.op = "store" /\ s3.done < Len(s1) /\ s4' = [s4 EXCEPT ![m] = k]
      /\ s3' = [s3 EXCEPT !.done = @ + 1] /\ UNCHANGED <<s1, s2, s5, s6>>
  BY <1>0 DEF Part1!SendBlock, Part1!Mine
<1>2. /\ s3 # Part1!NoCall /\ m \in Handlers /\ s4[m] \in Part1!HandlerStates
      /\ s3 \in Part1!CallStates /\ Part1!Serves(m) /\ s4[m] # Part1!Idle
      /\ s5.op = "store" /\ s4[m].op = "store"
      /\ s4[m].pc = "returned" <=> s3.reply # Part1!None
  <2>1. s3 # Part1!NoCall
    BY <1>1, NoCallIs DEF Part1!None
  <2> QED BY <1>0, <1>1, <2>1, CallHasHandler
<1>3. s1 \in Seq(Part1!Blocks) /\ s3.done \in Nat /\ s4[m].stream \in Seq(Part1!Blocks)
      /\ Part1!Copy(s2) /\ s4[m].pos \in Nat
  <2>1. s1 # Absent /\ Part1!Copy(s1) /\ Part1!Copy(s2)
    BY <1>1 DEF Part1!TransferInv, Part1!Records, Part1!Streams
  <2> QED BY <1>2, <2>1 DEF Part1!Copy, Part1!CallStates, Part1!HandlerStates
<1>4. s1[s3.done + 1] \in Part1!Blocks
  <2>1. s3.done + 1 \in 1 .. Len(s1)
    BY <1>1, <1>3
  <2> QED BY <1>3, <2>1, ElementIn
<1>5. /\ k \in Part1!HandlerStates /\ k.op = s4[m].op /\ k.cancelled = s4[m].cancelled
      /\ k.file = s4[m].file /\ k.pc = s4[m].pc /\ k.closed = s4[m].closed /\ k.pos = s4[m].pos
      /\ k.stream = Append(s4[m].stream, s1[s3.done + 1]) /\ k.stream # << >>
  <2>1. Append(s4[m].stream, s1[s3.done + 1]) \in Seq(Part1!Blocks)
        /\ Append(s4[m].stream, s1[s3.done + 1]) # << >>
    BY <1>3, <1>4, AppendIs, SMTT(30)
  <2> QED BY <1>2, <2>1 DEF Part1!HandlerStates
<1>6. /\ s3' \in Part1!CallStates /\ s3'.op = s3.op /\ s3'.handler = s3.handler
      /\ s3'.reply = s3.reply /\ s3'.done = s3.done + 1
  <2>1. s3 \in Part1!CallStates /\ s3.done + 1 \in Nat /\ s3' = [s3 EXCEPT !.done = @ + 1]
    BY <1>1, <1>2, <1>3
  <2> QED BY <2>1 DEF Part1!CallStates
<1>7. k.file = "live" => s2 # Absent
  BY <1>2, <1>5 DEF Part1!TransferInv, Part1!Streams
<1> HIDE DEF k
<1>8. /\ (Part1!Records /\ Part1!Streams /\ Part1!Served /\ Part1!Alone)'
      /\ s4'[m] = k /\ \A h \in Handlers \ {m} : s4'[h] = s4[h]
      /\ \A h \in Handlers : Part1!Serves(h)' <=> Part1!Serves(h)
  <2>1. Part1!Copy(s1') /\ Part1!Copy(s2')
    BY <1>1, <1>3 DEF Part1!Copy
  <2>2. k.file # Part1!None => k.op \in {"store", "fetch"}
    BY <1>2, <1>5
  <2>3. k.pc = "write" => k.op = "store" /\ k.stream # << >>
    BY <1>2, <1>5
  <2> QED BY <1>1, <1>2, <1>5, <1>6, <1>7, <2>1, <2>2, <2>3, HandlerGoesOn
<1>9. Part1!Uploaded'
  <2> SUFFICES ASSUME ~s6
      PROVE  /\ s1' \in Seq(Part1!Blocks)
             /\ s2' = s5.before \/ Part1!StartOf(s2', s1')
             /\ Part1!Following(m, s1, s4[m].pos)'
             /\ s4'[m].file = Part1!None => s4'[m].pos = 0 /\ s2' = s5.before
             /\ s4'[m].file # Part1!None => Part1!StartOf(s2', s1') /\ Len(s2') = s4'[m].pos
             /\ Part1!Serves(m)' => s3'.done = s4'[m].pos + Len(s4'[m].stream)
             /\ Part1!Serves(m)' /\ s4'[m].closed => s3'.done = Len(s1')
             /\ Part1!Serves(m)' /\ s3'.reply # Part1!None =>
                   s3'.reply = "ok" /\ s4'[m].closed /\ s4'[m].stream = << >>
    BY <1>1, <1>2, <1>8, StoreStaysAlone
  <2>1. /\ Part1!Following(m, s1, s4[m].pos)
        /\ s4[m].file = Part1!None => s4[m].pos = 0 /\ s2 = s5.before
        /\ s4[m].file # Part1!None => Part1!StartOf(s2, s1) /\ Len(s2) = s4[m].pos
        /\ s3.done = s4[m].pos + Len(s4[m].stream)
        /\ s4[m].closed => s3.done = Len(s1)
        /\ s3.reply # Part1!None => s4[m].closed
        /\ s2 = s5.before \/ Part1!StartOf(s2, s1)
    BY <1>2, StoreAlone
  <2>2. ~s4[m].closed /\ s3.reply = Part1!None
    BY <1>1, <1>3, <2>1
  <2>3. /\ Len(k.stream) = Len(s4[m].stream) + 1
        /\ s4[m].pos + Len(k.stream) <= Len(s1)
        /\ \A i \in 1 .. Len(k.stream) : k.stream[i] = s1[s4[m].pos + i]
    <3>1. Len(s4[m].stream) \in Nat /\ s4[m].pos + Len(s4[m].stream) < Len(s1)
      BY <1>1, <1>3, <2>1
    <3>2. k.stream = Append(s4[m].stream, s1[s4[m].pos + Len(s4[m].stream) + 1])
      BY <1>5, <2>1
    <3>3. \A i \in 1 .. Len(s4[m].stream) : s4[m].stream[i] = s1[s4[m].pos + i]
      BY <2>1 DEF Part1!Following
    <3>4. s1 \in Seq(Part1!Blocks) /\ s4[m].stream \in Seq(Part1!Blocks) /\ s4[m].pos \in Nat
      BY <1>3
    <3>5. PICK q, file, from, r :
             q = s4[m].stream /\ file = s1 /\ from = s4[m].pos /\ r = k.stream
      OBVIOUS
    <3>6. /\ q \in Seq(Part1!Blocks) /\ file \in Seq(Part1!Blocks) /\ from \in Nat
          /\ from + Len(q) < Len(file)
          /\ \A i \in 1 .. Len(q) : q[i] = file[from + i]
          /\ r = Append(q, file[from + Len(q) + 1])
      BY <3>1, <3>2, <3>3, <3>4, <3>5
    <3>7. /\ Len(r) = Len(q) + 1 /\ from + Len(r) <= Len(file)
          /\ \A i \in 1 .. Len(r) : r[i] = file[from + i]
      BY <3>6, StreamGrows
    <3> QED BY <3>5, <3>7
  <2>4. Part1!Following(m, s1, s4[m].pos)'
    BY <1>1, <1>5, <1>8, <2>3 DEF Part1!Following
  <2>5. s3'.done = s4'[m].pos + Len(s4'[m].stream)
    <3>1. Len(s4[m].stream) \in Nat
      BY <1>3
    <3>2. /\ s3'.done = s3.done + 1 /\ s4'[m].pos = s4[m].pos
          /\ Len(s4'[m].stream) = Len(s4[m].stream) + 1
      BY <1>5, <1>6, <1>8, <2>3
    <3> QED BY <1>3, <2>1, <3>1, <3>2
  <2> QED BY <1>1, <1>3, <1>5, <1>6, <1>8, <2>1, <2>2, <2>4, <2>5
<1>10. Part1!Downloaded'
  BY <1>1, <1>2 DEF Part1!Downloaded
<1> QED BY <1>8, <1>9, <1>10 DEF Part1!TransferInv

\* It has no more.
LEMMA WritesDoneKeeps ==
    ASSUME Part1!TransferInv, Part1!WritesDone
    PROVE  Part1!TransferInv'
<1>0. PICK m : m = s3.handler
  OBVIOUS
<1> DEFINE k == [s4[m] EXCEPT !.closed = TRUE]
<1>1. /\ s3.op = "store" /\ s3.done = Len(s1) /\ s4' = [s4 EXCEPT ![m] = k]
      /\ s3.reply = Part1!None /\ UNCHANGED <<s1, s2, s3, s5, s6>>
  BY <1>0 DEF Part1!WritesDone, Part1!Mine
<1>2. /\ s3 # Part1!NoCall /\ m \in Handlers /\ s4[m] \in Part1!HandlerStates
      /\ s3 \in Part1!CallStates /\ Part1!Serves(m) /\ s4[m] # Part1!Idle
      /\ s5.op = "store" /\ s4[m].op = "store"
      /\ s4[m].pc = "returned" <=> s3.reply # Part1!None
  <2>1. s3 # Part1!NoCall
    BY <1>1, NoCallIs DEF Part1!None
  <2> QED BY <1>0, <1>1, <2>1, CallHasHandler
<1>3. /\ k \in Part1!HandlerStates /\ k.op = s4[m].op /\ k.cancelled = s4[m].cancelled
      /\ k.file = s4[m].file /\ k.pc = s4[m].pc /\ k.pos = s4[m].pos
      /\ k.stream = s4[m].stream
  BY <1>2 DEF Part1!HandlerStates
<1>4. k.file = "live" => s2 # Absent
  BY <1>2, <1>3 DEF Part1!TransferInv, Part1!Streams
<1>5. k.pc = "write" => k.op = "store" /\ k.stream # << >>
  BY <1>2, <1>3 DEF Part1!TransferInv, Part1!Streams
<1> HIDE DEF k
<1>6. /\ (Part1!Records /\ Part1!Streams /\ Part1!Served /\ Part1!Alone)'
      /\ s4'[m] = k /\ \A h \in Handlers \ {m} : s4'[h] = s4[h]
      /\ \A h \in Handlers : Part1!Serves(h)' <=> Part1!Serves(h)
  <2>1. Part1!Copy(s1') /\ Part1!Copy(s2')
    BY <1>1 DEF Part1!TransferInv, Part1!Records, Part1!Copy
  <2> QED BY <1>1, <1>2, <1>3, <1>4, <1>5, <2>1, HandlerGoesOn
<1>7. Part1!Uploaded'
  <2> SUFFICES ASSUME ~s6
      PROVE  /\ s1' \in Seq(Part1!Blocks)
             /\ s2' = s5.before \/ Part1!StartOf(s2', s1')
             /\ Part1!Following(m, s1, s4[m].pos)'
             /\ s4'[m].file = Part1!None => s4'[m].pos = 0 /\ s2' = s5.before
             /\ s4'[m].file # Part1!None => Part1!StartOf(s2', s1') /\ Len(s2') = s4'[m].pos
             /\ Part1!Serves(m)' => s3'.done = s4'[m].pos + Len(s4'[m].stream)
             /\ Part1!Serves(m)' /\ s4'[m].closed => s3'.done = Len(s1')
             /\ Part1!Serves(m)' /\ s3'.reply # Part1!None =>
                   s3'.reply = "ok" /\ s4'[m].closed /\ s4'[m].stream = << >>
    BY <1>1, <1>2, <1>6, StoreStaysAlone
  <2>1. /\ s1 \in Seq(Part1!Blocks) /\ Part1!Following(m, s1, s4[m].pos)
        /\ s4[m].file = Part1!None => s4[m].pos = 0 /\ s2 = s5.before
        /\ s4[m].file # Part1!None => Part1!StartOf(s2, s1) /\ Len(s2) = s4[m].pos
        /\ s3.done = s4[m].pos + Len(s4[m].stream)
        /\ s2 = s5.before \/ Part1!StartOf(s2, s1)
    BY <1>2, StoreAlone
  <2>2. Part1!Following(m, s1, s4[m].pos)'
    BY <1>1, <1>3, <1>6, <2>1 DEF Part1!Following
  <2> QED BY <1>1, <1>3, <1>6, <2>1, <2>2
<1>8. Part1!Downloaded'
  BY <1>1, <1>2 DEF Part1!Downloaded
<1> QED BY <1>6, <1>7, <1>8 DEF Part1!TransferInv

\* The client of a fetch takes a block and puts it behind those it has.
LEMMA ReceiveBlockKeeps ==
    ASSUME Part1!TransferInv, Part1!ReceiveBlock
    PROVE  Part1!TransferInv'
<1>0. PICK m : m = s3.handler
  OBVIOUS
<1> DEFINE k == [s4[m] EXCEPT !.stream = Tail(@)]
<1>1. /\ s3.op = "fetch" /\ s4[m].stream # << >> /\ s4' = [s4 EXCEPT ![m] = k]
      /\ s1' = Part1!Put(s1, s3.done, Head(s4[m].stream))
      /\ s3' = [s3 EXCEPT !.done = @ + 1] /\ UNCHANGED <<s2, s5, s6>>
  BY <1>0 DEF Part1!ReceiveBlock, Part1!Mine
<1>2. /\ s3 # Part1!NoCall /\ m \in Handlers /\ s4[m] \in Part1!HandlerStates
      /\ s3 \in Part1!CallStates /\ Part1!Serves(m) /\ s4[m] # Part1!Idle
      /\ s5.op = "fetch" /\ s4[m].op = "fetch"
      /\ s4[m].pc = "returned" <=> s3.reply # Part1!None
  <2>1. s3 # Part1!NoCall
    BY <1>1, NoCallIs DEF Part1!None
  <2> QED BY <1>0, <1>1, <2>1, CallHasHandler
<1>3. s1 \in Seq(Part1!Blocks) /\ s3.done \in Nat /\ s4[m].stream \in Seq(Part1!Blocks)
      /\ Part1!Copy(s2) /\ s4[m].pos \in Nat
  <2>1. s1 # Absent /\ Part1!Copy(s1) /\ Part1!Copy(s2)
    BY <1>1 DEF Part1!TransferInv, Part1!Records, Part1!Streams
  <2> QED BY <1>2, <2>1 DEF Part1!Copy, Part1!CallStates, Part1!HandlerStates
<1>4. Tail(s4[m].stream) \in Seq(Part1!Blocks) /\ Head(s4[m].stream) \in Part1!Blocks
  BY <1>1, <1>3, TailIs
<1>5. /\ k \in Part1!HandlerStates /\ k.op = s4[m].op /\ k.cancelled = s4[m].cancelled
      /\ k.file = s4[m].file /\ k.pc = s4[m].pc /\ k.pos = s4[m].pos /\ k.length = s4[m].length
      /\ k.stream = Tail(s4[m].stream)
  BY <1>2, <1>4 DEF Part1!HandlerStates
<1>6. /\ s3' \in Part1!CallStates /\ s3'.op = s3.op /\ s3'.handler = s3.handler
      /\ s3'.reply = s3.reply /\ s3'.done = s3.done + 1
  <2>1. s3 \in Part1!CallStates /\ s3.done + 1 \in Nat /\ s3' = [s3 EXCEPT !.done = @ + 1]
    BY <1>1, <1>2, <1>3
  <2> QED BY <2>1 DEF Part1!CallStates
<1>7. k.file = "live" => s2 # Absent
  BY <1>2, <1>5 DEF Part1!TransferInv, Part1!Streams
<1>8. k.pc # "write"
  BY <1>2, <1>5 DEF Part1!TransferInv, Part1!Streams
<1> HIDE DEF k
<1>9. s1' \in Seq(Part1!Blocks) /\ s1' # Absent
  BY <1>1, <1>3, <1>4, PutIs
<1>10. /\ (Part1!Records /\ Part1!Streams /\ Part1!Served /\ Part1!Alone)'
       /\ s4'[m] = k /\ \A h \in Handlers \ {m} : s4'[h] = s4[h]
       /\ \A h \in Handlers : Part1!Serves(h)' <=> Part1!Serves(h)
  <2>1. Part1!Copy(s1') /\ Part1!Copy(s2')
    BY <1>1, <1>3, <1>9 DEF Part1!Copy
  <2>2. k.file # Part1!None => k.op \in {"store", "fetch"}
    BY <1>2, <1>5
  <2> QED BY <1>1, <1>2, <1>5, <1>6, <1>7, <1>8, <1>9, <2>1, <2>2, HandlerGoesOn
<1>11. Part1!Downloaded'
  <2> SUFFICES ASSUME ~s6
      PROVE  /\ s1' = << >> \/ Part1!StartOf(s1', s2')
             /\ s1' \in Seq(Part1!Blocks) /\ Len(s1') = s3'.done
             /\ s4'[m].file = Part1!None => /\ s4'[m].pos = 0 /\ s4'[m].stream = << >>
                                            /\ s3'.done = 0
             /\ s4'[m].file # Part1!None =>
                  /\ Part1!StartOf(s1', s2') /\ Part1!Following(m, s2, s3.done)'
                  /\ s4'[m].length = Len(s2')
                  /\ s3'.done + Len(s4'[m].stream) = s4'[m].pos
             /\ s3'.reply = "ok" => s4'[m].file # Part1!None /\ s4'[m].pos = s4'[m].length
             /\ s3'.reply = "not found" => s4'[m].stream = << >> /\ s2' = Absent
    BY <1>1, <1>2, <1>10, FetchStaysAlone
  <2>1. /\ Len(s1) = s3.done
        /\ s4[m].file = Part1!None => s4[m].stream = << >>
        /\ s4[m].file # Part1!None =>
             /\ Part1!StartOf(s1, s2) /\ Part1!Following(m, s2, s3.done)
             /\ s4[m].length = Len(s2)
             /\ s3.done + Len(s4[m].stream) = s4[m].pos
        /\ s3.reply = "ok" => s4[m].pos = s4[m].length
        /\ s3.reply = "not found" => s4[m].stream = << >>
    BY <1>2, FetchAlone
  <2>2. /\ s4[m].file # Part1!None /\ Part1!StartOf(s1, s2) /\ Part1!Following(m, s2, s3.done)
        /\ s4[m].length = Len(s2) /\ s3.done + Len(s4[m].stream) = s4[m].pos
        /\ s3.reply # "not found"
    BY <1>1, <2>1
  <2>3. PICK q, file, from : q = s4[m].stream /\ file = s2 /\ from = s3.done
    OBVIOUS
  <2>4. /\ q \in Seq(Part1!Blocks) /\ q # << >> /\ file \in Seq(Part1!Blocks) /\ from \in Nat
        /\ from + Len(q) <= Len(file)
        /\ \A i \in 1 .. Len(q) : q[i] = file[from + i]
    BY <1>1, <1>3, <2>2, <2>3 DEF Part1!StartOf, Part1!Following
  <2>5. /\ Head(q) = file[from + 1] /\ from < Len(file)
        /\ from + 1 + Len(Tail(q)) <= Len(file) /\ Len(Tail(q)) = Len(q) - 1
        /\ \A i \in 1 .. Len(Tail(q)) : Tail(q)[i] = file[from + 1 + i]
    BY <2>4, StreamShrinks
  <2>6. Part1!StartOf(s1', s2') /\ Len(s1') = s3.done + 1
    <3>1. Part1!StartOf(s1, file) /\ Len(s1) < Len(file) /\ from = Len(s1)
      BY <2>1, <2>2, <2>3, <2>5
    <3>2. /\ Part1!StartOf(Part1!Put(s1, from, file[from + 1]), file)
          /\ Len(Part1!Put(s1, from, file[from + 1])) = from + 1
      BY <3>1, PutStarts
    <3> QED BY <1>1, <2>3, <2>5, <3>2
  <2>7. s4'[m].stream = Tail(q) /\ s4'[m].pos = s4[m].pos /\ s3'.done = from + 1 /\ s2' = file
    BY <1>1, <1>5, <1>6, <1>10, <2>3
  <2>8. Part1!Following(m, s2, s3.done)'
    BY <2>5, <2>7 DEF Part1!Following
  <2>9. s3'.done + Len(s4'[m].stream) = s4'[m].pos
    <3>1. Len(q) \in Nat /\ from \in Nat
      BY <2>4
    <3>2. from + Len(q) = s4[m].pos
      BY <2>2, <2>3
    <3>3. from + 1 + (Len(q) - 1) = from + Len(q)
      BY <3>1
    <3>4. Len(Tail(q)) = Len(q) - 1
      BY <2>5
    <3>5. from + 1 + Len(Tail(q)) = s4[m].pos
      BY <3>2, <3>3, <3>4, Zenon
    <3> QED BY <2>7, <3>5
  <2>10. s4'[m].length = Len(s2') /\ s4'[m].file = s4[m].file
    BY <1>1, <1>5, <1>10, <2>2
  <2> QED BY <1>5, <1>6, <1>9, <1>10, <2>1, <2>2, <2>6, <2>8, <2>9, <2>10
<1>12. Part1!Uploaded'
  BY <1>1, <1>2 DEF Part1!Uploaded
<1> QED BY <1>10, <1>11, <1>12 DEF Part1!TransferInv

\* A handler whose file does not open, or to which it cannot write, goes on without.
LEMMA UploadFailsKeeps ==
    ASSUME Part1!TransferInv, NEW m \in Handlers, Part1!UploadFails(m)
    PROVE  Part1!TransferInv'
<1> DEFINE k == [s4[m] EXCEPT !.pc = "read", !.file = "gone", !.stream = Tail(@), !.pos = @ + 1]
<1>1. /\ s4[m].op = "store" /\ s4[m].pc = "write" /\ UNCHANGED <<s1, s3, s5>>
      /\ s4' = [s4 EXCEPT ![m] = k] /\ s2' \in {s2, << >>} /\ s6' = TRUE
  BY DEF Part1!UploadFails
<1>2. /\ s4[m] \in Part1!HandlerStates /\ s3 \in Part1!CallStates /\ s4[m] # Part1!Idle
      /\ s4[m].stream # << >> /\ s4[m].stream \in Seq(Part1!Blocks) /\ s4[m].pos \in Nat
      /\ Part1!Copy(s1) /\ Part1!Copy(s2) /\ s4 \in [Handlers -> Part1!HandlerStates]
  <2>1. s4[m] \in Part1!HandlerStates /\ s3 \in Part1!CallStates
        /\ Part1!Copy(s1) /\ Part1!Copy(s2) /\ s4 \in [Handlers -> Part1!HandlerStates]
    BY DEF Part1!TransferInv, Part1!Records
  <2>2. s4[m] # Part1!Idle
    BY <1>1, IdleIs
  <2>3. s4[m].stream # << >>
    BY <1>1 DEF Part1!TransferInv, Part1!Streams
  <2>4. s4[m].stream \in Seq(Part1!Blocks) /\ s4[m].pos \in Nat
    BY <2>1 DEF Part1!HandlerStates
  <2> QED BY <2>1, <2>2, <2>3, <2>4
<1>3. Tail(s4[m].stream) \in Seq(Part1!Blocks)
  BY <1>2, TailIs
<1>4. /\ k \in Part1!HandlerStates /\ k.op = "store" /\ k.cancelled = s4[m].cancelled
      /\ k.file = "gone" /\ k.pc = "read"
  <2>1. /\ s4[m] \in Part1!HandlerStates /\ s4[m].pos + 1 \in Nat
        /\ Tail(s4[m].stream) \in Seq(Part1!Blocks) /\ s4[m].op = "store"
    BY <1>1, <1>2, <1>3
  <2> QED BY <2>1 DEF Part1!HandlerStates
<1> HIDE DEF k
<1>5. /\ s4' \in [Handlers -> Part1!HandlerStates] /\ s4'[m] = k
      /\ \A h \in Handlers \ {m} : s4'[h] = s4[h]
  BY <1>1, <1>2, <1>4
<1>6. Part1!Copy(s2') /\ (s2' = Absent => s2 = Absent)
  <2>1. << >> \in Seq(Part1!Blocks)
    OBVIOUS
  <2> QED BY <1>1, <1>2, <2>1, TransferValues DEF Part1!Copy
<1>7. Part1!Records'
  BY <1>1, <1>2, <1>5, <1>6 DEF Part1!TransferInv, Part1!Records, Part1!Copy
<1>8. Part1!Streams'
  <2>1. s3'.op \in {"store", "fetch"} => s1' # Absent
    BY <1>1 DEF Part1!TransferInv, Part1!Streams
  <2>2. ASSUME NEW h \in Handlers \ {m}
        PROVE  /\ s4'[h].pc = "write" => s4'[h].op = "store" /\ s4'[h].stream # << >>
               /\ s4'[h].file # Part1!None => s4'[h].op \in {"store", "fetch"}
               /\ s4'[h].file = "live" => s2' # Absent
    BY <1>5, <1>6 DEF Part1!TransferInv, Part1!Streams
  <2> QED BY <1>4, <1>5, <2>1, <2>2 DEF Part1!Streams
<1>9. Part1!Served'
  <2>1. \A h \in Handlers : Part1!Serves(h)' <=> Part1!Serves(h)
    BY <1>1 DEF Part1!Serves
  <2>2. k.op = s4[m].op /\ k # Part1!Idle
    BY <1>1, <1>4, IdleIs
  <2>3. \/ ~Part1!Serves(m) /\ k.cancelled /\ k.pc # "returned"
        \/ /\ Part1!Serves(m) /\ k.op = s3.op /\ ~k.cancelled
           /\ k.pc = "returned" <=> s3.reply # Part1!None
    BY <1>1, <1>2, <1>4, <2>2 DEF Part1!TransferInv, Part1!Served
  <2>4. /\ s3' # Part1!NoCall => /\ s3'.handler \in Handlers /\ s3'.op # Part1!None
                                 /\ s5'.op = s3'.op /\ s5'.code = Part1!None
    BY <1>1 DEF Part1!TransferInv, Part1!Served
  <2>5. ASSUME NEW h \in Handlers \ {m}
        PROVE  \/ ~Part1!Serves(h)' /\ s4'[h] = Part1!Idle
               \/ ~Part1!Serves(h)' /\ s4'[h].cancelled /\ s4'[h].pc # "returned"
               \/ /\ Part1!Serves(h)' /\ s4'[h].op = s3'.op /\ ~s4'[h].cancelled
                  /\ s4'[h].pc = "returned" <=> s3'.reply # Part1!None
    BY <1>1, <1>5, <2>1 DEF Part1!TransferInv, Part1!Served
  <2>6. s3' = s3
    BY <1>1
  <2> QED BY <1>5, <2>1, <2>3, <2>4, <2>5, <2>6 DEF Part1!Served
<1> QED BY <1>1, <1>7, <1>8, <1>9
        DEF Part1!TransferInv, Part1!Alone, Part1!Uploaded, Part1!Downloaded

\* The handler of a store opens the file if it has not, and writes a block to it.
LEMMA UploadWriteKeeps ==
    ASSUME Part1!TransferInv, NEW m \in Handlers, Part1!UploadWrite(m)
    PROVE  Part1!TransferInv'
<1> DEFINE file == IF s4[m].file # Part1!None THEN s4[m].file ELSE "live"
           old  == IF s4[m].file = Part1!None THEN << >> ELSE s2
           k    == [s4[m] EXCEPT !.pc = "read", !.file = file, !.stream = Tail(@), !.pos = @ + 1]
<1>1. /\ s4[m].op = "store" /\ s4[m].pc = "write" /\ UNCHANGED <<s1, s3, s5, s6>>
      /\ s4' = [s4 EXCEPT ![m] = k]
      /\ s2' = IF file = "live" THEN Part1!Put(old, s4[m].pos, Head(s4[m].stream)) ELSE s2
  BY DEF Part1!UploadWrite, Part1!Opened
<1>2. /\ s4[m] \in Part1!HandlerStates /\ s3 \in Part1!CallStates /\ s4[m] # Part1!Idle
      /\ s4[m].stream # << >> /\ s4[m].stream \in Seq(Part1!Blocks) /\ s4[m].pos \in Nat
      /\ Part1!Copy(s1) /\ Part1!Copy(s2)
      /\ Part1!Serves(m) => s3.reply = Part1!None
      /\ s4[m].file = "live" => s2 # Absent
  <2>1. s4[m] \in Part1!HandlerStates /\ s3 \in Part1!CallStates
        /\ Part1!Copy(s1) /\ Part1!Copy(s2)
    BY DEF Part1!TransferInv, Part1!Records
  <2>2. s4[m] # Part1!Idle
    BY <1>1, IdleIs
  <2>3. s4[m].stream # << >> /\ (s4[m].file = "live" => s2 # Absent)
    BY <1>1 DEF Part1!TransferInv, Part1!Streams
  <2>4. Part1!Serves(m) => s3.reply = Part1!None
    BY <1>1, <2>2 DEF Part1!TransferInv, Part1!Served
  <2>5. s4[m].stream \in Seq(Part1!Blocks) /\ s4[m].pos \in Nat
    BY <2>1 DEF Part1!HandlerStates
  <2> QED BY <2>1, <2>2, <2>3, <2>4, <2>5
<1>3. Tail(s4[m].stream) \in Seq(Part1!Blocks) /\ Head(s4[m].stream) \in Part1!Blocks
  BY <1>2, TailIs
<1>4. file \in {"live", "gone"} /\ file # Part1!None /\ file \in {s4[m].file, "live"}
  BY <1>2 DEF Part1!HandlerStates, Part1!None
<1>5. file = "live" => old \in Seq(Part1!Blocks)
  BY <1>2, TransferValues DEF Part1!Copy
<1>6. /\ k \in Part1!HandlerStates /\ k.op = s4[m].op /\ k.cancelled = s4[m].cancelled
      /\ k.file = file /\ k.pc = "read" /\ k.pos = s4[m].pos + 1 /\ k.closed = s4[m].closed
      /\ k.stream = Tail(s4[m].stream)
  <2> HIDE DEF file
  <2>1. /\ s4[m] \in Part1!HandlerStates /\ s4[m].pos + 1 \in Nat
        /\ Tail(s4[m].stream) \in Seq(Part1!Blocks) /\ file \in {"live", "gone"}
    BY <1>2, <1>3, <1>4
  <2> QED BY <2>1 DEF Part1!HandlerStates
<1> HIDE DEF k
<1>7. Part1!Copy(s2') /\ (s2' = s2 \/ s2' # Absent) /\ (file = "live" => s2' # Absent)
  <2> HIDE DEF file, old
  <2>1. CASE file = "live"
    <3>1. s2' \in Seq(Part1!Blocks) /\ s2' # Absent
      BY <1>1, <1>2, <1>3, <1>5, <2>1, PutIs, ZenonT(60)
    <3> QED BY <3>1 DEF Part1!Copy
  <2>2. CASE file # "live"
    BY <1>1, <1>2, <2>2
  <2> QED BY <2>1, <2>2
<1>8. /\ (Part1!Records /\ Part1!Streams /\ Part1!Served /\ Part1!Alone)'
      /\ s4'[m] = k /\ \A h \in Handlers \ {m} : s4'[h] = s4[h]
      /\ \A h \in Handlers : Part1!Serves(h)' <=> Part1!Serves(h)
  <2> HIDE DEF file, old
  <2>1. /\ Part1!Copy(s1') /\ s3' \in Part1!CallStates /\ UNCHANGED <<s5, s6>>
        /\ s3'.op = s3.op /\ s3'.handler = s3.handler /\ s3' = s3 /\ s1' = s1
    BY <1>1, <1>2 DEF Part1!Copy
  <2>2. IF Part1!Serves(m) THEN k.pc = "returned" <=> s3'.reply # Part1!None
                           ELSE k.pc # "returned"
    BY <1>2, <1>6, <2>1
  <2>3. /\ k.op = s4[m].op /\ k.op \in {"store", "fetch"} /\ k.cancelled = s4[m].cancelled
        /\ k.file \in {s4[m].file, "live"} /\ k.pc # "write"
        /\ k.file = "live" => s2' # Absent
    BY <1>1, <1>4, <1>6, <1>7
  <2> QED BY <1>1, <1>2, <1>6, <1>7, <2>1, <2>2, <2>3, HandlerGoesOn
<1>9. Part1!Uploaded'
  <2> SUFFICES ASSUME ~s6, s5.op = "store"
      PROVE  /\ s1' \in Seq(Part1!Blocks)
             /\ s2' = s5.before \/ Part1!StartOf(s2', s1')
             /\ Part1!Following(m, s1, s4[m].pos)'
             /\ s4'[m].file = Part1!None => s4'[m].pos = 0 /\ s2' = s5.before
             /\ s4'[m].file # Part1!None => Part1!StartOf(s2', s1') /\ Len(s2') = s4'[m].pos
             /\ Part1!Serves(m)' => s3'.done = s4'[m].pos + Len(s4'[m].stream)
             /\ Part1!Serves(m)' /\ s4'[m].closed => s3'.done = Len(s1')
             /\ Part1!Serves(m)' /\ s3'.reply # Part1!None =>
                   s3'.reply = "ok" /\ s4'[m].closed /\ s4'[m].stream = << >>
    BY <1>1, <1>2, <1>8, StoreStaysAlone
  <2>1. /\ s1 \in Seq(Part1!Blocks) /\ Part1!Following(m, s1, s4[m].pos)
        /\ s4[m].file \in {Part1!None, "live"}
        /\ s4[m].file = Part1!None => s4[m].pos = 0
        /\ s4[m].file # Part1!None => Part1!StartOf(s2, s1) /\ Len(s2) = s4[m].pos
        /\ Part1!Serves(m) => s3.done = s4[m].pos + Len(s4[m].stream)
        /\ Part1!Serves(m) /\ s4[m].closed => s3.done = Len(s1)
    BY <1>2, StoreAlone
  <2>2. PICK q, from : q = s4[m].stream /\ from = s4[m].pos
    OBVIOUS
  <2>3. /\ q \in Seq(Part1!Blocks) /\ q # << >> /\ from \in Nat
        /\ from + Len(q) <= Len(s1)
        /\ \A i \in 1 .. Len(q) : q[i] = s1[from + i]
    BY <1>2, <2>1, <2>2 DEF Part1!Following
  <2>4. /\ Head(q) = s1[from + 1] /\ from < Len(s1)
        /\ from + 1 + Len(Tail(q)) <= Len(s1) /\ Len(Tail(q)) = Len(q) - 1
        /\ \A i \in 1 .. Len(Tail(q)) : Tail(q)[i] = s1[from + 1 + i]
    BY <2>1, <2>3, StreamShrinks
  <2>5. file = "live" /\ Part1!StartOf(old, s1) /\ Len(old) = from
    <3>1. Part1!StartOf(<< >>, s1) /\ Len(<< >>) = 0
      BY <2>1, TransferValues DEF Part1!StartOf
    <3> QED BY <2>1, <2>2, <3>1
  <2>6. Part1!StartOf(s2', s1) /\ Len(s2') = from + 1
    <3> HIDE DEF file, old
    <3>1. /\ Part1!StartOf(Part1!Put(old, from, s1[from + 1]), s1)
          /\ Len(Part1!Put(old, from, s1[from + 1])) = from + 1
      BY <2>4, <2>5, PutStarts
    <3> QED BY <1>1, <2>2, <2>4, <2>5, <3>1
  <2> HIDE DEF file, old
  <2>7. /\ s4'[m].stream = Tail(q) /\ s4'[m].pos = from + 1 /\ s1' = s1 /\ s3' = s3
        /\ s4'[m].file # Part1!None /\ s4'[m].closed = s4[m].closed
    BY <1>1, <1>4, <1>6, <1>8, <2>2
  <2>8. Part1!Following(m, s1, s4[m].pos)'
    BY <2>4, <2>7 DEF Part1!Following
  <2>9. Part1!Serves(m) => s3.done = from + 1 + Len(Tail(q))
    <3>1. PICK a, b : a = Len(q) /\ b = Len(Tail(q))
      OBVIOUS
    <3>2. a \in Nat /\ from \in Nat /\ b = a - 1
      BY <2>3, <2>4, <3>1
    <3>3. from + 1 + b = from + a
      BY <3>2
    <3>4. Part1!Serves(m) => s3.done = from + a
      BY <2>1, <2>2, <3>1
    <3> QED BY <3>1, <3>3, <3>4
  <2>10. s1' \in Seq(Part1!Blocks) /\ (s2' = s5.before \/ Part1!StartOf(s2', s1'))
    BY <2>1, <2>6, <2>7
  <2>11. /\ s4'[m].file # Part1!None
         /\ Part1!StartOf(s2', s1') /\ Len(s2') = s4'[m].pos
    BY <2>6, <2>7
  <2>12. Part1!Serves(m)' => s3'.done = s4'[m].pos + Len(s4'[m].stream)
    BY <1>8, <2>7, <2>9
  <2>13. Part1!Serves(m)' => s3'.reply = Part1!None /\ (s4'[m].closed => s3'.done = Len(s1'))
    BY <1>2, <1>8, <2>1, <2>7
  <2> QED BY <2>8, <2>10, <2>11, <2>12, <2>13
<1>10. Part1!Downloaded'
  <2>1. ~(~s6 /\ s5.op = "fetch")
    BY <1>1, <1>2, OtherCalls DEF Part1!None
  <2> QED BY <1>1, <2>1 DEF Part1!Downloaded
<1> QED BY <1>8, <1>9, <1>10 DEF Part1!TransferInv

\* A handler returns.
LEMMA ReturnKeeps ==
    ASSUME Part1!TransferInv, NEW m \in Handlers, s4[m].op # Part1!None, s4[m].pc = "read",
           NEW code \in {"ok", "not found"}, Part1!Return(m, code), UNCHANGED <<s1, s2, s5, s6>>,
           ~s6 /\ s4[m].op = "store" /\ ~s4[m].cancelled =>
              code = "ok" /\ s4[m].closed /\ s4[m].stream = << >>,
           ~s6 /\ s4[m].op = "fetch" /\ ~s4[m].cancelled =>
              /\ code = "ok" => s4[m].file # Part1!None /\ s4[m].pos = s4[m].length
              /\ code = "not found" => s4[m].stream = << >> /\ s2 = Absent
    PROVE  Part1!TransferInv'
<1>1. CASE s4[m].cancelled
  <2>1. s4' = [s4 EXCEPT ![m] = Part1!Idle] /\ UNCHANGED <<s1, s2, s3, s5, s6>>
    BY <1>1 DEF Part1!Return
  <2> QED BY <1>1, <2>1, CancelledReturns
<1>2. CASE ~s4[m].cancelled
  <2> DEFINE k == [s4[m] EXCEPT !.pc = "returned"]
  <2>1. s4' = [s4 EXCEPT ![m] = k] /\ s3' = [s3 EXCEPT !.reply = code]
    BY <1>2 DEF Part1!Return
  <2>2. s4[m] # Part1!Idle /\ s4[m] \in Part1!HandlerStates /\ s3 \in Part1!CallStates
    BY IdleIs DEF Part1!TransferInv, Part1!Records
  <2>3. Part1!Serves(m) /\ s4[m].op = s3.op
    BY <1>2, <2>2 DEF Part1!TransferInv, Part1!Served
  <2>4. /\ k \in Part1!HandlerStates /\ k.op = s4[m].op /\ k.cancelled = s4[m].cancelled
        /\ k.file = s4[m].file /\ k.pc = "returned" /\ k.pos = s4[m].pos
        /\ k.length = s4[m].length /\ k.stream = s4[m].stream /\ k.closed = s4[m].closed
    BY <2>2 DEF Part1!HandlerStates
  <2>5. /\ s3' \in Part1!CallStates /\ s3'.op = s3.op /\ s3'.handler = s3.handler
        /\ s3'.reply = code /\ s3'.done = s3.done /\ code # Part1!None
    BY <2>1, <2>2 DEF Part1!CallStates, Part1!None
  <2>6. /\ k.file = "live" => s2 # Absent
        /\ k.file # Part1!None => k.op \in {"store", "fetch"}
    BY <2>4 DEF Part1!TransferInv, Part1!Streams
  <2> HIDE DEF k
  <2>7. /\ (Part1!Records /\ Part1!Streams /\ Part1!Served /\ Part1!Alone)'
        /\ s4'[m] = k /\ \A h \in Handlers \ {m} : s4'[h] = s4[h]
        /\ \A h \in Handlers : Part1!Serves(h)' <=> Part1!Serves(h)
    <3>1. Part1!Copy(s1') /\ Part1!Copy(s2')
      BY DEF Part1!TransferInv, Part1!Records, Part1!Copy
    <3>2. IF Part1!Serves(m) THEN k.pc = "returned" <=> s3'.reply # Part1!None
                             ELSE k.pc # "returned"
      BY <2>3, <2>4, <2>5
    <3> QED BY <2>1, <2>2, <2>3, <2>4, <2>5, <2>6, <3>1, <3>2, HandlerGoesOn
  <2>8. Part1!Uploaded'
    <3> SUFFICES ASSUME ~s6, s5.op = "store"
        PROVE  /\ s1' \in Seq(Part1!Blocks)
               /\ s2' = s5.before \/ Part1!StartOf(s2', s1')
               /\ Part1!Following(m, s1, s4[m].pos)'
               /\ s4'[m].file = Part1!None => s4'[m].pos = 0 /\ s2' = s5.before
               /\ s4'[m].file # Part1!None => Part1!StartOf(s2', s1') /\ Len(s2') = s4'[m].pos
               /\ Part1!Serves(m)' => s3'.done = s4'[m].pos + Len(s4'[m].stream)
               /\ Part1!Serves(m)' /\ s4'[m].closed => s3'.done = Len(s1')
               /\ Part1!Serves(m)' /\ s3'.reply # Part1!None =>
                     s3'.reply = "ok" /\ s4'[m].closed /\ s4'[m].stream = << >>
      BY <2>2, <2>7, StoreStaysAlone
    <3>1. /\ s4[m].op = "store" /\ s1 \in Seq(Part1!Blocks)
          /\ Part1!Following(m, s1, s4[m].pos)
          /\ s4[m].file = Part1!None => s4[m].pos = 0 /\ s2 = s5.before
          /\ s4[m].file # Part1!None => Part1!StartOf(s2, s1) /\ Len(s2) = s4[m].pos
          /\ s3.done = s4[m].pos + Len(s4[m].stream)
          /\ s4[m].closed => s3.done = Len(s1)
          /\ s2 = s5.before \/ Part1!StartOf(s2, s1)
      BY <2>2, <2>3, StoreAlone
    <3>2. Part1!Following(m, s1, s4[m].pos)'
      BY <2>4, <2>7, <3>1, ZenonT(60) DEF Part1!Following
    <3> QED BY <1>2, <2>4, <2>5, <2>7, <3>1, <3>2
  <2>9. Part1!Downloaded'
    <3> SUFFICES ASSUME ~s6, s5.op = "fetch"
        PROVE  /\ s1' = << >> \/ Part1!StartOf(s1', s2')
               /\ s1' \in Seq(Part1!Blocks) /\ Len(s1') = s3'.done
               /\ s4'[m].file = Part1!None => /\ s4'[m].pos = 0 /\ s4'[m].stream = << >>
                                              /\ s3'.done = 0
               /\ s4'[m].file # Part1!None =>
                    /\ Part1!StartOf(s1', s2') /\ Part1!Following(m, s2, s3.done)'
                    /\ s4'[m].length = Len(s2')
                    /\ s3'.done + Len(s4'[m].stream) = s4'[m].pos
               /\ s3'.reply = "ok" => s4'[m].file # Part1!None /\ s4'[m].pos = s4'[m].length
               /\ s3'.reply = "not found" => s4'[m].stream = << >> /\ s2' = Absent
      BY <2>2, <2>7, FetchStaysAlone
    <3>1. /\ s4[m].op = "fetch" /\ (s1 = << >> \/ Part1!StartOf(s1, s2))
          /\ s1 \in Seq(Part1!Blocks) /\ Len(s1) = s3.done
          /\ s4[m].file = Part1!None => /\ s4[m].pos = 0 /\ s4[m].stream = << >>
                                        /\ s3.done = 0
          /\ s4[m].file # Part1!None =>
               /\ Part1!StartOf(s1, s2) /\ Part1!Following(m, s2, s3.done)
               /\ s4[m].length = Len(s2)
               /\ s3.done + Len(s4[m].stream) = s4[m].pos
      BY <2>2, <2>3, FetchAlone
    <3>2. s4[m].file # Part1!None => Part1!Following(m, s2, s3.done)'
      <4>1. s4'[m].stream = s4[m].stream /\ s3'.done = s3.done /\ s2' = s2
        BY <2>4, <2>5, <2>7
      <4> QED BY <3>1, <4>1 DEF Part1!Following
    <3> QED BY <1>2, <2>4, <2>5, <2>7, <3>1, <3>2
  <2> QED BY <2>7, <2>8, <2>9 DEF Part1!TransferInv
<1> QED BY <1>1, <1>2

\* The handler of a store looks for the next block.
LEMMA UploadReadKeeps ==
    ASSUME Part1!TransferInv, NEW m \in Handlers, Part1!UploadRead(m)
    PROVE  Part1!TransferInv'
<1>1. s4[m].op = "store" /\ s4[m].pc = "read" /\ UNCHANGED <<s1, s2, s5, s6>>
  BY DEF Part1!UploadRead
<1>2. CASE s4[m].cancelled \/ (s4[m].stream = << >> /\ s4[m].closed)
  <2>1. CASE Part1!Return(m, "ok")
    BY <1>1, <1>2, <2>1, ReturnKeeps DEF Part1!None
  <2>2. CASE ~Part1!Return(m, "ok")
    BY <1>2, <2>2 DEF Part1!UploadRead
  <2> QED BY <2>1, <2>2
<1>3. CASE ~(s4[m].cancelled \/ (s4[m].stream = << >> /\ s4[m].closed))
  <2> DEFINE k == [s4[m] EXCEPT !.pc = "write"]
  <2>1. s4' = [s4 EXCEPT ![m] = k] /\ s4[m].stream # << >> /\ UNCHANGED s3
    BY <1>3 DEF Part1!UploadRead
  <2>2. s4[m] # Part1!Idle /\ s4[m] \in Part1!HandlerStates /\ s3 \in Part1!CallStates
    BY <1>1, IdleIs DEF Part1!TransferInv, Part1!Records, Part1!None
  <2>3. Part1!Serves(m) /\ s3.reply = Part1!None
    BY <1>1, <1>3, <2>2 DEF Part1!TransferInv, Part1!Served
  <2>4. /\ k \in Part1!HandlerStates /\ k.op = s4[m].op /\ k.cancelled = s4[m].cancelled
        /\ k.file = s4[m].file /\ k.pc = "write" /\ k.pos = s4[m].pos
        /\ k.length = s4[m].length /\ k.stream = s4[m].stream /\ k.closed = s4[m].closed
    BY <2>2 DEF Part1!HandlerStates
  <2>5. /\ k.file = "live" => s2 # Absent
        /\ k.file # Part1!None => k.op \in {"store", "fetch"}
    BY <2>4 DEF Part1!TransferInv, Part1!Streams
  <2> HIDE DEF k
  <2>6. /\ (Part1!Records /\ Part1!Streams /\ Part1!Served /\ Part1!Alone)'
        /\ s4'[m] = k /\ \A h \in Handlers \ {m} : s4'[h] = s4[h]
        /\ \A h \in Handlers : Part1!Serves(h)' <=> Part1!Serves(h)
    <3>1. Part1!Copy(s1') /\ Part1!Copy(s2')
      BY <1>1 DEF Part1!TransferInv, Part1!Records, Part1!Copy
    <3>2. IF Part1!Serves(m) THEN k.pc = "returned" <=> s3'.reply # Part1!None
                             ELSE k.pc # "returned"
      BY <2>1, <2>3, <2>4
    <3> QED BY <1>1, <2>1, <2>2, <2>3, <2>4, <2>5, <3>1, <3>2, HandlerGoesOn
  <2>7. Part1!Uploaded'
    <3> SUFFICES ASSUME ~s6, s5.op = "store"
        PROVE  /\ s1' \in Seq(Part1!Blocks)
               /\ s2' = s5.before \/ Part1!StartOf(s2', s1')
               /\ Part1!Following(m, s1, s4[m].pos)'
               /\ s4'[m].file = Part1!None => s4'[m].pos = 0 /\ s2' = s5.before
               /\ s4'[m].file # Part1!None => Part1!StartOf(s2', s1') /\ Len(s2') = s4'[m].pos
               /\ Part1!Serves(m)' => s3'.done = s4'[m].pos + Len(s4'[m].stream)
               /\ Part1!Serves(m)' /\ s4'[m].closed => s3'.done = Len(s1')
               /\ Part1!Serves(m)' /\ s3'.reply # Part1!None =>
                     s3'.reply = "ok" /\ s4'[m].closed /\ s4'[m].stream = << >>
      BY <1>1, <2>2, <2>6, StoreStaysAlone
    <3>1. /\ s1 \in Seq(Part1!Blocks) /\ Part1!Following(m, s1, s4[m].pos)
          /\ s4[m].file = Part1!None => s4[m].pos = 0 /\ s2 = s5.before
          /\ s4[m].file # Part1!None => Part1!StartOf(s2, s1) /\ Len(s2) = s4[m].pos
          /\ s3.done = s4[m].pos + Len(s4[m].stream)
          /\ s4[m].closed => s3.done = Len(s1)
          /\ s2 = s5.before \/ Part1!StartOf(s2, s1)
      BY <2>2, <2>3, StoreAlone
    <3>2. Part1!Following(m, s1, s4[m].pos)'
      BY <1>1, <2>4, <2>6, <3>1 DEF Part1!Following
    <3> QED BY <1>1, <2>1, <2>3, <2>4, <2>6, <3>1, <3>2
  <2>8. Part1!Downloaded'
    <3>1. ~(~s6 /\ s5.op = "fetch")
      BY <1>1, <2>2, OtherCalls DEF Part1!None
    <3> QED BY <1>1, <3>1 DEF Part1!Downloaded
  <2> QED BY <2>6, <2>7, <2>8 DEF Part1!TransferInv
<1> QED BY <1>2, <1>3

\* Queries change nothing.
LEMMA QueryKeeps ==
    ASSUME Part1!TransferInv, NEW m \in Handlers, Part1!Query(m)
    PROVE  Part1!TransferInv'
<1> DEFINE code == IF s4[m].op = "stat" /\ s2 = Absent THEN "not found" ELSE "ok"
<1>1. /\ s4[m].op \in {"stat", "list"} /\ s4[m].pc = "read"
      /\ Part1!Return(m, code) /\ UNCHANGED <<s1, s2, s5, s6>>
  BY DEF Part1!Query
<1>2. PICK c \in {"ok", "not found"} : c = code
  OBVIOUS
<1>3. Part1!Return(m, c)
  BY <1>1, <1>2
<1> QED BY <1>1, <1>3, ReturnKeeps DEF Part1!None

\* What is known of the handler of a fetch that goes on.
LEMMA FetcherIs ==
    ASSUME Part1!TransferInv, NEW m \in Handlers, s4[m].op = "fetch", s4[m].pc = "read"
    PROVE  /\ s4[m] # Part1!Idle /\ s4[m] \in Part1!HandlerStates /\ s3 \in Part1!CallStates
           /\ s4[m].stream \in Seq(Part1!Blocks) /\ s4[m].kept \in Seq(Part1!Blocks)
           /\ s4[m].pos \in Nat /\ s4[m].length \in Nat
           /\ Part1!Copy(s1) /\ Part1!Copy(s2)
           /\ ~s4[m].cancelled => Part1!Serves(m)
           /\ Part1!Serves(m) => s3.reply = Part1!None
           /\ s4[m].file = "live" => s2 # Absent
<1>1. s4[m] \in Part1!HandlerStates /\ s3 \in Part1!CallStates
      /\ Part1!Copy(s1) /\ Part1!Copy(s2)
  BY DEF Part1!TransferInv, Part1!Records
<1>2. s4[m] # Part1!Idle
  BY IdleIs DEF Part1!None
<1>3. s4[m].stream \in Seq(Part1!Blocks) /\ s4[m].kept \in Seq(Part1!Blocks)
      /\ s4[m].pos \in Nat /\ s4[m].length \in Nat
  BY <1>1 DEF Part1!HandlerStates
<1>4. (~s4[m].cancelled => Part1!Serves(m)) /\ (Part1!Serves(m) => s3.reply = Part1!None)
  BY <1>2 DEF Part1!TransferInv, Part1!Served
<1>5. s4[m].file = "live" => s2 # Absent
  BY DEF Part1!TransferInv, Part1!Streams
<1> QED BY <1>1, <1>2, <1>3, <1>4, <1>5

\* It opens the file, or finds that there is none.
LEMMA DownloadOpenKeeps ==
    ASSUME Part1!TransferInv, NEW m \in Handlers, Part1!DownloadOpen(m)
    PROVE  Part1!TransferInv'
<1>1. /\ s4[m].op = "fetch" /\ s4[m].pc = "read" /\ s4[m].file = Part1!None
      /\ UNCHANGED <<s1, s2, s5, s6>>
  BY DEF Part1!DownloadOpen
<1>2. /\ s4[m] # Part1!Idle /\ s4[m] \in Part1!HandlerStates /\ s3 \in Part1!CallStates
      /\ ~s4[m].cancelled => Part1!Serves(m)
      /\ Part1!Serves(m) => s3.reply = Part1!None
      /\ Part1!Copy(s1) /\ Part1!Copy(s2)
  BY <1>1, FetcherIs
<1>3. CASE s2 = Absent
  <2>1. Part1!Return(m, "not found")
    BY <1>3 DEF Part1!DownloadOpen
  <2>2. ~s6 /\ ~s4[m].cancelled => s4[m].stream = << >>
    <3> SUFFICES ASSUME ~s6, ~s4[m].cancelled PROVE s4[m].stream = << >>
      OBVIOUS
    <3>1. s5.op = "fetch"
      BY <1>1, <1>2 DEF Part1!TransferInv, Part1!Served, Part1!Serves
    <3> QED BY <1>1, <1>2, <3>1, FetchAlone
  <2> QED BY <1>1, <1>3, <2>1, <2>2, ReturnKeeps DEF Part1!None
<1>4. CASE s2 # Absent
  <2> DEFINE k == [s4[m] EXCEPT !.file = "live", !.length = Len(s2)]
  <2>1. s4' = [s4 EXCEPT ![m] = k] /\ UNCHANGED s3
    BY <1>4 DEF Part1!DownloadOpen
  <2>2. s2 \in Seq(Part1!Blocks) /\ Len(s2) \in Nat
    BY <1>2, <1>4 DEF Part1!Copy
  <2>3. /\ k \in Part1!HandlerStates /\ k.op = "fetch" /\ k.cancelled = s4[m].cancelled
        /\ k.file = "live" /\ k.pc = "read" /\ k.pos = s4[m].pos
        /\ k.length = Len(s2) /\ k.stream = s4[m].stream /\ k.closed = s4[m].closed
    BY <1>1, <1>2, <2>2 DEF Part1!HandlerStates
  <2> HIDE DEF k
  <2>4. /\ (Part1!Records /\ Part1!Streams /\ Part1!Served /\ Part1!Alone)'
        /\ s4'[m] = k /\ \A h \in Handlers \ {m} : s4'[h] = s4[h]
        /\ \A h \in Handlers : Part1!Serves(h)' <=> Part1!Serves(h)
    <3>1. Part1!Copy(s1') /\ Part1!Copy(s2')
      BY <1>1, <1>2 DEF Part1!Copy
    <3>2. IF Part1!Serves(m) THEN k.pc = "returned" <=> s3'.reply # Part1!None
                             ELSE k.pc # "returned"
      BY <1>2, <2>1, <2>3
    <3>3. /\ s3' \in Part1!CallStates /\ s3'.op = s3.op /\ s3'.handler = s3.handler
          /\ s3' = s3 /\ k.op \in {"store", "fetch"} /\ k.op = s4[m].op
          /\ s2' # Absent /\ k.pc # "write"
      BY <1>1, <1>2, <1>4, <2>1, <2>3
    <3> QED BY <1>1, <1>2, <2>1, <2>3, <3>1, <3>2, <3>3, HandlerGoesOn
  <2>5. Part1!Downloaded'
    <3> SUFFICES ASSUME ~s6, s5.op = "fetch"
        PROVE  /\ s1' = << >> \/ Part1!StartOf(s1', s2')
               /\ Part1!Serves(m) =>
                    /\ s1' \in Seq(Part1!Blocks) /\ Len(s1') = s3'.done
                    /\ s4'[m].file = Part1!None => /\ s4'[m].pos = 0 /\ s4'[m].stream = << >>
                                                   /\ s3'.done = 0
                    /\ s4'[m].file # Part1!None =>
                         /\ Part1!StartOf(s1', s2') /\ Part1!Following(m, s2, s3.done)'
                         /\ s4'[m].length = Len(s2')
                         /\ s3'.done + Len(s4'[m].stream) = s4'[m].pos
                    /\ s3'.reply = "ok" =>
                         s4'[m].file # Part1!None /\ s4'[m].pos = s4'[m].length
                    /\ s3'.reply = "not found" => s4'[m].stream = << >> /\ s2' = Absent
      BY <1>1, <1>2, <2>4, FetchStaysAlone
    <3>1. /\ s1 = << >> \/ Part1!StartOf(s1, s2)
          /\ Part1!Serves(m) => /\ s1 \in Seq(Part1!Blocks) /\ Len(s1) = s3.done
                                /\ s4[m].pos = 0 /\ s4[m].stream = << >> /\ s3.done = 0
      BY <1>1, <1>2, FetchAlone
    <3>2. s1' = << >> \/ Part1!StartOf(s1', s2')
      BY <1>1, <3>1
    <3> SUFFICES ASSUME Part1!Serves(m)
        PROVE  /\ s1' \in Seq(Part1!Blocks) /\ Len(s1') = s3'.done
               /\ Part1!StartOf(s1', s2') /\ Part1!Following(m, s2, s3.done)'
               /\ s4'[m].length = Len(s2') /\ s4'[m].file = "live"
               /\ s3'.done + Len(s4'[m].stream) = s4'[m].pos
               /\ s3'.reply = Part1!None
      BY <3>2 DEF Part1!None
    <3>3. Len(s4[m].stream) = 0
      BY <3>1
    <3>4. Part1!Following(m, s2, s3.done)'
      BY <1>1, <2>1, <2>2, <2>3, <2>4, <3>1, <3>3 DEF Part1!Following
    <3>5. Part1!StartOf(s1', s2')
      BY <1>1, <2>2, <3>1 DEF Part1!StartOf
    <3> QED BY <1>1, <1>2, <2>1, <2>3, <2>4, <3>1, <3>3, <3>4, <3>5
  <2>6. Part1!Uploaded'
    <3>1. ~(~s6 /\ s5.op = "store")
      BY <1>1, <1>2, OtherCalls DEF Part1!None
    <3> QED BY <1>1, <3>1 DEF Part1!Uploaded
  <2> QED BY <2>4, <2>5, <2>6 DEF Part1!TransferInv
<1> QED BY <1>3, <1>4

\* It sends a block, or has sent as many as the file had.
LEMMA DownloadSendKeeps ==
    ASSUME Part1!TransferInv, NEW m \in Handlers, Part1!DownloadSend(m)
    PROVE  Part1!TransferInv'
<1>1. /\ s4[m].op = "fetch" /\ s4[m].pc = "read" /\ s4[m].file # Part1!None
      /\ UNCHANGED <<s1, s2, s5, s6>>
  BY DEF Part1!DownloadSend
<1>2. /\ s4[m] # Part1!Idle /\ s4[m] \in Part1!HandlerStates /\ s3 \in Part1!CallStates
      /\ s4[m].stream \in Seq(Part1!Blocks) /\ s4[m].kept \in Seq(Part1!Blocks)
      /\ s4[m].pos \in Nat /\ s4[m].length \in Nat
      /\ Part1!Copy(s1) /\ Part1!Copy(s2)
      /\ ~s4[m].cancelled => Part1!Serves(m)
      /\ Part1!Serves(m) => s3.reply = Part1!None
      /\ s4[m].file = "live" => s2 # Absent
  BY <1>1, FetcherIs
<1> DEFINE content == IF s4[m].file = "live" THEN s2 ELSE s4[m].kept
           block == IF s4[m].pos < Len(content) THEN content[s4[m].pos + 1] ELSE Part1!Junk
<1>3. CASE s4[m].pos = s4[m].length \/ s4[m].cancelled
  <2>1. Part1!Return(m, "ok")
    BY <1>3, <1>2 DEF Part1!DownloadSend
  <2> QED BY <1>1, <1>3, <2>1, ReturnKeeps DEF Part1!None
<1>4. CASE ~(s4[m].pos = s4[m].length \/ s4[m].cancelled)
  <2> DEFINE k == [s4[m] EXCEPT !.pos = @ + 1, !.stream = Append(@, block)]
  <2>1. s4' = [s4 EXCEPT ![m] = k] /\ UNCHANGED s3 /\ s4[m].pos < s4[m].length
        /\ Part1!Serves(m)
    BY <1>2, <1>4 DEF Part1!DownloadSend
  <2>2. content \in Seq(Part1!Blocks)
    BY <1>2 DEF Part1!Copy
  <2>3. block \in Part1!Blocks
    <3> HIDE DEF content
    <3>1. s4[m].pos < Len(content) => s4[m].pos + 1 \in 1 .. Len(content)
      BY <1>2, <2>2
    <3> QED BY <2>2, <3>1, ElementIn, TransferValues
  <2>4. Append(s4[m].stream, block) \in Seq(Part1!Blocks)
    BY <1>2, <2>3, AppendIs
  <2> HIDE DEF block
  <2>5. /\ k \in Part1!HandlerStates /\ k.op = "fetch" /\ k.cancelled = s4[m].cancelled
        /\ k.file = s4[m].file /\ k.pc = "read" /\ k.pos = s4[m].pos + 1
        /\ k.length = s4[m].length /\ k.stream = Append(s4[m].stream, block)
        /\ k.closed = s4[m].closed
    <3>1. s4[m] \in Part1!HandlerStates /\ s4[m].pos + 1 \in Nat
      BY <1>2
    <3> QED BY <1>1, <2>4, <3>1 DEF Part1!HandlerStates
  <2> HIDE DEF k
  <2>6. /\ (Part1!Records /\ Part1!Streams /\ Part1!Served /\ Part1!Alone)'
        /\ s4'[m] = k /\ \A h \in Handlers \ {m} : s4'[h] = s4[h]
        /\ \A h \in Handlers : Part1!Serves(h)' <=> Part1!Serves(h)
    <3>1. Part1!Copy(s1') /\ Part1!Copy(s2')
      BY <1>1, <1>2 DEF Part1!Copy
    <3>2. IF Part1!Serves(m) THEN k.pc = "returned" <=> s3'.reply # Part1!None
                             ELSE k.pc # "returned"
      BY <1>2, <2>1, <2>5
    <3>3. /\ s3' \in Part1!CallStates /\ s3'.op = s3.op /\ s3'.handler = s3.handler
          /\ s3' = s3 /\ k.op \in {"store", "fetch"} /\ k.op = s4[m].op
          /\ k.file = "live" => s2' # Absent
          /\ k.pc # "write"
      BY <1>1, <1>2, <2>1, <2>5
    <3> QED BY <1>1, <1>2, <2>1, <2>5, <3>1, <3>2, <3>3, HandlerGoesOn
  <2>7. Part1!Downloaded'
    <3> SUFFICES ASSUME ~s6, s5.op = "fetch"
        PROVE  /\ s1' = << >> \/ Part1!StartOf(s1', s2')
               /\ s1' \in Seq(Part1!Blocks) /\ Len(s1') = s3'.done
               /\ s4'[m].file # Part1!None
               /\ Part1!StartOf(s1', s2') /\ Part1!Following(m, s2, s3.done)'
               /\ s4'[m].length = Len(s2')
               /\ s3'.done + Len(s4'[m].stream) = s4'[m].pos
               /\ s3'.reply # "ok" /\ s3'.reply # "not found"
      BY <1>1, <1>2, <2>6, FetchStaysAlone
    <3>1. /\ s4[m].file \in {Part1!None, "live"}
          /\ s1 \in Seq(Part1!Blocks) /\ Len(s1) = s3.done
          /\ Part1!StartOf(s1, s2) /\ Part1!Following(m, s2, s3.done)
          /\ s4[m].length = Len(s2)
          /\ s3.done + Len(s4[m].stream) = s4[m].pos
      BY <1>1, <1>2, <2>1, FetchAlone
    <3>2. content = s2 /\ s2 \in Seq(Part1!Blocks)
      BY <1>1, <3>1, <2>2
    <3>3. block = s2[s4[m].pos + 1] /\ s4[m].pos < Len(s2)
      BY <2>1, <3>1, <3>2 DEF block
    <3>4. PICK q, file, from, r :
             q = s4[m].stream /\ file = s2 /\ from = s3.done /\ r = k.stream
      OBVIOUS
    <3>5. /\ q \in Seq(Part1!Blocks) /\ file \in Seq(Part1!Blocks) /\ from \in Nat
          /\ from + Len(q) = s4[m].pos
      BY <1>2, <3>1, <3>2, <3>4
    <3>6. /\ from + Len(q) < Len(file)
          /\ \A i \in 1 .. Len(q) : q[i] = file[from + i]
          /\ r = Append(q, file[from + Len(q) + 1])
      <4>1. \A i \in 1 .. Len(q) : q[i] = file[from + i]
        BY <3>1, <3>4 DEF Part1!Following
      <4>2. from + Len(q) < Len(file)
        BY <3>3, <3>4, <3>5
      <4>3. r = Append(q, file[from + Len(q) + 1])
        BY <2>5, <3>3, <3>4, <3>5
      <4> QED BY <4>1, <4>2, <4>3
    <3>7. /\ Len(r) = Len(q) + 1 /\ from + Len(r) <= Len(file)
          /\ \A i \in 1 .. Len(r) : r[i] = file[from + i]
      BY <3>5, <3>6, StreamGrows
    <3>8. s4'[m].stream = r /\ s4'[m].pos = from + Len(q) + 1 /\ s3'.done = from /\ s2' = file
      BY <1>1, <2>1, <2>5, <2>6, <3>4, <3>5
    <3>9. Part1!Following(m, s2, s3.done)'
      BY <3>7, <3>8 DEF Part1!Following
    <3>10. s3'.done + Len(s4'[m].stream) = s4'[m].pos
      <4>1. Len(q) \in Nat /\ from \in Nat
        BY <3>5
      <4>2. from + (Len(q) + 1) = from + Len(q) + 1
        BY <4>1
      <4> QED BY <3>7, <3>8, <4>2, Zenon
    <3>11. s3'.reply = Part1!None /\ s4'[m].length = Len(s2') /\ s4'[m].file # Part1!None
      BY <1>1, <1>2, <2>1, <2>5, <2>6, <3>1
    <3> QED BY <1>1, <2>1, <3>1, <3>9, <3>10, <3>11 DEF Part1!None
  <2>8. Part1!Uploaded'
    <3>1. ~(~s6 /\ s5.op = "store")
      BY <1>1, <1>2, OtherCalls DEF Part1!None
    <3> QED BY <1>1, <3>1 DEF Part1!Uploaded
  <2> QED BY <2>6, <2>7, <2>8 DEF Part1!TransferInv
<1> QED BY <1>3, <1>4

\* The handler of a deletion removes the file; who has it open keeps it.
LEMMA DestroyKeeps ==
    ASSUME Part1!TransferInv, NEW m \in Handlers, Part1!Destroy(m)
    PROVE  Part1!TransferInv'
<1>1. s4[m].op = "delete" /\ s4[m].pc = "read" /\ UNCHANGED <<s1, s5, s6>>
  BY DEF Part1!Destroy
<1>2. /\ s4[m] # Part1!Idle /\ s4[m] \in Part1!HandlerStates /\ s3 \in Part1!CallStates
      /\ Part1!Copy(s1) /\ Part1!Copy(s2) /\ s4 \in [Handlers -> Part1!HandlerStates]
  BY <1>1, IdleIs DEF Part1!TransferInv, Part1!Records, Part1!None
<1>3. CASE s4[m].cancelled \/ s2 = Absent
  <2>1. Part1!Return(m, "not found") /\ UNCHANGED s2
    BY <1>3 DEF Part1!Destroy
  <2> QED BY <1>1, <2>1, ReturnKeeps DEF Part1!None
<1>4. CASE ~(s4[m].cancelled \/ s2 = Absent)
  <2> DEFINE k == [s4[m] EXCEPT !.pc = "returned"]
             Gone(x) == IF x.file = "live" THEN [x EXCEPT !.file = "gone", !.kept = s2] ELSE x
  <2>1. /\ s4' = [g \in Handlers |-> IF g = m THEN k ELSE Gone(s4[g])]
        /\ s3' = [s3 EXCEPT !.reply = "ok"] /\ s2' = Absent
    BY <1>4 DEF Part1!Destroy
  <2>2. s2 \in Seq(Part1!Blocks)
    BY <1>2, <1>4 DEF Part1!Copy
  <2>3. Part1!Serves(m) /\ s3.op = "delete" /\ s3 # Part1!NoCall
    BY <1>1, <1>2, <1>4 DEF Part1!TransferInv, Part1!Served, Part1!Serves
  <2>4. /\ k \in Part1!HandlerStates /\ k.op = "delete" /\ ~k.cancelled
        /\ k.file = Part1!None /\ k.pc = "returned"
    <3>1. s4[m].file = Part1!None
      BY <1>1 DEF Part1!TransferInv, Part1!Streams
    <3> QED BY <1>1, <1>2, <1>4, <3>1 DEF Part1!HandlerStates
  <2>5. /\ s3' \in Part1!CallStates /\ s3'.op = "delete" /\ s3'.handler = s3.handler
        /\ s3'.reply = "ok" /\ s3' # Part1!NoCall
    BY <1>2, <2>1, <2>3, NoCallIs DEF Part1!CallStates, Part1!None
  <2>6. ASSUME NEW g \in Handlers \ {m}
        PROVE  /\ s4'[g] \in Part1!HandlerStates /\ s4'[g].op = s4[g].op
               /\ s4'[g].pc = s4[g].pc /\ s4'[g].cancelled = s4[g].cancelled
               /\ s4'[g].stream = s4[g].stream /\ s4'[g].file # "live"
               /\ (s4'[g].file = Part1!None <=> s4[g].file = Part1!None)
               /\ s4[g] = Part1!Idle => s4'[g] = Part1!Idle
    <3>1. s4[g] \in Part1!HandlerStates /\ s4'[g] = Gone(s4[g])
      BY <1>2, <2>1
    <3>2. s4[g] = Part1!Idle => s4'[g] = Part1!Idle
      BY <3>1, IdleIs DEF Part1!None
    <3>3. CASE s4[g].file = "live"
      <4>1. s4'[g] = [s4[g] EXCEPT !.file = "gone", !.kept = s2]
        BY <3>1, <3>3
      <4> HIDE DEF Gone
      <4> QED BY <2>2, <3>1, <3>2, <3>3, <4>1 DEF Part1!HandlerStates, Part1!None
    <3>4. CASE s4[g].file # "live"
      BY <3>1, <3>4
    <3> QED BY <3>3, <3>4
  <2>7. s4'[m] = k /\ s4' \in [Handlers -> Part1!HandlerStates]
    <3>1. s4'[m] = k
      BY <2>1
    <3>2. \A g \in Handlers : s4'[g] \in Part1!HandlerStates
      BY <2>4, <2>6, <3>1
    <3>3. s4' = [g \in Handlers |-> s4'[g]]
      BY <2>1
    <3> QED BY <3>1, <3>2, <3>3
  <2> HIDE DEF k, Gone
  <2>8. \A g \in Handlers : Part1!Serves(g)' <=> Part1!Serves(g)
    BY <2>3, <2>5 DEF Part1!Serves
  <2>9. \A g \in Handlers \ {m} : ~Part1!Serves(g)
    BY <2>3 DEF Part1!Serves
  <2>10. Part1!Records'
    BY <1>1, <1>2, <2>1, <2>5, <2>7 DEF Part1!TransferInv, Part1!Records, Part1!Copy
  <2>11. Part1!Streams'
    BY <2>4, <2>5, <2>6, <2>7 DEF Part1!TransferInv, Part1!Streams, Part1!None
  <2>12. Part1!Served'
    <3>1. s3'.handler \in Handlers /\ s5'.op = s3'.op /\ s5'.code = Part1!None
      BY <1>1, <2>3, <2>5 DEF Part1!TransferInv, Part1!Served
    <3>2. ASSUME NEW g \in Handlers \ {m}
          PROVE \/ ~Part1!Serves(g)' /\ s4'[g] = Part1!Idle
                \/ ~Part1!Serves(g)' /\ s4'[g].cancelled /\ s4'[g].pc # "returned"
      BY <2>6, <2>8, <2>9 DEF Part1!TransferInv, Part1!Served
    <3>3. /\ Part1!Serves(m)' /\ s4'[m].op = s3'.op /\ ~s4'[m].cancelled
          /\ s4'[m].pc = "returned" <=> s3'.reply # Part1!None
      BY <2>3, <2>4, <2>5, <2>7, <2>8 DEF Part1!None
    <3> QED BY <2>5, <3>1, <3>2, <3>3 DEF Part1!Served, Part1!None
  <2>13. Part1!Alone'
    <3> SUFFICES ASSUME ~s6 PROVE Part1!Alone'
      BY <1>1 DEF Part1!Alone
    <3>1. /\ \A g \in Handlers \ {m} : s4[g] = Part1!Idle
          /\ s5.op # Part1!None => s5.op = "delete"
          /\ s5.code \in {Part1!None, "deadline exceeded"}
      BY <1>1, <1>2 DEF Part1!TransferInv, Part1!Alone
    <3> QED BY <1>1, <2>4, <2>6, <2>7, <3>1, ZenonT(60) DEF Part1!Alone, Part1!None
  <2>14. Part1!Uploaded' /\ Part1!Downloaded'
    <3>1. s5.op = "delete"
      BY <2>3 DEF Part1!TransferInv, Part1!Served
    <3> QED BY <1>1, <3>1 DEF Part1!Uploaded, Part1!Downloaded
  <2> QED BY <2>10, <2>11, <2>12, <2>13, <2>14 DEF Part1!TransferInv
<1> QED BY <1>3, <1>4

\* A beginning that is as long as the whole.
LEMMA WholeStart ==
    ASSUME NEW x, NEW y, Part1!StartOf(x, y), Len(x) = Len(y)
    PROVE  x = y
<1>1. /\ x \in Seq(Part1!Blocks) /\ y \in Seq(Part1!Blocks) /\ Len(x) = Len(y)
      /\ \A i \in 1 .. Len(x) : x[i] = y[i]
  BY DEF Part1!StartOf
<1> QED BY <1>1

\* The client takes the reply, and the handler is idle again.
LEMMA FinishKeeps ==
    ASSUME Part1!TransferInv, Part1!Finish
    PROVE  Part1!TransferInv'
<1>0. PICK m : m = s3.handler
  OBVIOUS
<1>1. /\ s3.reply # Part1!None /\ (s3.op = "fetch" => s4[m].stream = << >>)
      /\ s5' = [s5 EXCEPT !.code = s3.reply]
      /\ s1' = IF s3.op = "fetch" /\ s3.reply = "not found" THEN Absent ELSE s1
      /\ s4' = [s4 EXCEPT ![m] = Part1!Idle] /\ s3' = Part1!NoCall /\ UNCHANGED <<s2, s6>>
  BY <1>0 DEF Part1!Finish, Part1!Mine
<1>2. /\ s3 # Part1!NoCall /\ m \in Handlers /\ s4[m] \in Part1!HandlerStates
      /\ s3 \in Part1!CallStates /\ s5 \in Part1!StatusStates
      /\ Part1!Serves(m) /\ s4[m] # Part1!Idle
      /\ s5.op = s3.op /\ s4[m].op = s3.op /\ s3.op # Part1!None
  <2>1. s3 # Part1!NoCall
    BY <1>1, NoCallIs
  <2> QED BY <1>0, <2>1, CallHasHandler
<1>3. /\ s4' \in [Handlers -> Part1!HandlerStates] /\ s4'[m] = Part1!Idle
      /\ \A h \in Handlers \ {m} : s4'[h] = s4[h]
  BY <1>1, <1>2, IdleIs DEF Part1!TransferInv, Part1!Records
<1>4. s3.reply \in {"ok", "not found"}
  BY <1>1, <1>2 DEF Part1!CallStates
<1>5. /\ s5' \in Part1!StatusStates /\ s5'.op = s5.op /\ s5'.code = s3.reply
      /\ s5'.before = s5.before
  BY <1>1, <1>2, <1>4 DEF Part1!StatusStates
<1>6. \A h \in Handlers : ~Part1!Serves(h)'
  BY <1>1 DEF Part1!Serves
<1>7. Part1!Records'
  <2>1. Part1!Copy(s1') /\ Part1!Copy(s2')
    BY <1>1 DEF Part1!TransferInv, Part1!Records, Part1!Copy
  <2> QED BY <1>1, <1>3, <1>5, <2>1, NoCallIs
          DEF Part1!TransferInv, Part1!Records, Part1!Copy
<1>8. Part1!Streams'
  BY <1>1, <1>3, NoCallIs, IdleIs DEF Part1!TransferInv, Part1!Streams, Part1!None
<1>9. Part1!Served'
  <2>1. ASSUME NEW h \in Handlers \ {m}
        PROVE s4'[h] = Part1!Idle \/ (s4'[h].cancelled /\ s4'[h].pc # "returned")
    <3>1. ~Part1!Serves(h)
      BY <1>2 DEF Part1!Serves
    <3> QED BY <1>3, <3>1 DEF Part1!TransferInv, Part1!Served
  <2> QED BY <1>1, <1>3, <1>6, <2>1 DEF Part1!Served
<1>10. ~s6 => \A h \in Handlers : s4'[h] = Part1!Idle
  BY <1>2, <1>3 DEF Part1!TransferInv, Part1!Alone
<1>11. Part1!Alone'
  BY <1>1, <1>10 DEF Part1!Alone
<1>12. Part1!Uploaded'
  <2> SUFFICES ASSUME ~s6, s5.op = "store" PROVE Part1!Uploaded'
    BY <1>1, <1>5 DEF Part1!Uploaded
  <2>1. /\ s1 \in Seq(Part1!Blocks)
        /\ s4[m].file = Part1!None => s4[m].pos = 0
        /\ s4[m].file # Part1!None => Part1!StartOf(s2, s1) /\ Len(s2) = s4[m].pos
        /\ s3.done = s4[m].pos + Len(s4[m].stream)
        /\ s4[m].closed => s3.done = Len(s1)
        /\ s3.reply = "ok" /\ s4[m].closed /\ s4[m].stream = << >>
        /\ s2 = s5.before \/ Part1!StartOf(s2, s1)
    BY <1>1, <1>2, StoreAlone
  <2>2. s4[m].pos = Len(s1)
    <3>1. Len(s4[m].stream) = 0 /\ s4[m].pos \in Nat
      BY <1>2, <2>1 DEF Part1!HandlerStates
    <3> QED BY <2>1, <3>1
  <2>3. s1 = << >> \/ s2 = s1
    <3>1. CASE s4[m].file = Part1!None
      <4>1. s1 \in Seq(Part1!Blocks) /\ Len(s1) = 0
        BY <2>1, <2>2, <3>1
      <4> QED BY <4>1
    <3>2. CASE s4[m].file # Part1!None
      BY <2>1, <2>2, <3>2, WholeStart
    <3> QED BY <3>1, <3>2
  <2>4. s1' = s1
    BY <1>1, <1>2
  <2> QED BY <1>1, <1>5, <1>10, <2>1, <2>3, <2>4 DEF Part1!Uploaded
<1>13. Part1!Downloaded'
  <2> SUFFICES ASSUME ~s6, s5.op = "fetch" PROVE Part1!Downloaded'
    BY <1>1, <1>5 DEF Part1!Downloaded
  <2>1. /\ s1 \in Seq(Part1!Blocks) /\ Len(s1) = s3.done /\ s4[m].stream = << >>
        /\ s4[m].file # Part1!None =>
             /\ Part1!StartOf(s1, s2)
             /\ s4[m].length = Len(s2)
             /\ s3.done + Len(s4[m].stream) = s4[m].pos
        /\ s3.reply = "ok" => s4[m].file # Part1!None /\ s4[m].pos = s4[m].length
        /\ s3.reply = "not found" => s2 = Absent
    BY <1>1, <1>2, FetchAlone
  <2>2. s3.reply = "ok" => s1' = s2
    <3> SUFFICES ASSUME s3.reply = "ok" PROVE s1 = s2
      BY <1>1
    <3>1. s3.done \in Nat /\ Len(s4[m].stream) = 0
      BY <1>2, <2>1 DEF Part1!CallStates
    <3>2. Len(s1) = Len(s2)
      BY <2>1, <3>1
    <3> QED BY <2>1, <3>2, WholeStart
  <2>3. s3.reply = "not found" => s1' = Absent /\ s2 = Absent
    BY <1>1, <1>2, <2>1
  <2> QED BY <1>1, <1>4, <1>5, <1>6, <2>2, <2>3 DEF Part1!Downloaded, Part1!None
<1> QED BY <1>7, <1>8, <1>9, <1>11, <1>12, <1>13 DEF Part1!TransferInv

\* The client goes on without its call; the handler does too, unless it has returned.
LEMMA TimeOutKeeps ==
    ASSUME Part1!TransferInv, Part1!TimeOut
    PROVE  Part1!TransferInv'
<1>0. PICK m : m = s3.handler
  OBVIOUS
<1> DEFINE k == IF s3.reply # Part1!None THEN Part1!Idle ELSE [s4[m] EXCEPT !.cancelled = TRUE]
<1>1. /\ s3 # Part1!NoCall /\ s5' = [s5 EXCEPT !.code = "deadline exceeded"]
      /\ s4' = [s4 EXCEPT ![m] = k] /\ s3' = Part1!NoCall /\ UNCHANGED <<s1, s2, s6>>
  BY <1>0 DEF Part1!TimeOut, Part1!Mine
<1>2. /\ m \in Handlers /\ s4[m] \in Part1!HandlerStates
      /\ s3 \in Part1!CallStates /\ s5 \in Part1!StatusStates
      /\ Part1!Serves(m) /\ s4[m] # Part1!Idle
      /\ s5.op = s3.op /\ s4[m].op = s3.op /\ s3.op # Part1!None /\ s5.code = Part1!None
      /\ s4[m].pc = "returned" <=> s3.reply # Part1!None
  BY <1>0, <1>1, CallHasHandler
<1>3. \/ k = Part1!Idle
      \/ /\ k \in Part1!HandlerStates /\ k.op = s4[m].op /\ k.pc = s4[m].pc
         /\ k.pc # "returned" /\ k.cancelled /\ k.file = s4[m].file /\ k.stream = s4[m].stream
         /\ k.pos = s4[m].pos
  <2>1. CASE s3.reply = Part1!None
    BY <1>2, <2>1 DEF Part1!HandlerStates
  <2> QED BY <2>1
<1> HIDE DEF k
<1>4. k \in Part1!HandlerStates
  BY <1>3, IdleIs
<1>5. /\ s4' \in [Handlers -> Part1!HandlerStates] /\ s4'[m] = k
      /\ \A h \in Handlers \ {m} : s4'[h] = s4[h]
  BY <1>1, <1>2, <1>4 DEF Part1!TransferInv, Part1!Records
<1>6. /\ s5' \in Part1!StatusStates /\ s5'.op = s5.op /\ s5'.code = "deadline exceeded"
      /\ s5'.before = s5.before
  BY <1>1, <1>2 DEF Part1!StatusStates
<1>7. \A h \in Handlers : ~Part1!Serves(h)'
  BY <1>1 DEF Part1!Serves
<1>8. Part1!Records'
  BY <1>1, <1>5, <1>6, NoCallIs DEF Part1!TransferInv, Part1!Records, Part1!Copy
<1>9. Part1!Streams'
  BY <1>1, <1>2, <1>3, <1>5, NoCallIs, IdleIs, ZenonT(60) DEF Part1!TransferInv, Part1!Streams, Part1!None
<1>10. Part1!Served'
  <2>1. ASSUME NEW h \in Handlers \ {m}
        PROVE s4'[h] = Part1!Idle \/ (s4'[h].cancelled /\ s4'[h].pc # "returned")
    <3>1. ~Part1!Serves(h)
      BY <1>2 DEF Part1!Serves
    <3> QED BY <1>5, <3>1 DEF Part1!TransferInv, Part1!Served
  <2>2. s4'[m] = Part1!Idle \/ (s4'[m].cancelled /\ s4'[m].pc # "returned")
    BY <1>3, <1>5
  <2> QED BY <1>1, <1>7, <2>1, <2>2 DEF Part1!Served
<1>11. ~s6 => \A h \in Handlers \ {m} : s4'[h] = Part1!Idle
  BY <1>2, <1>5 DEF Part1!TransferInv, Part1!Alone
<1>12. Part1!Alone'
  <2> SUFFICES ASSUME ~s6, s4'[m] # Part1!Idle
      PROVE  s4'[m].op = s5'.op /\ s4'[m].file # "gone"
    BY <1>1, <1>6, <1>11 DEF Part1!Alone
  <2>1. s4[m].file # "gone"
    BY <1>2 DEF Part1!TransferInv, Part1!Alone
  <2> QED BY <1>2, <1>3, <1>5, <1>6, <2>1
<1>13. Part1!Uploaded'
  <2> SUFFICES ASSUME ~s6, s5.op = "store" PROVE Part1!Uploaded'
    BY <1>1, <1>6 DEF Part1!Uploaded
  <2>1. /\ s1 \in Seq(Part1!Blocks) /\ Part1!Following(m, s1, s4[m].pos)
        /\ s4[m].file = Part1!None => s4[m].pos = 0 /\ s2 = s5.before
        /\ s4[m].file # Part1!None => Part1!StartOf(s2, s1) /\ Len(s2) = s4[m].pos
        /\ s2 = s5.before \/ Part1!StartOf(s2, s1)
    BY <1>2, StoreAlone
  <2>2. s4'[m] # Part1!Idle =>
          /\ Part1!Following(m, s1, s4[m].pos)'
          /\ s4'[m].file = Part1!None => s4'[m].pos = 0 /\ s2' = s5'.before
          /\ s4'[m].file # Part1!None => Part1!StartOf(s2', s1') /\ Len(s2') = s4'[m].pos
    <3>1. s4'[m] # Part1!Idle => /\ s4'[m].stream = s4[m].stream /\ s4'[m].pos = s4[m].pos
                                 /\ s4'[m].file = s4[m].file
      BY <1>3, <1>5
    <3>2. s4'[m] # Part1!Idle => Part1!Following(m, s1, s4[m].pos)'
      BY <1>1, <2>1, <3>1 DEF Part1!Following
    <3> QED BY <1>1, <1>6, <2>1, <3>1, <3>2
  <2> QED BY <1>1, <1>6, <1>7, <1>11, <2>1, <2>2 DEF Part1!Uploaded
<1>14. Part1!Downloaded'
  <2> SUFFICES ASSUME ~s6, s5.op = "fetch" PROVE Part1!Downloaded'
    BY <1>1, <1>6 DEF Part1!Downloaded
  <2>1. s1 = << >> \/ Part1!StartOf(s1, s2)
    BY <1>2, FetchAlone
  <2> QED BY <1>1, <1>6, <1>7, <2>1 DEF Part1!Downloaded, Part1!None
<1> QED BY <1>8, <1>9, <1>10, <1>12, <1>13, <1>14 DEF Part1!TransferInv

\* The invariant is inductive.
LEMMA TransferStep ==
    ASSUME Part1!TransferInv, Part1!Next
    PROVE  Part1!TransferInv'
<1>1. CASE Part1!Save
  BY <1>1, SaveKeeps
<1>2. CASE Part1!Store
  BY <1>2, BeginKeeps DEF Part1!Store
<1>3. CASE Part1!Fetch
  BY <1>3, BeginKeeps DEF Part1!Fetch
<1>4. CASE Part1!Delete
  BY <1>4, BeginKeeps DEF Part1!Delete
<1>5. CASE Part1!Stat
  BY <1>5, BeginKeeps DEF Part1!Stat
<1>6. CASE Part1!List
  BY <1>6, BeginKeeps DEF Part1!List
<1>7. CASE Part1!SendBlock \/ Part1!WritesDone \/ Part1!ReceiveBlock
  BY <1>7, SendBlockKeeps, WritesDoneKeeps, ReceiveBlockKeeps
<1>8. CASE Part1!Finish \/ Part1!TimeOut
  BY <1>8, FinishKeeps, TimeOutKeeps
<1>9. ASSUME NEW h \in Handlers,
             \/ Part1!UploadRead(h) \/ Part1!UploadWrite(h) \/ Part1!UploadFails(h)
             \/ Part1!DownloadOpen(h) \/ Part1!DownloadSend(h) \/ Part1!Destroy(h)
             \/ Part1!Query(h)
      PROVE  Part1!TransferInv'
  BY <1>9, UploadReadKeeps, UploadWriteKeeps, UploadFailsKeeps, DownloadOpenKeeps,
     DownloadSendKeeps,
     DestroyKeeps, QueryKeeps
<1> QED BY <1>1, <1>2, <1>3, <1>4, <1>5, <1>6, <1>7, <1>8, <1>9 DEF Part1!Next

TransfersInv == program = "part1" => Part1!TransferInv

LEMMA TransfersInvariant == Spec => []TransfersInv
<1>1. Init => TransfersInv
  BY TransferInit DEF Init, TransfersInv
<1>2. TransfersInv /\ [Next]_vars => TransfersInv'
  <2> SUFFICES ASSUME TransfersInv, [Next]_vars, program' = "part1" PROVE Part1!TransferInv'
    BY DEF TransfersInv
  <2>1. CASE UNCHANGED vars
    <3>1. Part1!TransferInv /\ UNCHANGED <<s1, s2, s3, s4, s5, s6>>
      BY <2>1 DEF TransfersInv, vars
    <3>2. Part1!Records'
      BY <3>1 DEF Part1!TransferInv, Part1!Records, Part1!Copy
    <3>3. Part1!Streams'
      BY <3>1 DEF Part1!TransferInv, Part1!Streams
    <3>4. Part1!Served'
      BY <3>1 DEF Part1!TransferInv, Part1!Served, Part1!Serves
    <3>5. Part1!Alone'
      BY <3>1 DEF Part1!TransferInv, Part1!Alone
    <3>6. Part1!Uploaded'
      BY <3>1 DEF Part1!TransferInv, Part1!Uploaded, Part1!Following, Part1!Serves
    <3>7. Part1!Downloaded'
      BY <3>1 DEF Part1!TransferInv, Part1!Downloaded, Part1!Following, Part1!Serves
    <3> QED BY <3>2, <3>3, <3>4, <3>5, <3>6, <3>7 DEF Part1!TransferInv
  <2>2. CASE Next
    BY <2>2, TransferStep DEF Next, TransfersInv
  <2> QED BY <2>1, <2>2
<1> QED BY <1>1, <1>2, PTL DEF Spec

\* A beginning, as the properties state it.
LEMMA StartIsPrefix ==
    ASSUME NEW x, NEW y, Part1!StartOf(x, y)
    PROVE  Part1!Prefix(x, y)
<1>1. /\ x \in Seq(Part1!Blocks) /\ y \in Seq(Part1!Blocks) /\ Len(x) <= Len(y)
      /\ \A i \in 1 .. Len(x) : x[i] = y[i]
  BY DEF Part1!StartOf
<1>2. x # Absent /\ y # Absent
  BY <1>1, TransferAssumption
<1>3. /\ SubSeq(y, 1, Len(x)) \in Seq(Part1!Blocks) /\ Len(SubSeq(y, 1, Len(x))) = Len(x)
      /\ \A i \in 1 .. Len(x) : SubSeq(y, 1, Len(x))[i] = y[i]
  BY <1>1
<1>4. x = SubSeq(y, 1, Len(x))
  BY <1>1, <1>3
<1> QED BY <1>1, <1>2, <1>4 DEF Part1!Prefix

\* A store of part 1 that returned OK has made the server's file equal to the
\* client's, and one that did not has left what was there or a beginning of the
\* client's, whatever the order in which client and handler take their steps:
\* DFSClientNodeP1::Store and uploadFile.
THEOREM StoresAreTruthful == Spec => []StoreTruthful
<1>1. TransfersInv => StoreTruthful
  <2> SUFFICES ASSUME Part1!TransferInv PROVE Part1!StoreTruthful
    BY DEF TransfersInv, StoreTruthful
  <2> QED BY StartIsPrefix DEF Part1!TransferInv, Part1!Uploaded, Part1!StoreTruthful
<1> QED BY <1>1, TransfersInvariant, PTL

\* A fetch of part 1 leaves the client the server's file, no file when the server
\* has none, or, when it was cut off, a beginning of it: DFSClientNodeP1::Fetch and
\* downloadFile.
THEOREM FetchesAreTruthful == Spec => []FetchTruthful
<1>1. TransfersInv => FetchTruthful
  <2> SUFFICES ASSUME Part1!TransferInv PROVE Part1!FetchTruthful
    BY DEF TransfersInv, FetchTruthful
  <2> QED BY StartIsPrefix DEF Part1!TransferInv, Part1!Downloaded, Part1!FetchTruthful
<1> QED BY <1>1, TransfersInvariant, PTL
-----------------------------------------------------------------------------
(* Start and stop of proxy and cache.  Their variables are here: s1 the     *)
(* proxy, s2 the cache, s3 the queue that has the name, s4 the queues, s5   *)
(* the segments, s6 the semaphore, s7 whether all was in order.             *)

QueueMessages == [kind : {"size", "request"}, value : Int]

\* What the messages are.
LEMMA MessagesAre ==
    ASSUME NEW n \in Int
    PROVE  /\ Lifecycle!SizeMessage(n) \in QueueMessages
           /\ Lifecycle!RequestMessage(n) \in QueueMessages
           /\ Lifecycle!SizeMessage(n).kind = "size" /\ Lifecycle!SizeMessage(n).value = n
           /\ Lifecycle!RequestMessage(n).kind = "request"
           /\ Lifecycle!RequestMessage(n).value = n
BY DEF QueueMessages, Lifecycle!SizeMessage, Lifecycle!RequestMessage

\* One more request, of a worker that did not wait.
LEMMA RequestsGrow ==
    ASSUME NEW W \in SUBSET Segments, NEW i \in Segments \ W, NEW q \in Seq(QueueMessages),
           Lifecycle!AreRequests(q, W)
    PROVE  Lifecycle!AreRequests(Append(q, Lifecycle!RequestMessage(i)), W \cup {i})
<1> DEFINE x == Lifecycle!RequestMessage(i)
           r == Append(q, x)
<1>1. i \in Int /\ x \in QueueMessages /\ x.value = i
  BY LifecycleAssumption, MessagesAre
<1>2. /\ Len(r) = Len(q) + 1 /\ Len(q) \in Nat /\ r[Len(q) + 1] = x
      /\ \A j \in 1 .. Len(q) : r[j] = q[j]
  BY <1>1, AppendIs
<1>3. \A j \in 1 .. Len(q) : \E w \in W : q[j] = Lifecycle!RequestMessage(w)
  BY DEF Lifecycle!AreRequests
<1>4. \A j \in 1 .. Len(q) : q[j] # x
  <2> SUFFICES ASSUME NEW j \in 1 .. Len(q), NEW w \in W, q[j] = Lifecycle!RequestMessage(w)
      PROVE  q[j] # x
    BY <1>3
  <2>1. w \in Int /\ q[j].value = w
    BY LifecycleAssumption, MessagesAre
  <2> QED BY <1>1, <2>1
<1>5. \A j, k \in 1 .. Len(q) : q[j] = q[k] => j = k
  BY DEF Lifecycle!AreRequests
<1> HIDE DEF r, x
<1>6. \A j \in 1 .. Len(r) : j \in 1 .. Len(q) \/ j = Len(q) + 1
  BY <1>2
<1>7. \A j \in 1 .. Len(r) : \E w \in W \cup {i} : r[j] = Lifecycle!RequestMessage(w)
  BY <1>2, <1>3, <1>6 DEF x
<1>8. \A j, k \in 1 .. Len(r) : r[j] = r[k] => j = k
  BY <1>2, <1>4, <1>5, <1>6
<1>9. Lifecycle!AreRequests(r, W \cup {i})
  BY <1>7, <1>8 DEF Lifecycle!AreRequests
<1> QED BY <1>9 DEF r, x

\* The first request is of a worker that waits, and no other is of that worker.
LEMMA RequestsShrink ==
    ASSUME NEW W \in SUBSET Segments, NEW q \in Seq(QueueMessages), q # << >>,
           Lifecycle!AreRequests(q, W)
    PROVE  \E i \in W : /\ Head(q) = Lifecycle!RequestMessage(i)
                        /\ Lifecycle!AreRequests(Tail(q), W \ {i})
<1> DEFINE r == Tail(q)
<1>1. /\ Len(r) = Len(q) - 1 /\ Len(q) \in Nat \ {0} /\ Head(q) = q[1]
      /\ \A j \in 1 .. Len(q) - 1 : r[j] = q[j + 1]
  BY TailIs
<1>2. /\ \A j \in 1 .. Len(q) : \E w \in W : q[j] = Lifecycle!RequestMessage(w)
      /\ \A j, k \in 1 .. Len(q) : q[j] = q[k] => j = k
  BY DEF Lifecycle!AreRequests
<1>3. PICK i \in W : q[1] = Lifecycle!RequestMessage(i)
  BY <1>1, <1>2
<1> HIDE DEF r
<1>4. \A j \in 1 .. Len(r) : j + 1 \in 1 .. Len(q) /\ r[j] = q[j + 1] /\ j + 1 # 1 /\ j \in Int
  BY <1>1
<1>5. \A j \in 1 .. Len(r) : \E w \in W \ {i} : r[j] = Lifecycle!RequestMessage(w)
  <2> SUFFICES ASSUME NEW j \in 1 .. Len(r)
      PROVE  \E w \in W \ {i} : r[j] = Lifecycle!RequestMessage(w)
    OBVIOUS
  <2>1. PICK w \in W : q[j + 1] = Lifecycle!RequestMessage(w)
    BY <1>2, <1>4
  <2>2. 1 \in 1 .. Len(q)
    BY <1>1
  <2>3. w # i
    BY <1>2, <1>3, <1>4, <2>1, <2>2
  <2> QED BY <1>4, <2>1, <2>3
<1>6. \A j, k \in 1 .. Len(r) : r[j] = r[k] => j = k
  <2> SUFFICES ASSUME NEW j \in 1 .. Len(r), NEW k \in 1 .. Len(r), r[j] = r[k] PROVE j = k
    OBVIOUS
  <2>1. j + 1 = k + 1 /\ j \in Int /\ k \in Int
    BY <1>2, <1>4
  <2> QED BY <2>1
<1>7. Lifecycle!AreRequests(r, W \ {i})
  BY <1>5, <1>6 DEF Lifecycle!AreRequests
<1> QED BY <1>1, <1>3, <1>7 DEF r

\* Where no worker waits there is no request, and the empty queue has none.
LEMMA NoRequests ==
    ASSUME NEW q \in Seq(QueueMessages)
    PROVE  /\ Lifecycle!AreRequests(q, {}) => q = << >>
           /\ \A W : Lifecycle!AreRequests(<< >>, W)
<1>1. Lifecycle!AreRequests(q, {}) => Len(q) = 0
  <2> SUFFICES ASSUME Lifecycle!AreRequests(q, {}), Len(q) # 0 PROVE FALSE
    OBVIOUS
  <2>1. 1 \in 1 .. Len(q)
    OBVIOUS
  <2> QED BY <2>1 DEF Lifecycle!AreRequests
<1>2. Len(q) = 0 => q = << >>
  OBVIOUS
<1>3. \A W : Lifecycle!AreRequests(<< >>, W)
  BY DEF Lifecycle!AreRequests
<1> QED BY <1>1, <1>2, <1>3

\* One queue is changed.
LEMMA QueueChanged ==
    ASSUME NEW qs \in Seq(Seq(QueueMessages)), NEW m \in 1 .. Len(qs),
           NEW x \in Seq(QueueMessages)
    PROVE  /\ [qs EXCEPT ![m] = x] \in Seq(Seq(QueueMessages))
           /\ Len([qs EXCEPT ![m] = x]) = Len(qs) /\ Len(qs) \in Nat
           /\ [qs EXCEPT ![m] = x][m] = x
           /\ \A k \in 1 .. Len(qs) : k # m => [qs EXCEPT ![m] = x][k] = qs[k]
OBVIOUS

\* mqueue_init leads to an old queue or a new one, which is empty.
LEMMA QueueOpened ==
    ASSUME NEW qs, qs = s4, qs \in Seq(Seq(QueueMessages)), s3 \in 0 .. Len(qs),
           Lifecycle!MqueueInit
    PROVE  /\ s4' \in Seq(Seq(QueueMessages)) /\ Len(qs) \in Nat
           /\ s3' \in 1 .. Len(s4')
           /\ \A k \in 1 .. Len(qs) : k \in 1 .. Len(s4') /\ s4'[k] = qs[k] /\ k \in Int
           /\ s3 # 0 => s3' = s3 /\ s4' = qs
           /\ s3 = 0 => s4'[s3'] = << >> /\ s3' = Len(qs) + 1
<1>1. << >> \in Seq(QueueMessages)
  OBVIOUS
<1>2. /\ Append(qs, << >>) \in Seq(Seq(QueueMessages)) /\ Len(Append(qs, << >>)) = Len(qs) + 1
      /\ Len(qs) \in Nat /\ Append(qs, << >>)[Len(qs) + 1] = << >>
      /\ \A k \in 1 .. Len(qs) : Append(qs, << >>)[k] = qs[k]
  BY <1>1, AppendIs
<1> DEFINE r == Append(qs, << >>)
<1>3. IF s3 = 0 THEN s3' = Len(qs) + 1 /\ s4' = r ELSE s3' = s3 /\ s4' = qs
  BY DEF Lifecycle!MqueueInit, Lifecycle!NoQueue
<1> HIDE DEF r
<1>4. CASE s3 = 0
  <2>1. /\ r \in Seq(Seq(QueueMessages)) /\ Len(r) = Len(qs) + 1
        /\ Len(qs) \in Nat /\ r[Len(qs) + 1] = << >> /\ \A k \in 1 .. Len(qs) : r[k] = qs[k]
    BY <1>2 DEF r
  <2>2. s3' = Len(qs) + 1 /\ s4' = r
    BY <1>3, <1>4
  <2> QED BY <1>4, <2>1, <2>2
<1>5. CASE s3 # 0
  <2>1. s3' = s3 /\ s4' = qs
    BY <1>3, <1>5
  <2> QED BY <1>2, <1>5, <2>1
<1> QED BY <1>4, <1>5

\* The first message of a queue, and what is left of it.
LEMMA MessageTaken ==
    ASSUME NEW qs \in Seq(Seq(QueueMessages)), NEW m \in 1 .. Len(qs), qs[m] # << >>
    PROVE  /\ qs[m] \in Seq(QueueMessages) /\ Tail(qs[m]) \in Seq(QueueMessages)
           /\ Head(qs[m]) \in QueueMessages /\ Head(qs[m]).value \in Int
<1>1. qs[m] \in Seq(QueueMessages)
  BY ElementIn
<1> DEFINE q == qs[m]
<1> HIDE DEF q
<1>2. q \in Seq(QueueMessages) /\ q # << >>
  BY <1>1 DEF q
<1>3. Head(q) \in QueueMessages /\ Tail(q) \in Seq(QueueMessages)
  BY <1>2, HeadIn
<1> QED BY <1>1, <1>3 DEF q, QueueMessages

\* Types, whether things are in order or not.
LEMMA LabelsKept ==
    ASSUME Lifecycle!Labels, Lifecycle!Next
    PROVE  Lifecycle!Labels'
<1> USE LifecycleAssumption DEF Lifecycle!NoQueue, Lifecycle!NoSize, Lifecycle!Garbage
<1> DEFINE Queues == Seq(Seq(QueueMessages))
<1>0. s4 \in Queues
  BY DEF Lifecycle!Labels, QueueMessages
<1>1. PICK qs : qs = s4
  OBVIOUS
<1>2. qs \in Queues /\ Len(qs) \in Nat
  BY <1>0, <1>1
<1>3. ASSUME s4' \in Queues
      PROVE  s4' \in Seq(Seq([kind : {"size", "request"}, value : Int]))
  BY <1>3 DEF QueueMessages
<1>4. CASE Lifecycle!ProxyOpen
  <2>1. /\ s4' \in Queues /\ s3' \in 1 .. Len(s4') /\ s3' \in Nat
        /\ \A k \in 1 .. Len(qs) : k \in 1 .. Len(s4')
    BY <1>1, <1>2, <1>4, QueueOpened DEF Lifecycle!ProxyOpen, Lifecycle!Labels
  <2>2. s1' \in [pc : {"down", "size", "segments", "serve", "stopping", "crashed"},
                 mq : Nat, run : Nat, waiting : SUBSET Segments, read : BOOLEAN]
        /\ s1'.mq = s3'
    <3>1. s1' = [pc |-> "size", mq |-> s3', run |-> s1.run + 1, waiting |-> {}, read |-> FALSE]
      BY <1>4 DEF Lifecycle!ProxyOpen
    <3>2. s1.run + 1 \in Nat
      BY DEF Lifecycle!Labels
    <3> QED BY <2>1, <3>1, <3>2
  <2> HIDE DEF Queues
  <2>3. UNCHANGED <<s2, s5>> /\ s3' \in 0 .. Len(s4')
    BY <1>4, <2>1 DEF Lifecycle!ProxyOpen
  <2>4. ~Lifecycle!Down(s2.pc) => s2.mq \in 1 .. Len(s4')
    BY <1>1, <2>1 DEF Lifecycle!Labels
  <2> QED BY <1>3, <2>1, <2>2, <2>3, <2>4 DEF Lifecycle!Labels
<1>5. CASE Lifecycle!CacheOpen
  <2>1. /\ s4' \in Queues /\ s3' \in 1 .. Len(s4') /\ s3' \in Nat
        /\ \A k \in 1 .. Len(qs) : k \in 1 .. Len(s4')
    BY <1>1, <1>2, <1>5, QueueOpened DEF Lifecycle!CacheOpen, Lifecycle!Labels
  <2> HIDE DEF Queues
  <2> QED BY <1>1, <1>3, <1>5, <2>1, SMTT(30) DEF Lifecycle!CacheOpen, Lifecycle!Labels
<1>6. CASE Lifecycle!ProxySize
  <2>1. PICK m, x : m = s1.mq /\ x = Append(qs[m], Lifecycle!SizeMessage(s1.run))
    OBVIOUS
  <2>2. m \in 1 .. Len(qs) /\ s1.run \in Int
    BY <1>1, <1>6, <2>1 DEF Lifecycle!ProxySize, Lifecycle!Labels, Lifecycle!Down
  <2>3. qs[m] \in Seq(QueueMessages) /\ Lifecycle!SizeMessage(s1.run) \in QueueMessages
    BY <1>2, <2>2, ElementIn, MessagesAre
  <2>4. x \in Seq(QueueMessages)
    BY <2>1, <2>3
  <2>5. s4' = [qs EXCEPT ![m] = x]
    BY <1>1, <1>6, <2>1 DEF Lifecycle!ProxySize
  <2>6. s4' \in Queues /\ Len(s4') = Len(qs)
    BY <1>2, <2>2, <2>4, <2>5, QueueChanged
  <2> HIDE DEF Queues
  <2> QED BY <1>1, <1>3, <1>6, <2>6 DEF Lifecycle!ProxySize, Lifecycle!Labels, Lifecycle!Down
<1>7. ASSUME NEW i \in Segments, Lifecycle!Request(i) PROVE Lifecycle!Labels'
  <2>1. PICK m, x : m = s1.mq /\ x = Append(qs[m], Lifecycle!RequestMessage(i))
    OBVIOUS
  <2>2. m \in 1 .. Len(qs) /\ i \in Int
    BY <1>1, <1>7, <2>1 DEF Lifecycle!Request, Lifecycle!Labels, Lifecycle!Down
  <2>3. qs[m] \in Seq(QueueMessages) /\ Lifecycle!RequestMessage(i) \in QueueMessages
    BY <1>2, <2>2, ElementIn, MessagesAre
  <2>4. x \in Seq(QueueMessages)
    BY <2>1, <2>3
  <2>5. s4' = [qs EXCEPT ![m] = x]
    BY <1>1, <1>7, <2>1 DEF Lifecycle!Request
  <2>6. s4' \in Queues /\ Len(s4') = Len(qs)
    BY <1>2, <2>2, <2>4, <2>5, QueueChanged
  <2> HIDE DEF Queues
  <2> QED BY <1>1, <1>3, <1>7, <2>6 DEF Lifecycle!Request, Lifecycle!Labels, Lifecycle!Down
<1>8. CASE Lifecycle!CacheReadSize \/ Lifecycle!Serve
  <2>1. PICK m : m = s2.mq
    OBVIOUS
  <2>2. m \in 1 .. Len(qs) /\ qs[m] # << >>
    BY <1>1, <1>8, <2>1 DEF Lifecycle!CacheReadSize, Lifecycle!Serve, Lifecycle!Labels, Lifecycle!Down
  <2>3. Tail(qs[m]) \in Seq(QueueMessages) /\ Head(qs[m]).value \in Int
    BY <1>2, <2>2, MessageTaken
  <2>4. s4' = [qs EXCEPT ![m] = Tail(qs[m])]
    BY <1>1, <1>8, <2>1 DEF Lifecycle!CacheReadSize, Lifecycle!Serve
  <2>5. s4' \in Queues /\ Len(s4') = Len(qs)
    BY <1>2, <2>2, <2>3, <2>4, QueueChanged
  <2> HIDE DEF Queues
  <2>6. CASE Lifecycle!CacheReadSize
    <3>1. PICK v : v = s2'.size
      OBVIOUS
    <3>2. s2' = [s2 EXCEPT !.pc = "semaphore", !.size = v] /\ v \in Int
      BY <1>1, <2>1, <2>3, <2>6, <3>1 DEF Lifecycle!CacheReadSize, Lifecycle!Labels
    <3>3. PICK b : b = (s1.read \/ v = s1.run)
      OBVIOUS
    <3>4. b \in BOOLEAN /\ s1' = [s1 EXCEPT !.read = b]
      BY <2>6, <3>1, <3>3 DEF Lifecycle!CacheReadSize, Lifecycle!Labels
    <3>5. UNCHANGED <<s3, s5>> /\ s2.pc = "size"
      BY <2>6 DEF Lifecycle!CacheReadSize
    <3> QED BY <1>1, <1>3, <2>5, <3>2, <3>4, <3>5 DEF Lifecycle!Labels, Lifecycle!Down
  <2>7. CASE Lifecycle!Serve
    <3>1. s1' \in [pc : {"down", "size", "segments", "serve", "stopping", "crashed"},
                   mq : Nat, run : Nat, waiting : SUBSET Segments, read : BOOLEAN]
          /\ s1'.pc = s1.pc /\ s1'.mq = s1.mq
      <4>1. PICK W \in SUBSET Segments : s1' = s1 \/ s1' = [s1 EXCEPT !.waiting = W]
        <5>1. s1.waiting \in SUBSET Segments
          BY DEF Lifecycle!Labels
        <5>2. s1' = s1 \/ \E i : s1' = [s1 EXCEPT !.waiting = s1.waiting \ {i}]
          BY <2>7 DEF Lifecycle!Serve
        <5> QED BY <5>1, <5>2
      <4> QED BY <4>1 DEF Lifecycle!Labels
    <3>2. s5' \in [Segments \cup {Extra} -> {"absent", "whole", "hollow"}]
      BY <2>7 DEF Lifecycle!Serve, Lifecycle!Labels
    <3>3. /\ s2' \in [pc : {"down", "size", "semaphore", "serve", "crashed"}, mq : Nat, size : Int]
          /\ s2' = s2 \/ s2'.pc = "crashed"
      BY <2>7 DEF Lifecycle!Serve, Lifecycle!Labels
    <3>4. s3' = s3
      BY <2>7 DEF Lifecycle!Serve
    <3> QED BY <1>1, <1>3, <2>5, <3>1, <3>2, <3>3, <3>4 DEF Lifecycle!Labels, Lifecycle!Down
  <2> QED BY <1>8, <2>6, <2>7
<1>9. CASE Lifecycle!ProxySegments \/ Lifecycle!ProxySignal \/ Lifecycle!ProxyExit
           \/ Lifecycle!WorkerMeetsHandler
  <2>1. s4' = s4 /\ s2' = s2
    BY <1>9 DEF Lifecycle!ProxySegments, Lifecycle!ProxySignal, Lifecycle!ProxyExit,
       Lifecycle!WorkerMeetsHandler
  <2>2. s1' \in [pc : {"down", "size", "segments", "serve", "stopping", "crashed"},
                 mq : Nat, run : Nat, waiting : SUBSET Segments, read : BOOLEAN]
        /\ (~Lifecycle!Down(s1'.pc) => s1'.mq = s1.mq /\ ~Lifecycle!Down(s1.pc))
    <3>1. \/ s1' = [s1 EXCEPT !.pc = "serve"] /\ s1.pc = "segments"
          \/ s1' = [s1 EXCEPT !.pc = "stopping"] /\ s1.pc = "serve"
          \/ s1' = [s1 EXCEPT !.pc = "crashed"]
          \/ s1' = [s1 EXCEPT !.pc = "down", !.mq = 0]
      BY <1>9 DEF Lifecycle!ProxySegments, Lifecycle!ProxySignal, Lifecycle!ProxyExit,
         Lifecycle!WorkerMeetsHandler
    <3>2. ~Lifecycle!Down("segments") /\ ~Lifecycle!Down("serve") /\ Lifecycle!Down("down")
          /\ Lifecycle!Down("crashed")
      BY DEF Lifecycle!Down
    <3>3. PICK p : p = s1
      OBVIOUS
    <3>4. p \in [pc : {"down", "size", "segments", "serve", "stopping", "crashed"},
                 mq : Nat, run : Nat, waiting : SUBSET Segments, read : BOOLEAN]
      BY <3>3 DEF Lifecycle!Labels
    <3>5. CASE s1' = [p EXCEPT !.pc = "serve"] /\ p.pc = "segments"
      BY <3>2, <3>3, <3>4, <3>5
    <3>6. CASE s1' = [p EXCEPT !.pc = "stopping"] /\ p.pc = "serve"
      BY <3>2, <3>3, <3>4, <3>6
    <3>7. CASE s1' = [p EXCEPT !.pc = "crashed"]
      BY <3>2, <3>3, <3>4, <3>7
    <3>8. CASE s1' = [p EXCEPT !.pc = "down", !.mq = 0]
      BY <3>2, <3>3, <3>4, <3>8
    <3> QED BY <3>1, <3>3, <3>5, <3>6, <3>7, <3>8
  <2>3. s5' \in [Segments \cup {Extra} -> {"absent", "whole", "hollow"}]
    BY <1>9 DEF Lifecycle!ProxySegments, Lifecycle!ProxySignal, Lifecycle!ProxyExit,
       Lifecycle!WorkerMeetsHandler, Lifecycle!Labels, Lifecycle!AllSegments
  <2>4. s3' \in {s3, 0}
    BY <1>9 DEF Lifecycle!ProxySegments, Lifecycle!ProxySignal, Lifecycle!ProxyExit,
       Lifecycle!WorkerMeetsHandler
  <2> HIDE DEF Queues
  <2>5. 0 \in 0 .. Len(s4)
    BY <1>1, <1>2
  <2>6. s3' \in 0 .. Len(s4)
    BY <2>4, <2>5 DEF Lifecycle!Labels
  <2>7. ~Lifecycle!Down(s1'.pc) => s1'.mq \in 1 .. Len(s4)
    BY <2>2 DEF Lifecycle!Labels
  <2> QED BY <2>1, <2>2, <2>3, <2>6, <2>7 DEF Lifecycle!Labels
<1>10. CASE Lifecycle!CacheSemaphore \/ Lifecycle!CacheSignal
  <2>1. \/ s2' = [s2 EXCEPT !.pc = "serve"] /\ s2.pc = "semaphore"
        \/ \E pc \in {"down", "crashed"} : s2' = [s2 EXCEPT !.pc = pc, !.mq = 0]
    BY <1>10 DEF Lifecycle!CacheSemaphore, Lifecycle!CacheSignal
  <2>2. PICK c : c = s2
    OBVIOUS
  <2>3. /\ s2' \in [pc : {"down", "size", "semaphore", "serve", "crashed"}, mq : Nat, size : Int]
        /\ s2'.pc \in {"down", "crashed"} \/ (s2'.mq = s2.mq /\ s2.pc = "semaphore")
    <3>1. c \in [pc : {"down", "size", "semaphore", "serve", "crashed"}, mq : Nat, size : Int]
      BY <2>2 DEF Lifecycle!Labels
    <3>2. CASE s2' = [c EXCEPT !.pc = "serve"] /\ c.pc = "semaphore"
      BY <2>2, <3>1, <3>2
    <3>3. ASSUME NEW pc \in {"down", "crashed"}, s2' = [c EXCEPT !.pc = pc, !.mq = 0]
          PROVE  s2' \in [pc : {"down", "size", "semaphore", "serve", "crashed"}, mq : Nat, size : Int]
                 /\ s2'.pc \in {"down", "crashed"}
      BY <3>1, <3>3
    <3> QED BY <2>1, <2>2, <3>2, <3>3
  <2>4. UNCHANGED <<s1, s3, s4, s5>>
    BY <1>10 DEF Lifecycle!CacheSemaphore, Lifecycle!CacheSignal
  <2> HIDE DEF Queues
  <2> QED BY <2>3, <2>4 DEF Lifecycle!Labels, Lifecycle!Down
<1> QED
  BY <1>4, <1>5, <1>6, <1>7, <1>8, <1>9, <1>10
  DEF Lifecycle!Next, Lifecycle!ProxyStep, Lifecycle!CacheStep

\* In order, the queues of programs that are up.
LEMMA QueuesBounded ==
    ASSUME Lifecycle!Labels, Lifecycle!InOrder
    PROVE  /\ s2.mq \in 0 .. Len(s4) /\ Len(s4) \in Nat
           /\ s1.pc # "down" => s1.mq = s3 /\ s3 \in 1 .. Len(s4)
           /\ s1.pc \notin {"down", "size"} => s3 # 0 /\ s1.read \in BOOLEAN
<1>1. s4 \in Seq(Seq(QueueMessages)) /\ s3 \in 0 .. Len(s4)
      /\ (~Lifecycle!Down(s2.pc) => s2.mq \in 1 .. Len(s4)) /\ s1.read \in BOOLEAN
  BY DEF Lifecycle!Labels, QueueMessages
<1>2. Len(s4) \in Nat
  BY <1>1
<1>3. s2.pc = "down" => s2.mq = 0
  BY DEF Lifecycle!InOrder, Lifecycle!QueuesOpen, Lifecycle!NoQueue
<1>4. s2.mq \in 0 .. Len(s4)
  BY <1>1, <1>2, <1>3 DEF Lifecycle!InOrder, Lifecycle!Down
<1> QED
  BY <1>1, <1>2, <1>4 DEF Lifecycle!InOrder, Lifecycle!QueuesOpen, Lifecycle!NoQueue

\* Only a cache that still waits for a size is there when the proxy starts.
LEMMA ProxyOpenOrder ==
    ASSUME Lifecycle!Labels, Lifecycle!InOrder, Lifecycle!ProxyOpen,
           Lifecycle!Down(s2.pc) \/ s2.size = Lifecycle!NoSize
    PROVE  Lifecycle!InOrder'
<1> USE DEF Lifecycle!NoQueue, Lifecycle!NoSize
<1>1. PICK qs : qs = s4
  OBVIOUS
<1>2. qs \in Seq(Seq(QueueMessages))
  BY <1>1 DEF Lifecycle!Labels, QueueMessages
<1>3. /\ s1.pc = "down" /\ s2.pc \in {"down", "size"}
  BY DEF Lifecycle!Labels, Lifecycle!InOrder, Lifecycle!QueuesOpen, Lifecycle!ProxyOpen, Lifecycle!Down
<1>4. /\ Len(qs) \in Nat /\ s3' \in 1 .. Len(s4')
      /\ \A k \in 1 .. Len(qs) : k \in 1 .. Len(s4') /\ s4'[k] = qs[k] /\ k \in Int
      /\ s3 # 0 => s3' = s3 /\ s4' = qs
      /\ s3 = 0 => s4'[s3'] = << >> /\ s3' = Len(qs) + 1
  BY <1>1, <1>2, QueueOpened DEF Lifecycle!ProxyOpen, Lifecycle!Labels
<1>5. /\ s1'.pc = "size" /\ s1'.mq = s3' /\ s1'.run = s1.run + 1 /\ s1'.waiting = {}
      /\ s1'.read = FALSE /\ UNCHANGED <<s2, s5, s6>> /\ s1.run \in Nat
  BY DEF Lifecycle!ProxyOpen, Lifecycle!Labels
<1>6. s3 # 0 => s2.mq = s3 /\ s4[s3] = << >>
  BY <1>3 DEF Lifecycle!InOrder, Lifecycle!QueuesOpen
<1>7. s2.mq \in 0 .. Len(qs)
  BY <1>1, QueuesBounded
<1>8. s4'[s3'] = << >> /\ s3' # 0 /\ (s3 = 0 => s2.mq # s3') /\ (s3 # 0 => s2.mq = s3')
  BY <1>1, <1>4, <1>6, <1>7
<1>9. Lifecycle!QueuesOpen'
  BY <1>3, <1>5, <1>8 DEF Lifecycle!InOrder, Lifecycle!QueuesOpen
<1>10. Lifecycle!ObjectsThere'
  BY <1>3, <1>5 DEF Lifecycle!InOrder, Lifecycle!ObjectsThere
<1>11. Lifecycle!SizeFirst'
  BY <1>5 DEF Lifecycle!SizeFirst
<1>12. Lifecycle!OldQueues'
  <2> SUFFICES ASSUME s2.mq # 0, s3 = 0 PROVE Lifecycle!OldQueues'
    BY <1>5, <1>8 DEF Lifecycle!OldQueues
  <2>1. s2.pc = "size"
    BY <1>3 DEF Lifecycle!InOrder, Lifecycle!QueuesOpen
  <2>2. PICK r \in 1 .. s1.run : s4[s2.mq] = <<Lifecycle!SizeMessage(r)>>
    BY <2>1 DEF Lifecycle!InOrder, Lifecycle!OldQueues
  <2>3. s4'[s2.mq] = s4[s2.mq]
    BY <1>1, <1>4, <1>7
  <2>4. r \in 1 .. s1.run + 1 /\ r # s1.run + 1
    BY <1>5
  <2> QED BY <1>5, <2>1, <2>2, <2>3, <2>4 DEF Lifecycle!OldQueues
<1>13. s1'.run > 0 /\ s1'.pc # "crashed" /\ s2'.pc # "crashed"
  BY <1>3, <1>5
<1> QED BY <1>9, <1>10, <1>11, <1>12, <1>13 DEF Lifecycle!InOrder

\* A cache that starts meets no proxy whose size another has read.
LEMMA CacheOpenOrder ==
    ASSUME Lifecycle!Labels, Lifecycle!InOrder, Lifecycle!CacheOpen,
           Lifecycle!Down(s1.pc) \/ ~s1.read
    PROVE  Lifecycle!InOrder'
<1> USE DEF Lifecycle!NoQueue, Lifecycle!NoSize
<1>1. PICK qs : qs = s4
  OBVIOUS
<1>2. qs \in Seq(Seq(QueueMessages))
  BY <1>1 DEF Lifecycle!Labels, QueueMessages
<1>3. s2.pc = "down" /\ s2.mq = 0 /\ (s1.pc = "down" \/ ~s1.read)
  BY DEF Lifecycle!Labels, Lifecycle!InOrder, Lifecycle!QueuesOpen, Lifecycle!CacheOpen, Lifecycle!Down
<1>4. /\ Len(qs) \in Nat /\ s3' \in 1 .. Len(s4')
      /\ s3 # 0 => s3' = s3 /\ s4' = qs
      /\ s3 = 0 => s4'[s3'] = << >> /\ s3' = Len(qs) + 1
  BY <1>1, <1>2, QueueOpened DEF Lifecycle!CacheOpen, Lifecycle!Labels
<1>5. /\ s2' = [pc |-> "size", mq |-> s3', size |-> 0]
      /\ UNCHANGED <<s1, s5, s6>>
  BY DEF Lifecycle!CacheOpen
<1>6. IF s3 = 0 THEN s1.pc = "down" ELSE s1.pc # "down"
  BY <1>3 DEF Lifecycle!InOrder, Lifecycle!QueuesOpen
<1>7. s3' # 0
  BY <1>4
<1>8. Lifecycle!QueuesOpen'
  BY <1>1, <1>3, <1>4, <1>5, <1>6, <1>7 DEF Lifecycle!InOrder, Lifecycle!QueuesOpen
<1>9. Lifecycle!ObjectsThere'
  BY <1>3, <1>5 DEF Lifecycle!InOrder, Lifecycle!ObjectsThere
<1>10. Lifecycle!SizeFirst'
  BY <1>1, <1>3, <1>4, <1>5, <1>6 DEF Lifecycle!InOrder, Lifecycle!SizeFirst
<1>11. Lifecycle!OldQueues'
  BY <1>5 DEF Lifecycle!OldQueues
<1> QED BY <1>5, <1>8, <1>9, <1>10, <1>11 DEF Lifecycle!InOrder

\* The size message is the first in the proxy's queue.
LEMMA ProxySizeOrder ==
    ASSUME Lifecycle!Labels, Lifecycle!InOrder, Lifecycle!ProxySize
    PROVE  Lifecycle!InOrder'
<1> USE DEF Lifecycle!NoQueue, Lifecycle!NoSize
<1>1. PICK qs, m, x : qs = s4 /\ m = s3 /\ x = <<Lifecycle!SizeMessage(s1.run)>>
  OBVIOUS
<1>2. qs \in Seq(Seq(QueueMessages)) /\ s1.run \in Int
  BY <1>1 DEF Lifecycle!Labels, QueueMessages
<1>3. /\ s1.pc = "size" /\ UNCHANGED <<s2, s3, s5, s6>>
      /\ s1'.pc = "segments" /\ s1'.mq = s1.mq /\ s1'.run = s1.run /\ s1'.waiting = s1.waiting
      /\ s1'.read = s1.read
  BY DEF Lifecycle!ProxySize, Lifecycle!Labels
<1>4. s1.mq = m /\ m \in 1 .. Len(qs) /\ m # 0
  BY <1>1, <1>3, QueuesBounded
<1>5. qs[m] = << >> /\ ~s1.read /\ (s2.mq = m => s2.pc = "size")
  BY <1>1, <1>3, <1>4 DEF Lifecycle!InOrder, Lifecycle!QueuesOpen, Lifecycle!SizeFirst
<1>6. Lifecycle!SizeMessage(s1.run) \in QueueMessages
  BY <1>2, MessagesAre
<1>7. x \in Seq(QueueMessages) /\ s4' = [qs EXCEPT ![m] = x]
  BY <1>1, <1>4, <1>5, <1>6 DEF Lifecycle!ProxySize
<1>8. s4'[m] = x /\ \A k \in 1 .. Len(qs) : k # m => s4'[k] = qs[k]
  BY <1>2, <1>4, <1>7, QueueChanged
<1>9. x # << >> /\ Head(x) = Lifecycle!SizeMessage(s1.run) /\ Tail(x) = << >>
  BY <1>1
<1>10. Lifecycle!QueuesOpen'
  BY <1>1, <1>3, <1>4 DEF Lifecycle!InOrder, Lifecycle!QueuesOpen
<1>11. Lifecycle!ObjectsThere'
  BY <1>3 DEF Lifecycle!InOrder, Lifecycle!ObjectsThere
<1>12. Lifecycle!AreRequests(<< >>, s1.waiting)
  <2>1. << >> \in Seq(QueueMessages)
    OBVIOUS
  <2> QED BY <2>1, NoRequests
<1>13. Lifecycle!SizeFirst'
  BY <1>1, <1>3, <1>5, <1>8, <1>9, <1>12 DEF Lifecycle!SizeFirst
<1>14. Lifecycle!OldQueues'
  <2> SUFFICES ASSUME s2.mq # 0, s2.mq # m PROVE Lifecycle!OldQueues'
    BY <1>1, <1>3 DEF Lifecycle!OldQueues
  <2>1. s4'[s2.mq] = s4[s2.mq]
    <3>1. s2.mq \in 1 .. Len(qs)
      BY <1>1, QueuesBounded
    <3> QED BY <1>1, <1>8, <3>1
  <2> QED BY <1>1, <1>3, <2>1 DEF Lifecycle!InOrder, Lifecycle!OldQueues
<1> QED BY <1>3, <1>10, <1>11, <1>13, <1>14 DEF Lifecycle!InOrder

\* A message behind a queue that is not empty, and a queue of one.
LEMMA AppendBehind ==
    ASSUME NEW S, NEW q \in Seq(S), NEW x \in S, q # << >>
    PROVE  Head(Append(q, x)) = Head(q) /\ Tail(Append(q, x)) = Append(Tail(q), x)
OBVIOUS

LEMMA OneMessage ==
    ASSUME NEW S, NEW q \in Seq(S), q # << >>, Tail(q) = << >>
    PROVE  q = <<Head(q)>>
<1>1. Len(Tail(q)) = Len(q) - 1 /\ Len(q) \in Nat \ {0} /\ Head(q) = q[1] /\ Head(q) \in S
  BY TailIs
<1>2. PICK n, r0 : n = Len(q) /\ r0 = Tail(q)
  OBVIOUS
<1>3. Len(q) = 1
  <2>1. Len(r0) = n - 1 /\ n \in Nat /\ r0 = << >>
    BY <1>1, <1>2
  <2>2. Len(<< >>) = 0
    OBVIOUS
  <2>3. n - 1 = 0
    BY <2>1, <2>2, Zenon
  <2>4. n = 1
    BY <2>1, <2>3
  <2> QED BY <1>2, <2>4
<1> DEFINE r == <<Head(q)>>
<1>4. r \in Seq(S) /\ Len(r) = 1 /\ r[1] = q[1]
  BY <1>1
<1> HIDE DEF r
<1>5. q = r
  BY <1>3, <1>4
<1> QED BY <1>5 DEF r

\* A request joins the proxy's queue behind the size, when a cache has not read it.
LEMMA RequestOrder ==
    ASSUME Lifecycle!Labels, Lifecycle!InOrder, NEW i \in Segments, Lifecycle!Request(i)
    PROVE  Lifecycle!InOrder'
<1> USE DEF Lifecycle!NoQueue, Lifecycle!NoSize
<1>1. PICK qs, m, W, x : /\ qs = s4 /\ m = s3 /\ W = s1.waiting
                         /\ x = Append(qs[m], Lifecycle!RequestMessage(i))
  OBVIOUS
<1>2. /\ qs \in Seq(Seq(QueueMessages)) /\ s1.run \in Nat
      /\ W \in SUBSET Segments /\ i \in Segments \ W /\ s1.read \in BOOLEAN
  BY <1>1 DEF Lifecycle!Labels, QueueMessages, Lifecycle!Request
<1>3. /\ s1.pc = "serve" /\ UNCHANGED <<s2, s3, s6>> /\ s5' = [s5 EXCEPT ![i] = "whole"]
      /\ s1'.pc = "serve" /\ s1'.mq = s1.mq /\ s1'.run = s1.run /\ s1'.waiting = W \cup {i}
      /\ s1'.read = s1.read
  BY <1>1 DEF Lifecycle!Request, Lifecycle!Labels
<1>4. s1.mq = m /\ m \in 1 .. Len(qs) /\ m # 0
  BY <1>1, <1>3, QueuesBounded
<1>5. qs[m] \in Seq(QueueMessages) /\ Lifecycle!RequestMessage(i) \in QueueMessages
  BY <1>2, <1>4, ElementIn, MessagesAre, LifecycleAssumption
<1>6. x \in Seq(QueueMessages) /\ x # << >> /\ s4' = [qs EXCEPT ![m] = x]
  BY <1>1, <1>4, <1>5 DEF Lifecycle!Request
<1>7. s4'[m] = x /\ \A k \in 1 .. Len(qs) : k # m => s4'[k] = qs[k]
  BY <1>2, <1>4, <1>6, QueueChanged
<1>8. Lifecycle!QueuesOpen'
  BY <1>1, <1>3, <1>4 DEF Lifecycle!InOrder, Lifecycle!QueuesOpen
<1>9. Lifecycle!ObjectsThere'
  <2>1. s5' = s5
    BY <1>3 DEF Lifecycle!InOrder, Lifecycle!ObjectsThere, Lifecycle!Labels
  <2> QED BY <1>3, <2>1 DEF Lifecycle!InOrder, Lifecycle!ObjectsThere
<1>10. s1.read => Lifecycle!AreRequests(x, W \cup {i})
  <2> SUFFICES ASSUME s1.read PROVE Lifecycle!AreRequests(x, W \cup {i})
    OBVIOUS
  <2>1. Lifecycle!AreRequests(qs[m], W)
    BY <1>1, <1>3 DEF Lifecycle!InOrder, Lifecycle!SizeFirst
  <2> QED BY <1>1, <1>2, <1>5, <2>1, RequestsGrow
<1>11. ~s1.read => /\ Head(x) = Lifecycle!SizeMessage(s1.run)
                   /\ Lifecycle!AreRequests(Tail(x), W \cup {i})
  <2> SUFFICES ASSUME ~s1.read
      PROVE  /\ Head(x) = Lifecycle!SizeMessage(s1.run)
             /\ Lifecycle!AreRequests(Tail(x), W \cup {i})
    OBVIOUS
  <2>1. /\ qs[m] # << >> /\ Head(qs[m]) = Lifecycle!SizeMessage(s1.run)
        /\ Lifecycle!AreRequests(Tail(qs[m]), W)
    BY <1>1, <1>3 DEF Lifecycle!InOrder, Lifecycle!SizeFirst
  <2>2. Tail(qs[m]) \in Seq(QueueMessages)
    BY <1>5, <2>1, HeadIn
  <2>3. Lifecycle!AreRequests(Append(Tail(qs[m]), Lifecycle!RequestMessage(i)), W \cup {i})
    BY <1>2, <2>1, <2>2, RequestsGrow
  <2>4. /\ Head(x) = Head(qs[m])
        /\ Tail(x) = Append(Tail(qs[m]), Lifecycle!RequestMessage(i))
    BY <1>1, <1>5, <2>1, AppendBehind
  <2> QED BY <2>1, <2>3, <2>4
<1>12. Lifecycle!SizeFirst'
  BY <1>1, <1>3, <1>6, <1>7, <1>10, <1>11 DEF Lifecycle!InOrder, Lifecycle!SizeFirst
<1>13. Lifecycle!OldQueues'
  <2> SUFFICES ASSUME s2.mq # 0, s2.mq # m PROVE Lifecycle!OldQueues'
    BY <1>1, <1>3 DEF Lifecycle!OldQueues
  <2>1. s4'[s2.mq] = s4[s2.mq]
    <3>1. s2.mq \in 1 .. Len(qs)
      BY <1>1, QueuesBounded
    <3> QED BY <1>1, <1>7, <3>1
  <2> QED BY <1>1, <1>3, <2>1 DEF Lifecycle!InOrder, Lifecycle!OldQueues
<1> QED BY <1>3, <1>8, <1>9, <1>12, <1>13 DEF Lifecycle!InOrder

\* The segments come, and an idle proxy stops.
LEMMA ProxyTurnsOrder ==
    ASSUME Lifecycle!Labels, Lifecycle!InOrder,
           \/ Lifecycle!ProxySegments
           \/ Lifecycle!ProxySignal /\ s1.pc = "serve" /\ s1.waiting = {}
    PROVE  Lifecycle!InOrder'
<1>1. /\ s1.pc \in {"segments", "serve"} /\ s1.waiting = {} /\ UNCHANGED <<s2, s3, s4, s6>>
      /\ s1'.pc \in {"serve", "stopping"}
      /\ s1'.mq = s1.mq /\ s1'.run = s1.run /\ s1'.waiting = {} /\ s1'.read = s1.read
  BY DEF Lifecycle!ProxySegments, Lifecycle!ProxySignal, Lifecycle!Labels, Lifecycle!InOrder,
     Lifecycle!ObjectsThere
<1>2. \A i \in Segments \cup {Extra} : s5'[i] = IF i \in Segments THEN "whole" ELSE "absent"
  BY DEF Lifecycle!ProxySegments, Lifecycle!ProxySignal, Lifecycle!Labels, Lifecycle!InOrder,
     Lifecycle!ObjectsThere, Lifecycle!AllSegments
<1>3. Lifecycle!QueuesOpen'
  BY <1>1 DEF Lifecycle!InOrder, Lifecycle!QueuesOpen
<1>4. Lifecycle!ObjectsThere'
  BY <1>1, <1>2 DEF Lifecycle!InOrder, Lifecycle!ObjectsThere
<1>5. Lifecycle!SizeFirst'
  BY <1>1 DEF Lifecycle!InOrder, Lifecycle!SizeFirst
<1>6. Lifecycle!OldQueues'
  BY <1>1 DEF Lifecycle!InOrder, Lifecycle!OldQueues
<1> QED BY <1>1, <1>3, <1>4, <1>5, <1>6 DEF Lifecycle!InOrder

\* Behind an idle proxy there is its size message in the queue at most.
LEMMA ProxyExitOrder ==
    ASSUME Lifecycle!Labels, Lifecycle!InOrder, Lifecycle!ProxyExit
    PROVE  Lifecycle!InOrder'
<1> USE DEF Lifecycle!NoQueue, Lifecycle!NoSize
<1>1. /\ s1.pc = "stopping" /\ s1.waiting = {} /\ UNCHANGED <<s2, s4, s6>> /\ s3' = 0
      /\ s1'.pc = "down" /\ s1'.mq = 0 /\ s1'.run = s1.run /\ s1'.waiting = {}
      /\ s1.run \in Nat /\ s1.run > 0 /\ s1.read \in BOOLEAN
  BY DEF Lifecycle!ProxyExit, Lifecycle!Labels, Lifecycle!InOrder, Lifecycle!ObjectsThere
<1>2. \A i \in Segments \cup {Extra} : s5'[i] = "absent"
  BY DEF Lifecycle!ProxyExit, Lifecycle!Labels, Lifecycle!InOrder,
     Lifecycle!ObjectsThere, Lifecycle!AllSegments
<1>3. Lifecycle!QueuesOpen'
  BY <1>1 DEF Lifecycle!InOrder, Lifecycle!QueuesOpen
<1>4. Lifecycle!ObjectsThere'
  BY <1>1, <1>2 DEF Lifecycle!InOrder, Lifecycle!ObjectsThere
<1>5. Lifecycle!SizeFirst'
  BY <1>1 DEF Lifecycle!SizeFirst
<1>6. Lifecycle!OldQueues'
  <2> SUFFICES ASSUME s2.mq # 0 PROVE Lifecycle!OldQueues'
    BY <1>1 DEF Lifecycle!OldQueues
  <2>1. CASE s2.mq = s3
    <3>1. PICK qs, q : qs = s4 /\ q = qs[s3]
      OBVIOUS
    <3>2. q \in Seq(QueueMessages)
      <4>1. s3 \in 1 .. Len(qs) /\ qs \in Seq(Seq(QueueMessages))
        BY <1>1, <3>1, QueuesBounded DEF Lifecycle!Labels, QueueMessages
      <4> QED BY <3>1, <4>1, ElementIn
    <3>3. CASE s1.read
      <4>1. s2.pc # "size" /\ Lifecycle!AreRequests(q, {})
        BY <1>1, <2>1, <3>1, <3>3 DEF Lifecycle!InOrder, Lifecycle!SizeFirst
      <4>2. q = << >>
        BY <3>2, <4>1, NoRequests
      <4> QED BY <1>1, <2>1, <3>1, <4>1, <4>2 DEF Lifecycle!OldQueues
    <3>4. CASE ~s1.read
      <4>1. /\ s2.pc = "size" /\ q # << >> /\ Head(q) = Lifecycle!SizeMessage(s1.run)
            /\ Lifecycle!AreRequests(Tail(q), {})
        BY <1>1, <2>1, <3>1, <3>4 DEF Lifecycle!InOrder, Lifecycle!SizeFirst
      <4>2. Tail(q) = << >>
        BY <3>2, <4>1, HeadIn, NoRequests
      <4>3. q = <<Lifecycle!SizeMessage(s1.run)>>
        BY <3>2, <4>1, <4>2, OneMessage
      <4>4. s1.run \in 1 .. s1.run
        BY <1>1
      <4> QED BY <1>1, <2>1, <3>1, <4>1, <4>3, <4>4 DEF Lifecycle!OldQueues
    <3> QED BY <1>1, <3>3, <3>4
  <2>2. CASE s2.mq # s3
    BY <1>1, <2>2 DEF Lifecycle!InOrder, Lifecycle!OldQueues
  <2> QED BY <2>1, <2>2
<1> QED BY <1>1, <1>3, <1>4, <1>5, <1>6 DEF Lifecycle!InOrder

\* A starting cache takes the size of the running proxy, or one that is left over.
LEMMA CacheReadSizeOrder ==
    ASSUME Lifecycle!Labels, Lifecycle!InOrder, Lifecycle!CacheReadSize
    PROVE  Lifecycle!InOrder'
<1> USE DEF Lifecycle!NoQueue, Lifecycle!NoSize
<1>1. PICK qs, m, q : qs = s4 /\ m = s2.mq /\ q = qs[m]
  OBVIOUS
<1>2. /\ qs \in Seq(Seq(QueueMessages)) /\ s1.run \in Nat /\ s1.read \in BOOLEAN
      /\ s2.pc = "size" /\ m \in 1 .. Len(qs) /\ m # 0 /\ q # << >> /\ UNCHANGED <<s3, s5, s6>>
      /\ s4' = [qs EXCEPT ![m] = Tail(q)]
  <2>1. /\ s1.run \in Nat /\ s1.read \in BOOLEAN /\ qs \in Seq(Seq(QueueMessages))
    BY <1>1 DEF Lifecycle!Labels, QueueMessages
  <2>2. /\ s2.pc = "size" /\ q # << >> /\ UNCHANGED <<s3, s5, s6>>
        /\ s4' = [qs EXCEPT ![m] = Tail(q)]
    BY <1>1 DEF Lifecycle!CacheReadSize
  <2>3. m \in 1 .. Len(qs)
    BY <1>1, <2>2 DEF Lifecycle!Labels, Lifecycle!Down
  <2>4. m # 0
    BY <1>1, <2>2 DEF Lifecycle!InOrder, Lifecycle!QueuesOpen
  <2> QED BY <2>1, <2>2, <2>3, <2>4
<1>3. q \in Seq(QueueMessages) /\ Tail(q) \in Seq(QueueMessages)
  BY <1>1, <1>2, MessageTaken
<1>4. s4'[m] = Tail(q) /\ \A k \in 1 .. Len(qs) : k # m => s4'[k] = qs[k]
  BY <1>2, <1>3, QueueChanged
<1>5. PICK r \in 1 .. s1.run :
          /\ Head(q) = Lifecycle!SizeMessage(r)
          /\ IF m = s3 THEN /\ r = s1.run /\ s1.pc \in {"segments", "serve", "stopping"}
                            /\ Lifecycle!AreRequests(Tail(q), s1.waiting)
                       ELSE Tail(q) = << >> /\ (s1.pc # "down" => r # s1.run)
  <2>1. CASE m = s3
    <3>1. s1.pc \notin {"down", "size"}
      BY <1>1, <1>2, <2>1 DEF Lifecycle!InOrder, Lifecycle!QueuesOpen
    <3>2. s1.pc \in {"segments", "serve", "stopping"} /\ s1.run > 0
      BY <3>1 DEF Lifecycle!Labels, Lifecycle!InOrder
    <3>3. ~s1.read
      BY <1>1, <1>2, <2>1, <3>2 DEF Lifecycle!InOrder, Lifecycle!SizeFirst
    <3>4. Head(q) = Lifecycle!SizeMessage(s1.run) /\ Lifecycle!AreRequests(Tail(q), s1.waiting)
      BY <1>1, <2>1, <3>2, <3>3 DEF Lifecycle!InOrder, Lifecycle!SizeFirst
    <3>5. s1.run \in 1 .. s1.run
      BY <1>2, <3>2
    <3> QED BY <2>1, <3>2, <3>4, <3>5
  <2>2. CASE m # s3
    <3>1. PICK r \in 1 .. s1.run : /\ q = <<Lifecycle!SizeMessage(r)>>
                                   /\ s1.pc # "down" => r # s1.run
      BY <1>1, <1>2, <2>2 DEF Lifecycle!InOrder, Lifecycle!OldQueues
    <3>2. Head(q) = Lifecycle!SizeMessage(r) /\ Tail(q) = << >>
      BY <3>1
    <3> QED BY <2>2, <3>1, <3>2
  <2> QED BY <2>1, <2>2
<1>6. r \in Nat \ {0} /\ Head(q).kind = "size" /\ Head(q).value = r
  <2>1. r \in Int /\ r \in Nat \ {0}
    BY <1>2
  <2> QED BY <1>5, <2>1, MessagesAre
<1>7. s2' = [s2 EXCEPT !.pc = "semaphore", !.size = r]
  BY <1>1, <1>6 DEF Lifecycle!CacheReadSize
<1>8. s2'.pc = "semaphore" /\ s2'.mq = m /\ s2'.size = r
  BY <1>1, <1>7 DEF Lifecycle!Labels
<1>9. /\ s1'.pc = s1.pc /\ s1'.mq = s1.mq /\ s1'.run = s1.run /\ s1'.waiting = s1.waiting
      /\ s1'.read = (s1.read \/ r = s1.run)
  <2>1. s1' = [s1 EXCEPT !.read = s1.read \/ s2'.size = s1.run]
    BY DEF Lifecycle!CacheReadSize
  <2> QED BY <1>8, <2>1 DEF Lifecycle!Labels
<1>10. Lifecycle!QueuesOpen'
  <2>1. s1.pc \in {"down", "size"} /\ s3 # 0 => m # s3 /\ s4'[s3] = s4[s3]
    <3> SUFFICES ASSUME s1.pc \in {"down", "size"}, s3 # 0 PROVE m # s3 /\ s4'[s3] = s4[s3]
      OBVIOUS
    <3>1. m # s3
      BY <1>5
    <3>2. s3 \in 1 .. Len(qs)
      <4>1. s3 \in 0 .. Len(qs) /\ Len(qs) \in Nat
        BY <1>1, <1>2 DEF Lifecycle!Labels
      <4> QED BY <4>1
    <3> QED BY <1>1, <1>4, <3>1, <3>2
  <2> QED BY <1>1, <1>2, <1>6, <1>8, <1>9, <2>1 DEF Lifecycle!InOrder, Lifecycle!QueuesOpen
<1>11. Lifecycle!ObjectsThere'
  BY <1>2, <1>8, <1>9 DEF Lifecycle!InOrder, Lifecycle!ObjectsThere
<1>12. Lifecycle!SizeFirst'
  <2>1. CASE m = s3
    BY <1>2, <1>4, <1>5, <1>8, <1>9, <2>1 DEF Lifecycle!SizeFirst
  <2>2. CASE m # s3
    <3>1. s1.pc # "down" => s1'.read = s1.read /\ s4'[s3] = s4[s3]
      <4> SUFFICES ASSUME s1.pc # "down" PROVE s1'.read = s1.read /\ s4'[s3] = s4[s3]
        OBVIOUS
      <4>1. r # s1.run
        BY <1>5, <2>2
      <4>2. s3 \in 1 .. Len(qs)
        BY <1>1, QueuesBounded
      <4> QED BY <1>1, <1>2, <1>4, <1>9, <2>2, <4>1, <4>2
    <3> QED BY <1>1, <1>2, <1>8, <1>9, <2>2, <3>1 DEF Lifecycle!InOrder, Lifecycle!SizeFirst
  <2> QED BY <2>1, <2>2
<1>13. Lifecycle!OldQueues'
  BY <1>2, <1>4, <1>5, <1>8 DEF Lifecycle!OldQueues
<1> QED BY <1>2, <1>8, <1>9, <1>10, <1>11, <1>12, <1>13 DEF Lifecycle!InOrder

\* The semaphore comes.
LEMMA CacheSemaphoreOrder ==
    ASSUME Lifecycle!Labels, Lifecycle!InOrder, Lifecycle!CacheSemaphore
    PROVE  Lifecycle!InOrder'
<1>1. /\ s2.pc = "semaphore" /\ UNCHANGED <<s1, s3, s4, s5>> /\ s6' = TRUE
      /\ s2'.pc = "serve" /\ s2'.mq = s2.mq /\ s2'.size = s2.size
  BY DEF Lifecycle!CacheSemaphore, Lifecycle!Labels
<1>2. Lifecycle!QueuesOpen'
  BY <1>1 DEF Lifecycle!InOrder, Lifecycle!QueuesOpen
<1>3. Lifecycle!ObjectsThere'
  BY <1>1 DEF Lifecycle!InOrder, Lifecycle!ObjectsThere
<1>4. Lifecycle!SizeFirst'
  BY <1>1 DEF Lifecycle!InOrder, Lifecycle!SizeFirst
<1>5. Lifecycle!OldQueues'
  BY <1>1 DEF Lifecycle!InOrder, Lifecycle!OldQueues
<1> QED BY <1>1, <1>2, <1>3, <1>4, <1>5 DEF Lifecycle!InOrder

\* An idle cache stops, and closes its queue.
LEMMA CacheSignalOrder ==
    ASSUME Lifecycle!Labels, Lifecycle!InOrder, Lifecycle!CacheSignal,
           s2.pc = "serve"
    PROVE  Lifecycle!InOrder'
<1>1. /\ UNCHANGED <<s1, s3, s4, s5>> /\ s6' = FALSE
      /\ s2'.pc = "down" /\ s2'.mq = 0
  BY DEF Lifecycle!CacheSignal, Lifecycle!Labels, Lifecycle!NoQueue
<1>2. s1.pc \in {"down", "size"} /\ s3 # 0 => s2.mq # s3
  BY DEF Lifecycle!InOrder, Lifecycle!QueuesOpen, Lifecycle!NoQueue
<1>3. Lifecycle!QueuesOpen'
  BY <1>1, <1>2 DEF Lifecycle!InOrder, Lifecycle!QueuesOpen, Lifecycle!NoQueue
<1>4. Lifecycle!ObjectsThere'
  BY <1>1 DEF Lifecycle!InOrder, Lifecycle!ObjectsThere
<1>5. s1.pc \in {"segments", "serve", "stopping"} => s3 # 0
  BY DEF Lifecycle!InOrder, Lifecycle!QueuesOpen, Lifecycle!NoQueue
<1>6. Lifecycle!SizeFirst'
  BY <1>1, <1>5 DEF Lifecycle!InOrder, Lifecycle!SizeFirst
<1>7. Lifecycle!OldQueues'
  BY <1>1 DEF Lifecycle!OldQueues, Lifecycle!NoQueue
<1> QED BY <1>1, <1>3, <1>4, <1>6, <1>7 DEF Lifecycle!InOrder

\* What a serving cache takes is a request of the running proxy.
LEMMA ServeOrder ==
    ASSUME Lifecycle!Labels, Lifecycle!InOrder, Lifecycle!Serve
    PROVE  Lifecycle!InOrder'
<1> USE DEF Lifecycle!NoQueue, Lifecycle!NoSize
<1>1. PICK qs, m, q, W : qs = s4 /\ m = s2.mq /\ q = qs[m] /\ W = s1.waiting
  OBVIOUS
<1>2. /\ s2.pc = "serve" /\ q # << >> /\ UNCHANGED <<s3, s6>>
      /\ s4' = [qs EXCEPT ![m] = Tail(q)]
  BY <1>1 DEF Lifecycle!Serve
<1>3. qs \in Seq(Seq(QueueMessages)) /\ s1.read \in BOOLEAN /\ W \in SUBSET Segments
  BY <1>1 DEF Lifecycle!Labels, QueueMessages
<1>4. m \in 1 .. Len(qs) /\ m # 0
  BY <1>1, <1>2 DEF Lifecycle!Labels, Lifecycle!Down, Lifecycle!InOrder, Lifecycle!QueuesOpen
<1>5. q \in Seq(QueueMessages) /\ Tail(q) \in Seq(QueueMessages)
  BY <1>1, <1>2, <1>3, <1>4, MessageTaken
<1>6. m = s3
  BY <1>1, <1>2, <1>4 DEF Lifecycle!InOrder, Lifecycle!OldQueues
<1>7. s1.pc \in {"segments", "serve", "stopping"}
  <2>1. s1.pc \notin {"down", "size"}
    BY <1>1, <1>2, <1>4, <1>6 DEF Lifecycle!InOrder, Lifecycle!QueuesOpen
  <2> QED BY <2>1 DEF Lifecycle!Labels, Lifecycle!InOrder
<1>8. s1.read /\ Lifecycle!AreRequests(q, W) /\ s2.size = s1.run
  BY <1>1, <1>2, <1>3, <1>6, <1>7 DEF Lifecycle!InOrder, Lifecycle!SizeFirst
<1>9. PICK i \in W : /\ Head(q) = Lifecycle!RequestMessage(i)
                     /\ Lifecycle!AreRequests(Tail(q), W \ {i})
  BY <1>2, <1>3, <1>5, <1>8, RequestsShrink
<1>10. Lifecycle!NumberIn(Head(q)) = i
  <2>1. i \in Int
    BY <1>3, LifecycleAssumption
  <2> QED BY <1>9, <2>1, MessagesAre DEF Lifecycle!NumberIn
<1>11. s1.pc = "serve" /\ i \in Segments /\ s5[i] = "whole"
  BY <1>1, <1>3 DEF Lifecycle!InOrder, Lifecycle!ObjectsThere
<1>12. s2.size # Lifecycle!Garbage
  <2>1. s2.size \in Nat
    BY <1>2 DEF Lifecycle!InOrder, Lifecycle!QueuesOpen
  <2> QED BY <2>1 DEF Lifecycle!Garbage
<1>13. s1' = [s1 EXCEPT !.waiting = W \ {i}] /\ UNCHANGED <<s2, s5>>
  BY <1>1, <1>10, <1>11, <1>12 DEF Lifecycle!Serve
<1>14. /\ s1'.pc = s1.pc /\ s1'.mq = s1.mq /\ s1'.run = s1.run /\ s1'.waiting = W \ {i}
       /\ s1'.read = s1.read
  BY <1>13 DEF Lifecycle!Labels
<1>15. s4'[m] = Tail(q)
  BY <1>3, <1>4, <1>2, <1>5, QueueChanged
<1>16. Lifecycle!QueuesOpen'
  BY <1>2, <1>11, <1>13, <1>14 DEF Lifecycle!InOrder, Lifecycle!QueuesOpen
<1>17. Lifecycle!ObjectsThere'
  BY <1>2, <1>11, <1>13, <1>14 DEF Lifecycle!InOrder, Lifecycle!ObjectsThere
<1>18. Lifecycle!SizeFirst'
  BY <1>2, <1>6, <1>8, <1>9, <1>11, <1>13, <1>14, <1>15 DEF Lifecycle!SizeFirst
<1>19. Lifecycle!OldQueues'
  BY <1>1, <1>2, <1>6, <1>13 DEF Lifecycle!OldQueues
<1>20. s1'.pc # "crashed" /\ s2'.pc # "crashed" /\ (s1'.pc # "down" => s1'.run > 0)
  BY <1>2, <1>11, <1>13, <1>14 DEF Lifecycle!InOrder
<1> QED BY <1>16, <1>17, <1>18, <1>19, <1>20 DEF Lifecycle!InOrder

\* The invariant is inductive.
LEMMA LifecycleStep ==
    ASSUME Lifecycle!LifecycleInv, Lifecycle!Next
    PROVE  Lifecycle!LifecycleInv'
<1> USE DEF Lifecycle!LifecycleInv
<1>1. Lifecycle!Labels'
  BY LabelsKept
<1> SUFFICES ASSUME s7' PROVE Lifecycle!InOrder'
  BY <1>1
<1>2. CASE Lifecycle!ProxyOpen
  BY <1>2, ProxyOpenOrder DEF Lifecycle!ProxyOpen
<1>3. CASE Lifecycle!ProxySize
  BY <1>3, ProxySizeOrder DEF Lifecycle!ProxySize
<1>4. CASE Lifecycle!ProxySegments
  BY <1>4, ProxyTurnsOrder DEF Lifecycle!ProxySegments
<1>5. CASE Lifecycle!ProxySignal
  BY <1>5, ProxyTurnsOrder DEF Lifecycle!ProxySignal
<1>6. CASE Lifecycle!ProxyExit
  BY <1>6, ProxyExitOrder DEF Lifecycle!ProxyExit
<1>7. CASE Lifecycle!WorkerMeetsHandler
  BY <1>7 DEF Lifecycle!WorkerMeetsHandler, Lifecycle!InOrder, Lifecycle!ObjectsThere
<1>8. ASSUME NEW i \in Segments, Lifecycle!Request(i) PROVE Lifecycle!InOrder'
  BY <1>8, RequestOrder DEF Lifecycle!Request
<1>9. CASE Lifecycle!CacheOpen
  BY <1>9, CacheOpenOrder DEF Lifecycle!CacheOpen
<1>10. CASE Lifecycle!CacheReadSize
  BY <1>10, CacheReadSizeOrder DEF Lifecycle!CacheReadSize
<1>11. CASE Lifecycle!CacheSemaphore
  BY <1>11, CacheSemaphoreOrder DEF Lifecycle!CacheSemaphore
<1>12. CASE Lifecycle!Serve
  BY <1>12, ServeOrder DEF Lifecycle!Serve
<1>13. CASE Lifecycle!CacheSignal
  BY <1>13, CacheSignalOrder DEF Lifecycle!CacheSignal
<1> QED
  BY <1>2, <1>3, <1>4, <1>5, <1>6, <1>7, <1>8, <1>9, <1>10, <1>11, <1>12, <1>13
  DEF Lifecycle!Next, Lifecycle!ProxyStep, Lifecycle!CacheStep

\* Initially neither runs and there is nothing.
LEMMA LifecycleInit ==
    ASSUME Lifecycle!Init
    PROVE  Lifecycle!LifecycleInv
<1> USE DEF Lifecycle!Init, Lifecycle!NoQueue, Lifecycle!NoSize
<1>1. Lifecycle!Labels
  <2>1. /\ s4 \in Seq(Seq([kind : {"size", "request"}, value : Int]))
        /\ s3 \in 0 .. Len(s4)
    OBVIOUS
  <2> QED BY <2>1 DEF Lifecycle!Labels, Lifecycle!Down
<1>2. Lifecycle!InOrder
  BY DEF Lifecycle!InOrder, Lifecycle!QueuesOpen, Lifecycle!ObjectsThere, Lifecycle!SizeFirst,
     Lifecycle!OldQueues
<1> QED BY <1>1, <1>2 DEF Lifecycle!LifecycleInv

LifecyclesInv == program = "lifecycle" => Lifecycle!LifecycleInv

LEMMA LifecyclesInvariant == Spec => []LifecyclesInv
<1>1. Init => LifecyclesInv
  BY LifecycleInit DEF Init, LifecyclesInv
<1>2. LifecyclesInv /\ [Next]_vars => LifecyclesInv'
  <2> SUFFICES ASSUME LifecyclesInv, [Next]_vars, program' = "lifecycle"
      PROVE  Lifecycle!LifecycleInv'
    BY DEF LifecyclesInv
  <2>1. CASE UNCHANGED vars
    BY <2>1 DEF LifecyclesInv, vars, Lifecycle!LifecycleInv, Lifecycle!Labels,
       Lifecycle!InOrder, Lifecycle!QueuesOpen, Lifecycle!ObjectsThere, Lifecycle!SizeFirst,
       Lifecycle!OldQueues
  <2>2. CASE Next
    BY <2>2, LifecycleStep DEF Next, LifecyclesInv
  <2> QED BY <2>1, <2>2
<1> QED BY <1>1, <1>2, PTL DEF Spec

\* However often and in whichever order proxy and cache are started, each stopped
\* only when it serves and is idle, neither crashes, and a cache at the proxy's
\* queue has the proxy's segment size: main of webproxy.c and simplecached.c, their
\* signal handlers and mqueue_init.
THEOREM StartsNeverCrash == Spec => []StartsInAnyOrder
<1>1. LifecyclesInv => StartsInAnyOrder
  <2> SUFFICES ASSUME Lifecycle!LifecycleInv PROVE Lifecycle!StartsInAnyOrder
    BY DEF LifecyclesInv, StartsInAnyOrder
  <2> SUFFICES ASSUME s7, Lifecycle!Meeting PROVE s2.size = s1.run
    BY DEF Lifecycle!LifecycleInv, Lifecycle!InOrder, Lifecycle!StartsInAnyOrder
  <2>1. s1.pc = "serve" /\ s2.pc = "serve" /\ s1.mq = s2.mq
    BY DEF Lifecycle!Meeting
  <2>2. s2.mq = s3 /\ s1.read \in BOOLEAN
    BY <2>1 DEF Lifecycle!LifecycleInv, Lifecycle!Labels, Lifecycle!InOrder, Lifecycle!QueuesOpen
  <2> QED
    BY <2>1, <2>2 DEF Lifecycle!LifecycleInv, Lifecycle!InOrder, Lifecycle!SizeFirst
<1> QED BY <1>1, LifecyclesInvariant, PTL

\* Stopped in that way, they leave no queue, no semaphore and no segment in the
\* kernel: the signal handlers of webproxy.c and simplecached.c.
THEOREM NothingStays == Spec => []NothingLeft
<1>1. LifecyclesInv => NothingLeft
  <2> SUFFICES ASSUME Lifecycle!LifecycleInv, s7, s1.pc = "down", s2.pc = "down"
      PROVE  /\ s3 = 0 /\ ~s6 /\ \A i \in DOMAIN s5 : s5[i] = "absent"
    BY DEF LifecyclesInv, NothingLeft, Lifecycle!NothingLeft, Lifecycle!NoQueue
  <2>1. s3 = 0
    BY DEF Lifecycle!LifecycleInv, Lifecycle!InOrder, Lifecycle!QueuesOpen, Lifecycle!NoQueue
  <2>2. ~s6 /\ \A i \in Segments \cup {Extra} : s5[i] = "absent"
    BY DEF Lifecycle!LifecycleInv, Lifecycle!InOrder, Lifecycle!ObjectsThere
  <2>3. DOMAIN s5 = Segments \cup {Extra}
    BY DEF Lifecycle!LifecycleInv, Lifecycle!Labels
  <2> QED BY <2>1, <2>2, <2>3
<1> QED BY <1>1, LifecyclesInvariant, PTL
=============================================================================
