------------------------ MODULE ProgramsContents_proofs ------------------------
(***************************************************************************)
(* Theorems about the programs that pass bytes and names on, for every     *)
(* value of their constants: the echo server, the file checksum, the       *)
(* handlers without a cache, the file transfer, the getfile server and the *)
(* download client.  What comes out is what went in, whatever the pieces.  *)
(***************************************************************************)
EXTENDS Programs_proofs

-----------------------------------------------------------------------------
(* The echo server and its clients.  Their variables are here: s2 the       *)
(* server's label, s4 the client, s5 the reply, s6 the server's buffer, s7  *)
(* what recv has returned, s8 the most that it has.                         *)

EchoBytes == EchoPair!Characters \cup {EchoPair!Unwritten}

\* The first bytes of one sequence before the others of another.
Overlay(x, y, n) == SubSeq(x, 1, n) \o SubSeq(y, n + 1, Len(y))

LEMMA FirstBytes ==
    ASSUME NEW S, NEW x \in Seq(S), NEW y \in Seq(S), NEW n \in Nat, n <= Len(x), n <= Len(y)
    PROVE  /\ Overlay(x, y, n) \in Seq(S) /\ Len(Overlay(x, y, n)) = Len(y)
           /\ \A i \in 1 .. Len(y) : Overlay(x, y, n)[i] = IF i <= n THEN x[i] ELSE y[i]
<1> DEFINE a == SubSeq(x, 1, n)
           b == SubSeq(y, n + 1, Len(y))
<1>1. a \in Seq(S) /\ Len(a) = n /\ \A i \in 1 .. n : a[i] = x[i]
  OBVIOUS
<1>2. b \in Seq(S) /\ Len(b) = Len(y) - n /\ \A i \in 1 .. Len(y) - n : b[i] = y[n + i]
  OBVIOUS
<1>3. Len(y) \in Nat
  OBVIOUS
<1> HIDE DEF a, b
<1>4. a \o b \in Seq(S) /\ Len(a \o b) = Len(y)
  BY <1>1, <1>2, <1>3
<1>5. \A i \in 1 .. Len(y) : (a \o b)[i] = IF i <= n THEN x[i] ELSE y[i]
  <2> SUFFICES ASSUME NEW i \in 1 .. Len(y) PROVE (a \o b)[i] = IF i <= n THEN x[i] ELSE y[i]
    OBVIOUS
  <2>1. (a \o b)[i] = IF i <= n THEN a[i] ELSE b[i - n]
    BY <1>1, <1>2, <1>3
  <2>2. CASE i <= n
    BY <1>1, <2>1, <2>2
  <2>3. CASE i > n
    <3>1. PICK j : j = i - n
      OBVIOUS
    <3>2. j \in 1 .. Len(y) - n /\ n + j = i /\ ~(i <= n)
      BY <1>3, <2>3, <3>1
    <3>3. b[j] = y[i]
      BY <1>2, <3>2
    <3>4. (a \o b)[i] = b[j]
      BY <2>1, <3>1, <3>2
    <3> QED BY <3>2, <3>3, <3>4
  <2>4. i <= n \/ i > n
    BY <1>3
  <2> QED BY <2>2, <2>3, <2>4
<1> QED BY <1>4, <1>5 DEF a, b, Overlay

\* The invariant is inductive.
LEMMA EchoStep ==
    ASSUME EchoPair!EchoInv, EchoPair!Next
    PROVE  EchoPair!EchoInv'
<1> USE EchoAssumption DEF EchoPair!EchoInv
<1>1. CASE EchoPair!TryAddress
  <2>1. PICK q : q = s1
    OBVIOUS
  <2>2. q \in Seq(EchoPair!Outcomes)
    BY <2>1
  <2>3. q # << >> => Head(q) \in EchoPair!Outcomes /\ Tail(q) \in Seq(EchoPair!Outcomes)
    BY <2>2, HeadIn
  <2>4. s2' \in {"socket", "exit", "accept"} /\ s1' \in Seq(EchoPair!Outcomes)
    BY <1>1, <2>1, <2>2, <2>3 DEF EchoPair!TryAddress, EchoPair!Outcomes
  <2>5. UNCHANGED <<s4, s5, s6, s7, s8>>
    BY <1>1 DEF EchoPair!TryAddress
  <2> QED BY <2>4, <2>5 DEF EchoPair!Begins
<1>2. CASE EchoPair!ClientSends \/ EchoPair!ClientStops
  <2>1. UNCHANGED <<s1, s2, s5, s6, s7, s8>> /\ s4.pc \in {"socket", "connected", "accepted"}
    BY <1>2 DEF EchoPair!ClientSends, EchoPair!ClientStops
  <2>2. /\ s5 = << >>
        /\ s2 # "send" \/ s4' = [s4 EXCEPT !.open = FALSE]
    BY <1>2, <2>1 DEF EchoPair!ClientSends, EchoPair!ClientStops
  <2>3. /\ s4' \in [pc : {"socket", "connected", "accepted", "answered"},
                     message : EchoMessages \cup {<< >>}, open : BOOLEAN]
        /\ s2 \in {"receive", "send"} => s4'.pc = "accepted"
        /\ s2 = "send" => s4'.message = s4.message /\ ~s4'.open
    <3>1. CASE EchoPair!ClientSends
      BY <3>1 DEF EchoPair!ClientSends, EchoPair!NoClient
    <3>2. CASE EchoPair!ClientStops
      BY <3>2 DEF EchoPair!ClientStops
    <3> QED BY <1>2, <3>1, <3>2
  <2>4. s2 = "send" => EchoPair!Begins'
    BY <2>1, <2>3 DEF EchoPair!Begins
  <2> QED BY <2>1, <2>2, <2>3, <2>4
<1>3. CASE EchoPair!Accept
  <2>1. UNCHANGED <<s1, s5, s6, s7, s8>> /\ s2 = "accept" /\ s2' \in {"receive", "exit"}
    BY <1>3 DEF EchoPair!Accept
  <2>2. CASE s2' = "receive" /\ s4.pc = "connected" /\ s4' = [s4 EXCEPT !.pc = "accepted"]
    BY <2>1, <2>2
  <2>3. CASE s2' = "exit" /\ s4' = s4
    BY <2>1, <2>3 DEF EchoPair!Begins
  <2> QED BY <1>3, <2>2, <2>3 DEF EchoPair!Accept
<1>4. CASE EchoPair!ServerReceives
  <2>1. UNCHANGED <<s1, s4, s5>> /\ s4.pc = "accepted" /\ s2' \in {"send", "exit"} /\ s5 = << >>
    BY <1>4 DEF EchoPair!ServerReceives, EchoPair!Receives
  <2>2. CASE s2' = "exit" /\ UNCHANGED <<s6, s7, s8>>
    BY <2>1, <2>2
  <2>3. ASSUME NEW n \in 0 .. EchoSize, n <= Len(s4.message), n = 0 => ~s4.open,
               EchoPair!Receives(n)
        PROVE  EchoPair!EchoInv'
    <3>1. PICK x, y, l, e : x = s4.message /\ y = s6 /\ l = s8 /\ e = EchoPair!Unwritten
      OBVIOUS
    <3>2. /\ x \in Seq(EchoPair!Characters) /\ x \in Seq(EchoBytes) /\ y \in Seq(EchoBytes)
          /\ Len(y) = EchoSize /\ EchoSize \in Nat /\ l \in 0 .. EchoSize
          /\ \A i \in 1 .. EchoSize : y[i] = e <=> i > l
      <4>1. x \in Seq(EchoPair!Characters)
        <5>1. << >> \in Seq(EchoPair!Characters) /\ x \in EchoMessages \cup {<< >>}
          BY <3>1
        <5> QED BY <5>1
      <4>2. x \in Seq(EchoBytes)
        BY <4>1 DEF EchoBytes
      <4>3. y \in Seq(EchoBytes) /\ Len(y) = EchoSize /\ EchoSize \in Nat
        BY <3>1 DEF EchoBytes
      <4>4. l \in 0 .. EchoSize
        BY <3>1
      <4> QED BY <3>1, <4>1, <4>2, <4>3, <4>4
    <3>3. /\ s6' = Overlay(x, y, n) /\ s7' = n /\ s8' = (IF n > l THEN n ELSE l) /\ s2' = "send"
      BY <2>3, <3>1, <3>2 DEF EchoPair!Receives, Overlay
    <3>4. n \in Nat /\ n <= Len(x) /\ n <= Len(y)
      BY <2>3, <3>1, <3>2
    <3> HIDE DEF EchoPair!EchoInv
    <3>5. /\ s6' \in Seq(EchoBytes) /\ Len(s6') = EchoSize
          /\ \A i \in 1 .. EchoSize : s6'[i] = IF i <= n THEN x[i] ELSE y[i]
      BY <3>2, <3>3, <3>4, FirstBytes
    <3>6. s8' \in Nat /\ s8' \in n .. EchoSize /\ s7' \in 0 .. EchoSize
      BY <3>2, <3>3, <3>4
    <3>7. \A i \in 1 .. EchoSize : s6'[i] = e <=> i > s8'
      <4> SUFFICES ASSUME NEW i \in 1 .. EchoSize PROVE s6'[i] = e <=> i > s8'
        OBVIOUS
      <4>1. CASE i <= n
        <5>1. i \in 1 .. Len(x)
          BY <3>4, <4>1
        <5>2. x[i] \in EchoPair!Characters
          BY <3>2, <5>1
        <5>3. x[i] # e
          BY <3>1, <5>2, EchoAssumption
        <5> QED BY <3>2, <3>3, <3>4, <3>5, <4>1, <5>3
      <4>2. CASE ~(i <= n)
        BY <3>2, <3>3, <3>4, <3>5, <4>2
      <4> QED BY <4>1, <4>2
    <3>8. \A i \in 1 .. n : s6'[i] = x[i]
      BY <3>2, <3>4, <3>5
    <3>9. n >= 1 \/ ~s4.open
      BY <2>3, <3>4
    <3>10. EchoPair!Begins'
      BY <2>1, <3>1, <3>3, <3>4, <3>8, <3>9 DEF EchoPair!Begins
    <3> QED BY <2>1, <3>1, <3>3, <3>5, <3>6, <3>7, <3>10 DEF EchoPair!EchoInv, EchoBytes
  <2>4. CASE \E n \in 1 .. EchoSize : n <= Len(s4.message) /\ EchoPair!Receives(n)
    <3>1. PICK n \in 1 .. EchoSize : n <= Len(s4.message) /\ EchoPair!Receives(n)
      BY <2>4
    <3>2. n \in 0 .. EchoSize /\ n # 0
      OBVIOUS
    <3> HIDE DEF EchoPair!EchoInv
    <3> QED BY <2>3, <3>1, <3>2
  <2>5. CASE s4.message = << >> /\ ~s4.open /\ EchoPair!Receives(0)
    <3>1. 0 \in 0 .. EchoSize /\ 0 <= Len(s4.message)
      BY <2>5
    <3> HIDE DEF EchoPair!EchoInv
    <3> QED BY <2>3, <2>5, <3>1
  <2> QED BY <1>4, <2>2, <2>4, <2>5 DEF EchoPair!ServerReceives
<1>5. CASE EchoPair!ServerSends
  <2>1. /\ s2 = "send" /\ s2' \in {"exit", "accept"} /\ UNCHANGED <<s1, s6, s7, s8>>
        /\ s4' = [s4 EXCEPT !.pc = "answered"]
        /\ s5' = << >> \/ (s4.open /\ s5' = s6)
    BY <1>5 DEF EchoPair!ServerSends
  <2>2. /\ s4' \in [pc : {"socket", "connected", "accepted", "answered"},
                     message : EchoMessages \cup {<< >>}, open : BOOLEAN]
        /\ s4'.pc = "answered" /\ s4'.message = s4.message /\ s4'.open = s4.open
    BY <2>1
  <2>3. EchoPair!Begins'
    BY <2>1, <2>2 DEF EchoPair!Begins
  <2> QED BY <2>1, <2>2, <2>3
<1>6. CASE EchoPair!ClientReceives
  BY <1>6 DEF EchoPair!ClientReceives, EchoPair!NoClient
<1> QED BY <1>1, <1>2, <1>3, <1>4, <1>5, <1>6 DEF EchoPair!Next

\* Initially nobody is connected.
LEMMA EchoInit ==
    ASSUME EchoPair!Init
    PROVE  EchoPair!EchoInv
<1> DEFINE b == [i \in 1 .. EchoSize |-> EchoPair!Unwritten]
<1>1. b \in Seq(EchoBytes) /\ Len(b) = EchoSize
  <2>1. EchoSize \in Nat /\ b \in [1 .. EchoSize -> EchoBytes]
    BY EchoAssumption DEF EchoBytes
  <2> HIDE DEF b
  <2> QED BY <2>1
<1>2. s6 = b /\ \A i \in 1 .. EchoSize : b[i] = EchoPair!Unwritten /\ i > 0
  BY DEF EchoPair!Init
<1> HIDE DEF b
<1>3. s1 \in Seq(EchoPair!Outcomes)
  BY EchoAssumption DEF EchoPair!Init
<1>4. s4 \in [pc : {"socket", "connected", "accepted", "answered"},
              message : EchoMessages \cup {<< >>}, open : BOOLEAN]
  BY DEF EchoPair!Init, EchoPair!NoClient
<1>5. s7 = 0 /\ s8 = 0 /\ 0 \in 0 .. EchoSize /\ s2 = "socket" /\ s5 = << >>
  BY EchoAssumption DEF EchoPair!Init
<1> QED BY <1>1, <1>2, <1>3, <1>4, <1>5 DEF EchoPair!EchoInv, EchoBytes

EchoesInv == program = "echo" => EchoPair!EchoInv

LEMMA EchoesInvariant == Spec => []EchoesInv
<1>1. Init => EchoesInv
  BY EchoInit DEF Init, EchoesInv
<1>2. EchoesInv /\ [Next]_vars => EchoesInv'
  <2> SUFFICES ASSUME EchoesInv, [Next]_vars, program' = "echo" PROVE EchoPair!EchoInv'
    BY DEF EchoesInv
  <2>1. CASE UNCHANGED vars
    BY <2>1 DEF EchoesInv, vars, EchoPair!EchoInv, EchoPair!Begins
  <2>2. CASE Next
    BY <2>2, EchoStep DEF Next, EchoesInv
  <2> QED BY <2>1, <2>2
<1> QED BY <1>1, <1>2, PTL DEF Spec

\* Whatever is sent to the echo server, for a buffer of any size, and however recv
\* cuts it: a client's answer begins with what came of its own message, a byte at
\* least, and what follows is stale up to the longest part received so far, and
\* unwritten from there: main of echoserver.c.
THEOREM EchoesAreTruthful == Spec => []EchoTruthful
<1>1. EchoesInv => EchoTruthful
  <2> SUFFICES ASSUME EchoPair!EchoInv, s5 # << >>
      PROVE  /\ s7 \in 1 .. Len(s4.message)
             /\ \A i \in 1 .. s7 : s5[i] = s4.message[i]
             /\ \A i \in 1 .. EchoSize : s5[i] = EchoPair!Unwritten <=> i > s8
    BY DEF EchoesInv, EchoTruthful, EchoPair!EchoTruthful
  <2>1. EchoPair!Begins /\ s4.open /\ s5 = s6 /\ s7 \in Nat
    BY EchoAssumption DEF EchoPair!EchoInv
  <2>2. Len(s4.message) \in Nat
    <3>1. s4.message \in EchoMessages \cup {<< >>} /\ << >> \in Seq(EchoPair!Characters)
      BY DEF EchoPair!EchoInv
    <3>2. s4.message \in Seq(EchoPair!Characters)
      BY <3>1, EchoAssumption
    <3> QED BY <3>2
  <2> QED BY <2>1, <2>2 DEF EchoPair!EchoInv, EchoPair!Begins
<1> QED BY <1>1, EchoesInvariant, PTL
-----------------------------------------------------------------------------
(* The checksum of a file.  Its variables are here: s1 the file, s3 the     *)
(* label, s4 the size, s5 the buffer, s6 the chunks, s7 the position.       *)

\* The buffer is not longer than a file that is not empty.
LEMMA BufferFits ==
    ASSUME NEW n \in Nat
    PROVE  /\ Checksum!BufferFor(n) \in Nat \ {0}
           /\ n # 0 => Checksum!BufferFor(n) \in 1 .. n
           /\ n = 0 => Checksum!ChunkCount(n, Checksum!BufferFor(n)) = 0
<1> USE ChecksumAssumption
<1>1. CASE n < 2
  <2>1. n < BufferSize \/ (n = 1 /\ BufferSize = 1)
    BY <1>1
  <2>2. Checksum!BufferFor(n) = 1
    BY <1>1, <2>1 DEF Checksum!BufferFor
  <2>3. 0 \div 1 = 0 /\ 0 % 1 = 0
    OBVIOUS
  <2> QED BY <1>1, <2>2, <2>3 DEF Checksum!ChunkCount
<1>2. CASE n >= 2
  <2>1. n \div 2 \in 1 .. n
    BY <1>2
  <2>2. Checksum!BufferFor(n) = IF n >= BufferSize THEN BufferSize ELSE n \div 2
    BY <1>2 DEF Checksum!BufferFor
  <2>3. Checksum!BufferFor(n) \in 1 .. n
    <3>1. CASE n >= BufferSize
      BY <2>2, <3>1
    <3>2. CASE ~(n >= BufferSize)
      BY <2>1, <2>2, <3>2
    <3> QED BY <3>1, <3>2
  <2> QED BY <1>2, <2>3
<1> QED BY <1>1, <1>2

\* A sequence of elements of a set is one of any larger set.
LEMMA SequenceWidens ==
    ASSUME NEW S, NEW T, S \subseteq T, NEW q \in Seq(S)
    PROVE  q \in Seq(T)
<1>1. Len(q) \in Nat /\ q \in [1 .. Len(q) -> T]
  OBVIOUS
<1> QED BY <1>1

\* A file has bytes.
LEMMA FileIs ==
    ASSUME NEW f \in Contents
    PROVE  f \in Seq(0 .. 255) /\ f \in Seq(Int) /\ Len(f) \in Nat
           /\ \A i \in 1 .. Len(f) : f[i] # Checksum!Unwritten
<1>1. f \in Seq(0 .. 255)
  BY ChecksumAssumption
<1>2. \A i \in 1 .. Len(f) : f[i] \in 0 .. 255
  BY <1>1, ElementIn
<1>3. \A i \in 1 .. Len(f) : f[i] # Checksum!Unwritten
  <2>1. \A x \in 0 .. 255 : x # Checksum!Unwritten
    BY DEF Checksum!Unwritten
  <2> QED BY <1>2, <2>1
<1>4. f \in Seq(Int) /\ Len(f) \in Nat
  <2>1. 0 .. 255 \subseteq Int /\ Len(f) \in Nat
    BY <1>1
  <2> QED BY <1>1, <2>1, SequenceWidens
<1> QED BY <1>1, <1>3, <1>4

\* A read fills the buffer with bytes, or as much of it as there is left to read.
LEMMA ReadKeeps ==
    ASSUME Checksum!ChecksumInv, Checksum!Read
    PROVE  Checksum!ChecksumInv'
<1> USE ChecksumAssumption DEF Checksum!ChecksumInv
<1>1. PICK f, b, from : f = s1 /\ b = s5 /\ from = s7
  OBVIOUS
<1>2. /\ f \in Contents /\ b \in Seq(Int) /\ from \in 0 .. s4 /\ s4 \in Nat
      /\ s3 = "read" /\ UNCHANGED <<s1, s4>>
  BY <1>1 DEF Checksum!Read
<1>3. /\ f \in Seq(0 .. 255) /\ f \in Seq(Int) /\ Len(f) \in Nat
      /\ \A i \in 1 .. Len(f) : f[i] # Checksum!Unwritten
  BY <1>2, FileIs
<1>4. CASE s3' = "return" /\ s5' = s5 /\ s7' = s7
  BY <1>2, <1>4
<1>5. CASE /\ from + Checksum!ReadSize <= Len(f)
           /\ s5' = Checksum!Got \o SubSeq(b, Checksum!ReadSize + 1, Len(b))
           /\ s7' = from + Checksum!ReadSize /\ s3' = "calculate"
  <2>1. PICK n : n = Checksum!ReadSize
    OBVIOUS
  <2>2. Len(b) \in Nat
    BY <1>2
  <2>3. n = IF s4 - from < Len(b) THEN s4 - from ELSE Len(b)
    BY <1>1, <2>1 DEF Checksum!ReadSize
  <2>4. n \in Nat /\ n <= Len(b) /\ from + n <= s4
    BY <1>2, <2>2, <2>3
  <2>5. PICK g : g = SubSeq(f, from + 1, from + n)
    OBVIOUS
  <2>6. /\ g \in Seq(Int) /\ Len(g) = n /\ \A i \in 1 .. n : g[i] # Checksum!Unwritten
    <3>1. from + n <= Len(f) /\ from \in Nat
      BY <1>2, <1>5, <2>1
    <3>2. g \in Seq(Int) /\ Len(g) = n /\ \A i \in 1 .. n : g[i] = f[from + i]
      BY <1>3, <2>4, <2>5, <3>1
    <3>3. \A i \in 1 .. n : from + i \in 1 .. Len(f)
      BY <1>3, <2>4, <3>1
    <3> QED BY <1>3, <3>2, <3>3
  <2>7. SubSeq(g, 1, n) = g
    BY <2>4, <2>6
  <2>8. PICK c : c = s5'
    OBVIOUS
  <2>9. c = Overlay(g, b, n)
    BY <1>1, <1>5, <2>1, <2>5, <2>7, <2>8 DEF Checksum!Got, Overlay
  <2>10. n <= Len(g) /\ n \in Nat /\ n <= Len(b)
    BY <2>4, <2>6
  <2>11. /\ c \in Seq(Int) /\ Len(c) = Len(b)
         /\ \A i \in 1 .. Len(b) : c[i] = IF i <= n THEN g[i] ELSE b[i]
    <3> HIDE ChecksumAssumption DEF Checksum!ChecksumInv
    <3>1. g \in Seq(Int) /\ b \in Seq(Int)
      BY <1>2, <2>6
    <3>2. /\ Overlay(g, b, n) \in Seq(Int) /\ Len(Overlay(g, b, n)) = Len(b)
          /\ \A i \in 1 .. Len(b) : Overlay(g, b, n)[i] = IF i <= n THEN g[i] ELSE b[i]
      BY <2>10, <3>1, FirstBytes, SMTT(30)
    <3> QED BY <2>9, <3>2
  <2>12. \A i \in 1 .. Len(b) : n < i => b[i] # Checksum!Unwritten
    <3>1. CASE Checksum!Written
      BY <1>1, <1>2, <3>1 DEF Checksum!Written
    <3>2. CASE s7 = 0 /\ Len(s5) \in 1 .. s4
      <4>1. n = Len(b)
        BY <1>1, <1>2, <2>2, <2>3, <3>2
      <4> QED BY <2>2, <4>1
    <3> QED BY <1>2, <3>1, <3>2
  <2>13. \A i \in 1 .. Len(b) : c[i] # Checksum!Unwritten
    <3> SUFFICES ASSUME NEW i \in 1 .. Len(b) PROVE c[i] # Checksum!Unwritten
      OBVIOUS
    <3>1. CASE i <= n
      <4>1. i \in 1 .. n
        BY <2>4, <3>1
      <4> QED BY <2>6, <2>11, <3>1, <4>1
    <3>2. CASE n < i
      <4>1. ~(i <= n)
        BY <2>4, <3>2
      <4> QED BY <2>11, <2>12, <3>2, <4>1
    <3> QED BY <2>4, <3>1, <3>2
  <2>14. Checksum!Written'
    BY <2>8, <2>11, <2>13 DEF Checksum!Written
  <2>15. s7' \in 0 .. s4
    BY <1>2, <1>5, <2>1, <2>4
  <2> QED BY <1>2, <1>5, <2>8, <2>11, <2>14, <2>15
<1> QED BY <1>1, <1>4, <1>5 DEF Checksum!Read

\* The invariant is inductive.
LEMMA ChecksumStep ==
    ASSUME Checksum!ChecksumInv, Checksum!Next
    PROVE  Checksum!ChecksumInv'
<1> USE ChecksumAssumption DEF Checksum!ChecksumInv
<1>1. CASE Checksum!Lstat
  <2>1. CASE s1 = Missing
    BY <1>1, <2>1 DEF Checksum!Lstat
  <2>2. CASE s1 # Missing
    <3>1. PICK n : n = Len(s1)
      OBVIOUS
    <3>2. s1 \in Contents /\ n \in Nat /\ Checksum!BufferFor(n) \in Nat
      BY <2>2, <3>1, FileIs, BufferFits
    <3>3. PICK k : k = Checksum!BufferFor(n)
      OBVIOUS
    <3>4. /\ s4' = n /\ s5' = [i \in 1 .. k |-> Checksum!Unwritten]
          /\ s6' = Checksum!ChunkCount(n, k) /\ s3' = "open" /\ UNCHANGED <<s1, s7>> /\ s7 = 0
      BY <1>1, <2>2, <3>1, <3>3 DEF Checksum!Lstat
    <3>5. s5' \in Seq(Int) /\ Len(s5') = k
      <4>1. [i \in 1 .. k |-> Checksum!Unwritten] \in [1 .. k -> Int] /\ k \in Nat
        BY <3>2, <3>3 DEF Checksum!Unwritten
      <4>2. PICK q : q = [i \in 1 .. k |-> Checksum!Unwritten]
        OBVIOUS
      <4>3. q \in [1 .. k -> Int] /\ s5' = q
        BY <3>4, <4>1, <4>2
      <4> QED BY <4>1, <4>3
    <3> QED BY <3>2, <3>3, <3>4, <3>5
  <2> QED BY <2>1, <2>2
<1>2. CASE Checksum!Open
  <2>1. s3 = "open" /\ UNCHANGED <<s1, s4, s5, s6, s7>> /\ s3' \in {"return", "read"}
    BY <1>2 DEF Checksum!Open
  <2>2. s3' = "read" => s1 # Missing /\ Len(s5) \in 1 .. s4
    <3> SUFFICES ASSUME s3' = "read" PROVE s1 # Missing /\ Len(s5) \in 1 .. s4
      OBVIOUS
    <3>1. s1 # Missing /\ s6 # 0
      BY <1>2 DEF Checksum!Open
    <3>2. Len(s5) = Checksum!BufferFor(s4) /\ s6 = Checksum!ChunkCount(s4, Checksum!BufferFor(s4))
      BY <2>1
    <3>3. s4 # 0
      BY <3>1, <3>2, BufferFits
    <3> QED BY <3>1, <3>2, <3>3, BufferFits
  <2> QED BY <2>1, <2>2
<1>3. CASE Checksum!Read
  BY <1>3, ReadKeeps
<1>4. CASE Checksum!Calculate
  <2>1. s3 = "calculate" /\ UNCHANGED <<s1, s4, s5, s7>> /\ s3' \in {"return", "read"}
    BY <1>4 DEF Checksum!Calculate
  <2>2. Checksum!Written'
    BY <2>1 DEF Checksum!Written
  <2> QED BY <2>1, <2>2
<1>5. CASE Checksum!Change
  <2>1. UNCHANGED <<s3, s4, s5, s6, s7>> /\ s1' \in Contents \cup {Missing}
        /\ (s1' = Missing => s3 \in {"lstat", "open"})
    BY <1>5 DEF Checksum!Change
  <2>2. Checksum!Written' <=> Checksum!Written
    BY <2>1 DEF Checksum!Written
  <2> QED BY <2>1, <2>2
<1> QED BY <1>1, <1>2, <1>3, <1>4, <1>5 DEF Checksum!Next

ChecksumsInv == program = "checksum" => Checksum!ChecksumInv

LEMMA ChecksumsInvariant == Spec => []ChecksumsInv
<1>1. Init => ChecksumsInv
  BY ChecksumAssumption DEF Init, ChecksumsInv, Checksum!Init, Checksum!ChecksumInv
<1>2. ChecksumsInv /\ [Next]_vars => ChecksumsInv'
  <2> SUFFICES ASSUME ChecksumsInv, [Next]_vars, program' = "checksum"
      PROVE  Checksum!ChecksumInv'
    BY DEF ChecksumsInv
  <2>1. CASE UNCHANGED vars
    BY <2>1 DEF ChecksumsInv, vars, Checksum!ChecksumInv, Checksum!Written
  <2>2. CASE Next
    BY <2>2, ChecksumStep DEF Next, ChecksumsInv
  <2> QED BY <2>1, <2>2
<1> QED BY <1>1, <1>2, PTL DEF Spec

\* For files of any size, and whatever others do to the file between lstat and the
\* last read: the CRC is only taken of bytes that have been read, never of what the
\* buffer held before: dfs_file_checksum.
THEOREM OnlyReadBytesCount == Spec => []BufferWritten
<1>1. ChecksumsInv => BufferWritten
  BY DEF ChecksumsInv, BufferWritten, Checksum!BufferWritten, Checksum!ChecksumInv
<1> QED BY <1>1, ChecksumsInvariant, PTL
-----------------------------------------------------------------------------
(* The handlers without a cache.  Their variables are here: s1 the source,  *)
(* s2 the label, s3 what is in memory, s4 the header, s5 what was sent, s6  *)
(* what is done, s7 the result, s8 whether a send has failed.               *)

\* The bytes of a page or file of n bytes, and what begins it.
Numbers(n) == [i \in 1 .. n |-> i]

Begins(x, n) == x \in Seq(Int) /\ Len(x) <= n /\ \A i \in 1 .. Len(x) : x[i] = i

LEMMA NumbersAre ==
    ASSUME NEW n \in Nat
    PROVE  Numbers(n) \in Seq(Int) /\ Len(Numbers(n)) = n /\ \A i \in 1 .. n : Numbers(n)[i] = i
BY DEF Numbers

\* What comes next may be put behind a beginning.
LEMMA BeginningGrows ==
    ASSUME NEW n \in Nat, NEW x, NEW p \in Seq(Int), Begins(x, n), Len(x) + Len(p) <= n,
           \A i \in 1 .. Len(p) : p[i] = Len(x) + i
    PROVE  Begins(x \o p, n) /\ Len(x \o p) = Len(x) + Len(p)
<1>1. x \in Seq(Int) /\ \A i \in 1 .. Len(x) : x[i] = i
  BY DEF Begins
<1>2. PICK c, a, b : c = x \o p /\ a = Len(x) /\ b = Len(p)
  OBVIOUS
<1>3. a \in Nat /\ b \in Nat
  BY <1>1, <1>2
<1>4. c \in Seq(Int) /\ Len(c) = a + b
  BY <1>1, <1>2
<1>5. \A i \in 1 .. a + b : c[i] = IF i <= a THEN x[i] ELSE p[i - a]
  BY <1>1, <1>2
<1>6. \A i \in 1 .. a + b : c[i] = i
  <2> SUFFICES ASSUME NEW i \in 1 .. a + b PROVE c[i] = i
    OBVIOUS
  <2>1. CASE i <= a
    <3>1. c[i] = x[i] /\ i \in 1 .. a
      BY <1>3, <1>5, <2>1
    <3> QED BY <1>1, <1>2, <3>1
  <2>2. CASE ~(i <= a)
    <3>1. PICK j : j = i - a
      OBVIOUS
    <3>2. j \in 1 .. b /\ a + j = i
      BY <1>3, <2>2, <3>1
    <3>3. c[i] = p[j] /\ p[j] = a + j
      BY <1>2, <1>5, <2>2, <3>1, <3>2
    <3> QED BY <3>2, <3>3
  <2> QED BY <2>1, <2>2
<1>7. a + b <= n
  BY <1>2
<1> QED BY <1>2, <1>4, <1>6, <1>7 DEF Begins

\* A beginning as the property states it, and the whole.
LEMMA BeginningIs ==
    ASSUME NEW n \in Nat, NEW x, Begins(x, n)
    PROVE  x = SubSeq(Numbers(n), 1, Len(x)) /\ (Len(x) = n => x = Numbers(n))
<1>1. x \in Seq(Int) /\ Len(x) <= n /\ Len(x) \in Nat /\ \A i \in 1 .. Len(x) : x[i] = i
  BY DEF Begins
<1>2. Numbers(n) \in Seq(Int) /\ Len(Numbers(n)) = n /\ \A i \in 1 .. n : Numbers(n)[i] = i
  BY NumbersAre
<1>3. PICK c, k : c = SubSeq(Numbers(n), 1, k) /\ k = Len(x)
  OBVIOUS
<1>4. c \in Seq(Int) /\ Len(c) = k /\ \A i \in 1 .. k : c[i] = Numbers(n)[i]
  BY <1>1, <1>2, <1>3
<1>5. \A i \in 1 .. k : c[i] = x[i]
  BY <1>1, <1>2, <1>3, <1>4
<1>6. c = x
  BY <1>1, <1>3, <1>4, <1>5
<1>7. Len(x) = n => x = Numbers(n)
  BY <1>1, <1>2
<1> QED BY <1>3, <1>6, <1>7

\* A piece of the bytes.
LEMMA PieceOfNumbers ==
    ASSUME NEW n \in Nat, NEW a \in Nat, NEW b \in Nat, a <= b, b <= n
    PROVE  /\ SubSeq(Numbers(n), a + 1, b) \in Seq(Int)
           /\ Len(SubSeq(Numbers(n), a + 1, b)) = b - a
           /\ \A i \in 1 .. b - a : SubSeq(Numbers(n), a + 1, b)[i] = a + i
<1>1. Numbers(n) \in Seq(Int) /\ Len(Numbers(n)) = n /\ \A i \in 1 .. n : Numbers(n)[i] = i
  BY NumbersAre
<1>2. PICK c : c = SubSeq(Numbers(n), a + 1, b)
  OBVIOUS
<1>3. c \in Seq(Int) /\ Len(c) = b - a /\ \A i \in 1 .. b - a : c[i] = Numbers(n)[a + i]
  BY <1>1, <1>2
<1>4. \A i \in 1 .. b - a : a + i \in 1 .. n
  OBVIOUS
<1> QED BY <1>1, <1>2, <1>3, <1>4

\* What the invariant says of the page or file.
LEMMA PageIs ==
    ASSUME Direct!Fetched
    PROVE  \E n \in Nat : /\ s1.bytes = Numbers(n) /\ Len(s1.bytes) = n
                          /\ \A x : Direct!StartOfBytes(x) <=> Begins(x, n)
<1>1. PICK n \in Sizes : s1.bytes = [i \in 1 .. n |-> i]
  BY DEF Direct!Fetched
<1>2. n \in Nat /\ s1.bytes = Numbers(n) /\ Len(s1.bytes) = n
  BY <1>1, DirectAssumption, NumbersAre DEF Numbers
<1>3. \A x : Direct!StartOfBytes(x) <=> Begins(x, n)
  BY <1>2 DEF Direct!StartOfBytes, Begins
<1> QED BY <1>2, <1>3

\* curl could be initialised.
Initialised == s1.outcome # "no handle"

\* And of the rest.
LEMMA SourceIs ==
    ASSUME Direct!Fetched
    PROVE  /\ s6.rounds \in Nat /\ s6.bytes \in Nat
           /\ s1.kind \in {"curl", "file"}
           /\ s1.kind = "curl" =>
                 s1.outcome \in {"ok", "no url", "no handle", "http error", "other error"}
<1>1. s6.rounds \in Nat /\ s6.bytes \in Nat /\ s1.kind \in {"curl", "file"}
  BY DEF Direct!Fetched
<1>2. Direct!Outcomes["curl"] = {"ok", "no url", "no handle", "http error", "other error"}
  BY DEF Direct!Outcomes
<1>3. s1.outcome \in Direct!Outcomes[s1.kind]
  BY DEF Direct!Fetched
<1> QED BY <1>1, <1>2, <1>3

\* A step that leaves the client alone and stays before the loop, or ends there.
LEMMA CurlStartKeeps ==
    ASSUME Direct!DirectInv, Direct!CurlStart
    PROVE  Direct!DirectInv'
<1>0. Direct!Fetched /\ (~s8 /\ Initialised => Direct!Passed)
  BY DEF Direct!DirectInv, Initialised
<1>1. /\ s1.kind = "curl" /\ s2 = "start" /\ UNCHANGED <<s1, s3, s4, s5, s6, s8>>
      /\ \/ s1.outcome = "no url" /\ s2' = "return"
         \/ s1.outcome = "no handle" /\ s2' \in {"ok", "http error", "other error"}
         \/ s1.outcome \notin {"no url", "no handle"} /\ s2' = "perform"
  BY DEF Direct!CurlStart, Direct!Return
<1>2. s1.outcome \in {"ok", "no url", "no handle", "http error", "other error"}
  BY <1>0, <1>1, SourceIs
<1>3. Direct!StartOfBytes(s3)' /\ (Direct!StartOfBytes(s5)' <=> Direct!StartOfBytes(s5))
  BY <1>0, <1>1 DEF Direct!Fetched, Direct!StartOfBytes
<1>4. Direct!Fetched'
  BY <1>0, <1>1, <1>2, <1>3 DEF Direct!Fetched
<1>5. Direct!Passed => Direct!Passed'
  <2>1. Direct!NoHeader.status # "OK"
    BY DEF Direct!NoHeader
  <2> QED BY <1>1, <1>3, <2>1 DEF Direct!Passed
<1> QED BY <1>0, <1>1, <1>4, <1>5 DEF Direct!DirectInv, Initialised

LEMMA WriterKeeps ==
    ASSUME Direct!DirectInv, Direct!Writer
    PROVE  Direct!DirectInv'
<1>0. Direct!Fetched /\ (~s8 /\ Initialised => Direct!Passed)
  BY DEF Direct!DirectInv, Initialised
<1>1. /\ s2 = "perform" /\ UNCHANGED <<s1, s4, s5, s6, s7, s8>>
      /\ s1.outcome \in {"ok", "other error"}
      /\ s2' \in {"perform", "other error"}
  BY DEF Direct!Writer
<1>2. s1.kind = "curl"
  BY <1>0, <1>1 DEF Direct!Fetched
<1>3. PICK n \in Nat : /\ s1.bytes = Numbers(n) /\ Len(s1.bytes) = n
                       /\ \A x : Direct!StartOfBytes(x) <=> Begins(x, n)
  BY <1>0, PageIs
<1>4. PICK c, p, k : c = s3' /\ p = s3 /\ k = Len(s3)
  OBVIOUS
<1>5. Begins(p, n)
  BY <1>0, <1>2, <1>3, <1>4 DEF Direct!Fetched
<1>6. k \in Nat /\ k <= n
  <2>1. p \in Seq(Int) /\ Len(p) <= n /\ k = Len(p)
    BY <1>4, <1>5 DEF Begins
  <2> QED BY <2>1
<1>7. Begins(c, n)
  <2>1. CASE s3' = s3
    BY <1>4, <1>5, <2>1
  <2>2. CASE \E m \in 1 .. n - k : s3' = SubSeq(s1.bytes, 1, k + m)
    <3>1. PICK m \in 1 .. n - k : c = SubSeq(Numbers(n), 1, k + m)
      BY <1>3, <1>4, <2>2
    <3>2. PICK b : b = k + m
      OBVIOUS
    <3>3. b \in Nat /\ b <= n /\ 0 <= b /\ 1 = 0 + 1
      <4>1. m \in Nat /\ m <= n - k /\ n \in Nat
        BY <1>3, <1>6, <3>1
      <4> QED BY <1>6, <3>2, <4>1
    <3>4. /\ SubSeq(Numbers(n), 0 + 1, b) \in Seq(Int)
          /\ Len(SubSeq(Numbers(n), 0 + 1, b)) = b - 0
          /\ \A i \in 1 .. b - 0 : SubSeq(Numbers(n), 0 + 1, b)[i] = 0 + i
      BY <3>3, PieceOfNumbers
    <3>5. c = SubSeq(Numbers(n), 0 + 1, b)
      BY <3>1, <3>2, <3>3
    <3>6. c \in Seq(Int) /\ Len(c) = b /\ \A i \in 1 .. b : c[i] = i
      <4>1. b - 0 = b /\ \A i \in 1 .. b : 0 + i = i
        BY <3>3
      <4> QED BY <3>4, <3>5, <4>1
    <3> QED BY <3>3, <3>6 DEF Begins
  <2> QED BY <1>3, <1>4, <2>1, <2>2 DEF Direct!Writer
<1>8. Direct!StartOfBytes(s3)' /\ (Direct!StartOfBytes(s5)' <=> Direct!StartOfBytes(s5))
  BY <1>1, <1>3, <1>4, <1>7 DEF Direct!StartOfBytes, Begins
<1>9. Direct!Fetched'
  BY <1>0, <1>1, <1>2, <1>8 DEF Direct!Fetched
<1>10. Direct!Passed => Direct!Passed'
  BY <1>0, <1>1, <1>8 DEF Direct!Passed, Direct!NoHeader
<1> QED BY <1>0, <1>1, <1>9, <1>10 DEF Direct!DirectInv, Initialised

LEMMA CurlEndsKeeps ==
    ASSUME Direct!DirectInv, Direct!CurlEnds
    PROVE  Direct!DirectInv'
<1>0. Direct!Fetched /\ (~s8 /\ Initialised => Direct!Passed)
  BY DEF Direct!DirectInv, Initialised
<1>1. /\ s2 = "perform" /\ UNCHANGED <<s1, s3, s4, s5, s6, s7, s8>>
      /\ s2' = s1.outcome /\ (s1.outcome = "ok" => s3 = s1.bytes)
  BY DEF Direct!CurlEnds
<1>2. s1.kind = "curl" /\ s1.outcome \in {"ok", "http error", "other error"}
  BY <1>0, <1>1 DEF Direct!Fetched
<1>3. Direct!StartOfBytes(s3)' /\ (Direct!StartOfBytes(s5)' <=> Direct!StartOfBytes(s5))
  BY <1>0, <1>1, <1>2 DEF Direct!Fetched, Direct!StartOfBytes
<1>4. Direct!Fetched'
  BY <1>0, <1>1, <1>2, <1>3 DEF Direct!Fetched
<1>5. Direct!Passed => Direct!Passed'
  BY <1>0, <1>1, <1>2, <1>3 DEF Direct!Passed, Direct!NoHeader
<1> QED BY <1>0, <1>1, <1>4, <1>5 DEF Direct!DirectInv, Initialised

LEMMA CurlAnswerKeeps ==
    ASSUME Direct!DirectInv, Direct!CurlAnswer
    PROVE  Direct!DirectInv'
<1>0. Direct!Fetched /\ (~s8 /\ Initialised => Direct!Passed)
  BY DEF Direct!DirectInv, Initialised
<1>1. /\ s1.kind = "curl" /\ UNCHANGED <<s1, s3, s5, s6, s8>>
      /\ s2 \in {"ok", "http error", "other error"}
  BY DEF Direct!CurlAnswer
<1>2. \/ s2' = "return" /\ (s4' = s4 \/ s4' = Direct!Header("FILE_NOT_FOUND", 0))
      \/ s2 = "ok" /\ s2' = "send" /\ s4' = Direct!Header("OK", Len(s3))
  BY DEF Direct!CurlAnswer, Direct!Return
<1>3. Direct!StartOfBytes(s3)' /\ (Direct!StartOfBytes(s5)' <=> Direct!StartOfBytes(s5))
  BY <1>0, <1>1 DEF Direct!Fetched, Direct!StartOfBytes
<1>4. Direct!Fetched'
  BY <1>0, <1>1, <1>2, <1>3 DEF Direct!Fetched
<1>5. Initialised /\ Direct!Passed => Direct!Passed'
  <2> SUFFICES ASSUME Initialised, Direct!Passed PROVE Direct!Passed'
    OBVIOUS
  <2>1. s6 = [rounds |-> 0, bytes |-> 0] /\ s4 = Direct!NoHeader
    BY <1>0, <1>1 DEF Direct!Passed
  <2>2. CASE s2' = "return"
    <3>1. s4'.status # "OK"
      <4>1. s4' = Direct!NoHeader \/ s4' = Direct!Header("FILE_NOT_FOUND", 0)
        BY <1>2, <2>1, <2>2
      <4>2. Direct!NoHeader.status # "OK"
        BY DEF Direct!NoHeader
      <4>3. Direct!Header("FILE_NOT_FOUND", 0).status # "OK"
        BY DEF Direct!Header
      <4> QED BY <4>1, <4>2, <4>3
    <3> QED BY <1>1, <1>3, <2>2, <3>1 DEF Direct!Passed
  <2>3. CASE s2 = "ok" /\ s2' = "send" /\ s4' = Direct!Header("OK", Len(s3))
    <3>1. s3 = s1.bytes
      BY <1>0, <1>1, <2>3 DEF Direct!Fetched, Initialised
    <3>2. s6.bytes = 0 /\ s6.rounds * BufSize = 0
      <4>1. s6.bytes = 0 /\ s6.rounds = 0
        BY <2>1
      <4>2. BufSize \in Int
        BY DirectAssumption
      <4>3. \A b \in Int : 0 * b = 0
        OBVIOUS
      <4> QED BY <4>1, <4>2, <4>3
    <3>3. Direct!StartOfBytes(s5)' /\ Len(s5') = s6'.bytes
      BY <1>0, <1>1, <1>3 DEF Direct!Passed
    <3>4. s4' = Direct!Header("OK", Len(s1'.bytes))
      BY <1>1, <2>3, <3>1
    <3>5. s6'.bytes = s6'.rounds * BufSize
      BY <1>1, <3>2
    <3> QED BY <2>3, <3>3, <3>4, <3>5 DEF Direct!Passed
  <2> QED BY <1>2, <2>2, <2>3
<1> QED BY <1>0, <1>1, <1>4, <1>5 DEF Direct!DirectInv, Initialised

LEMMA CurlSendKeeps ==
    ASSUME Direct!DirectInv, Direct!CurlSend
    PROVE  Direct!DirectInv'
<1>0. Direct!Fetched /\ (~s8 /\ Initialised => Direct!Passed)
  BY DEF Direct!DirectInv, Initialised
<1>1. s1.kind = "curl" /\ s2 = "send" /\ UNCHANGED <<s1, s3, s4>>
  BY DEF Direct!CurlSend
<1>2. PICK n \in Nat : /\ s1.bytes = Numbers(n) /\ Len(s1.bytes) = n
                       /\ \A x : Direct!StartOfBytes(x) <=> Begins(x, n)
  BY <1>0, PageIs
<1>3. s6.rounds \in Nat /\ s6.bytes \in Nat
  BY <1>0, SourceIs
<1>4. Direct!StartOfBytes(s3) /\ Direct!StartOfBytes(s3)'
  BY <1>0, <1>1 DEF Direct!Fetched, Direct!StartOfBytes
<1>5. CASE ~(s6.bytes < Len(s3))
  <2>1. s2' = "return" /\ s7' = s6.bytes /\ UNCHANGED <<s5, s6, s8>>
    BY <1>5 DEF Direct!CurlSend, Direct!Return
  <2>2. Direct!Fetched'
    BY <1>0, <1>1, <1>4, <2>1 DEF Direct!Fetched
  <2>3. Initialised /\ Direct!Passed => Direct!Passed'
    <3> SUFFICES ASSUME Initialised, Direct!Passed PROVE Direct!Passed'
      OBVIOUS
    <3>1. s3 = s1.bytes
      BY <1>0, <1>1 DEF Direct!Fetched, Initialised
    <3>2. Direct!StartOfBytes(s5) /\ Len(s5) = s6.bytes /\ s4 = Direct!Header("OK", n)
      BY <1>1, <1>2 DEF Direct!Passed
    <3>3. Len(s5) <= n
      BY <1>2, <3>2 DEF Begins
    <3>4. s6.bytes = n
      BY <1>2, <1>3, <1>5, <3>1, <3>2, <3>3
    <3>5. Direct!StartOfBytes(s5)'
      BY <1>1, <2>1, <3>2 DEF Direct!StartOfBytes
    <3>6. s4'.length = n /\ s6'.bytes = n /\ s7' = n /\ Len(s1'.bytes) = n
      BY <1>1, <1>2, <2>1, <3>2, <3>4 DEF Direct!Header
    <3>7. Len(s5') = s6'.bytes
      BY <2>1, <3>2
    <3> QED BY <2>1, <3>5, <3>6, <3>7 DEF Direct!Passed
  <2> QED BY <1>0, <1>1, <2>1, <2>2, <2>3 DEF Direct!DirectInv, Initialised
<1>6. CASE /\ s6.bytes < Len(s3) /\ UNCHANGED s2
           /\ s6' = [s6 EXCEPT !.rounds = @ + 1] /\ s8' = TRUE
  <2>1. s6' \in [rounds : Nat, bytes : Nat]
    <3>1. s6 \in [rounds : Nat, bytes : Nat]
      BY <1>0 DEF Direct!Fetched
    <3> QED BY <1>6, <3>1
  <2>2. Direct!Fetched'
    BY <1>0, <1>1, <1>4, <1>6, <2>1 DEF Direct!Fetched
  <2>3. s8' = TRUE
    BY <1>6
  <2> QED BY <2>2, <2>3 DEF Direct!DirectInv, Initialised
<1>7. ASSUME s6.bytes < Len(s3), UNCHANGED s2, NEW m \in 1 .. Direct!PieceLength,
             s5' = s5 \o SubSeq(Direct!Piece, 1, m),
             s6' = [rounds |-> s6.rounds + 1, bytes |-> s6.bytes + m],
             s8' = (s8 \/ m < Direct!PieceLength)
      PROVE  Direct!DirectInv'
  <2>1. PICK q, k, a : q = Direct!PieceLength /\ k = Len(s3) /\ a = s6.rounds * BufSize
    OBVIOUS
  <2>2. k \in Nat /\ k <= n
    <3>1. PICK p : p = s3
      OBVIOUS
    <3>2. p \in Seq(Int) /\ Len(p) <= n /\ k = Len(p)
      BY <1>2, <1>4, <2>1, <3>1 DEF Begins
    <3> QED BY <3>2
  <2>3. BufSize \in Nat \ {0}
    BY DirectAssumption
  <2>4. q = IF k - a \in 0 .. BufSize - 1 THEN k - a ELSE BufSize
    BY <2>1 DEF Direct!PieceLength
  <2>5. a \in Nat
    BY <1>3, <2>1, <2>3
  <2>6. q \in Nat /\ m \in 1 .. q
    BY <1>7, <2>1, <2>2, <2>3, <2>4, <2>5
  <2>7. s6' \in [rounds : Nat, bytes : Nat]
    <3>1. s6.rounds + 1 \in Nat /\ s6.bytes + m \in Nat
      BY <1>3, <2>6
    <3> QED BY <1>7, <3>1
  <2>8. Direct!Fetched'
    BY <1>0, <1>1, <1>4, <1>7, <2>7 DEF Direct!Fetched
  <2>9. ~s8' /\ Initialised => Direct!Passed'
    <3> SUFFICES ASSUME ~s8', Initialised PROVE Direct!Passed'
      OBVIOUS
    <3>1. ~s8 /\ m = q
      <4>1. ~(s8 \/ m < Direct!PieceLength)
        BY <1>7
      <4>2. ~s8 /\ ~(m < q)
        BY <2>1, <4>1
      <4> QED BY <2>6, <4>2
    <3>2. Direct!Passed
      BY <1>0, <3>1
    <3>3. PICK b, y : b = s6.bytes /\ y = s5
      OBVIOUS
    <3>4. /\ Begins(y, n) /\ Len(y) = b /\ s4 = Direct!Header("OK", n)
          /\ b < k /\ b = a /\ b \in Nat
      BY <1>1, <1>2, <1>3, <1>7, <2>1, <3>2, <3>3 DEF Direct!Passed
    <3>5. s3 = Numbers(n) /\ k = n
      BY <1>0, <1>1, <1>2, <2>1 DEF Direct!Fetched, Initialised
    <3>6. b + q <= k /\ (b + q = k \/ q = BufSize)
      BY <2>2, <2>3, <2>4, <2>5, <3>4
    <3>7. PICK p : p = SubSeq(Direct!Piece, 1, m)
      OBVIOUS
    <3>8. p \in Seq(Int) /\ Len(p) = q /\ \A i \in 1 .. q : p[i] = b + i
      <4>1. PICK w : w = Direct!Piece
        OBVIOUS
      <4>2. w = [i \in 1 .. q |-> IF a + i <= k THEN s3[a + i] ELSE Direct!Beyond]
        BY <2>1, <4>1 DEF Direct!Piece
      <4>3. \A i \in 1 .. q : a + i <= k /\ s3[a + i] = a + i
        <5> SUFFICES ASSUME NEW i \in 1 .. q PROVE a + i <= k /\ s3[a + i] = a + i
          OBVIOUS
        <5>1. a + i <= k /\ a + i \in 1 .. n
          BY <2>5, <2>6, <3>4, <3>5, <3>6
        <5> QED BY <3>5, <5>1, NumbersAre
      <4>4. w \in [1 .. q -> Int]
        <5>1. \A i \in 1 .. q : w[i] = a + i /\ a + i \in Int
          BY <2>5, <2>6, <4>2, <4>3
        <5>2. \A i \in 1 .. q : w[i] \in Int
          BY <5>1
        <5>3. w = [i \in 1 .. q |-> w[i]]
          BY <4>2
        <5> QED BY <5>2, <5>3
      <4>5. w \in Seq(Int) /\ Len(w) = q /\ \A i \in 1 .. q : w[i] = a + i
        BY <2>6, <4>2, <4>3, <4>4
      <4>6. p = w
        BY <2>6, <3>1, <3>7, <4>1, <4>5
      <4> QED BY <3>4, <4>5, <4>6
    <3>9. Begins(y \o p, n) /\ Len(y \o p) = b + q
      <4>1. Len(y) + Len(p) <= n /\ \A i \in 1 .. Len(p) : p[i] = Len(y) + i
        BY <3>4, <3>5, <3>6, <3>8
      <4>2. Begins(y, n) /\ p \in Seq(Int)
        BY <3>4, <3>8
      <4>3. Begins(y \o p, n) /\ Len(y \o p) = Len(y) + Len(p)
        BY <4>1, <4>2, BeginningGrows
      <4> QED BY <3>4, <3>8, <4>3
    <3>10. PICK z : z = s5'
      OBVIOUS
    <3>11. z = y \o p
      BY <1>7, <3>3, <3>7, <3>10
    <3>12. Direct!StartOfBytes(s5)' /\ Len(s5') = s6'.bytes
      <4>1. Direct!StartOfBytes(z)
        BY <1>2, <3>9, <3>11
      <4>2. Direct!StartOfBytes(s5)'
        BY <1>1, <3>10, <4>1 DEF Direct!StartOfBytes
      <4>3. s6'.bytes = b + q
        BY <1>7, <3>1, <3>3
      <4> QED BY <3>9, <3>10, <3>11, <4>2, <4>3
    <3>13. s6'.bytes = Len(s3') \/ s6'.bytes = s6'.rounds * BufSize
      <4>1. s6'.bytes = b + q /\ Len(s3') = k
        BY <1>1, <1>7, <2>1, <3>1, <3>3
      <4>2. PICK r : r = s6.rounds
        OBVIOUS
      <4>3. r \in Nat /\ a = r * BufSize
        BY <1>3, <2>1, <4>2
      <4>4. (r + 1) * BufSize = a + BufSize
        BY <2>3, <4>3
      <4>5. s6'.rounds = r + 1
        BY <1>7, <4>2
      <4> QED BY <3>4, <3>6, <4>1, <4>4, <4>5
    <3>14. s4' = Direct!Header("OK", Len(s1'.bytes))
      BY <1>1, <1>2, <3>4
    <3> QED BY <1>1, <1>7, <3>12, <3>13, <3>14 DEF Direct!Passed
  <2> QED BY <1>1, <2>8, <2>9 DEF Direct!DirectInv, Initialised
<1> QED BY <1>5, <1>6, <1>7 DEF Direct!CurlSend

LEMMA FileOpenKeeps ==
    ASSUME Direct!DirectInv, Direct!FileOpen
    PROVE  Direct!DirectInv'
<1>0. Direct!Fetched /\ (~s8 /\ Initialised => Direct!Passed)
  BY DEF Direct!DirectInv, Initialised
<1>1. s1.kind = "file" /\ s2 = "start" /\ UNCHANGED <<s1, s3, s5, s6, s8>>
  BY DEF Direct!FileOpen
<1>2. \/ s2' = "read" /\ s4' = Direct!Header("OK", Len(s1.bytes))
      \/ s2' = "return" /\ s4' = Direct!Header("FILE_NOT_FOUND", 0)
      \/ s2' = "return" /\ s4' = s4
  BY DEF Direct!FileOpen, Direct!Return
<1>3. Direct!StartOfBytes(s5)' <=> Direct!StartOfBytes(s5)
  BY <1>1 DEF Direct!StartOfBytes
<1>4. Direct!Fetched'
  BY <1>0, <1>1, <1>2 DEF Direct!Fetched
<1>5. Direct!Passed => Direct!Passed'
  <2>1. Direct!NoHeader.status # "OK" /\ Direct!Header("FILE_NOT_FOUND", 0).status # "OK"
    BY DEF Direct!NoHeader, Direct!Header
  <2> QED BY <1>1, <1>2, <1>3, <2>1 DEF Direct!Passed
<1> QED BY <1>0, <1>1, <1>4, <1>5 DEF Direct!DirectInv, Initialised

LEMMA FileReadKeeps ==
    ASSUME Direct!DirectInv, Direct!FileRead
    PROVE  Direct!DirectInv'
<1>0. Direct!Fetched /\ (~s8 /\ Initialised => Direct!Passed)
  BY DEF Direct!DirectInv, Initialised
<1>1. s2 = "read" /\ UNCHANGED <<s1, s4, s5, s6, s8>>
  BY DEF Direct!FileRead
<1>2. s1.kind = "file"
  BY <1>0, <1>1 DEF Direct!Fetched
<1>3. PICK n \in Nat : /\ s1.bytes = Numbers(n) /\ Len(s1.bytes) = n
                       /\ \A x : Direct!StartOfBytes(x) <=> Begins(x, n)
  BY <1>0, PageIs
<1>4. s6.bytes \in Nat
  BY <1>0, SourceIs
<1>5. Direct!StartOfBytes(s5)' <=> Direct!StartOfBytes(s5)
  BY <1>1 DEF Direct!StartOfBytes
<1>6. CASE s2' = "return" /\ s7' = -1
  <2>1. Direct!Fetched'
    BY <1>0, <1>1, <1>2, <1>6 DEF Direct!Fetched
  <2>2. Direct!Passed => Direct!Passed'
    <3>1. ~(s7' >= 0)
      BY <1>6
    <3> QED BY <1>1, <1>5, <1>6, <3>1 DEF Direct!Passed
  <2> QED BY <1>0, <1>1, <2>1, <2>2 DEF Direct!DirectInv, Initialised
<1>7. CASE ~(s6.bytes < Len(s1.bytes)) /\ s2' = "return" /\ s7' = s6.bytes
  <2>1. Direct!Fetched'
    BY <1>0, <1>1, <1>2, <1>7 DEF Direct!Fetched
  <2>2. Direct!Passed => Direct!Passed'
    <3> SUFFICES ASSUME Direct!Passed PROVE Direct!Passed'
      OBVIOUS
    <3>1. Direct!StartOfBytes(s5) /\ Len(s5) = s6.bytes /\ s4 = Direct!Header("OK", n)
      BY <1>1, <1>3 DEF Direct!Passed
    <3>2. Len(s5) <= n
      BY <1>3, <3>1 DEF Begins
    <3>3. s6.bytes = n
      BY <1>3, <1>4, <1>7, <3>1, <3>2
    <3>4. s4'.length = n /\ s6'.bytes = n /\ s7' = n /\ Len(s1'.bytes) = n
      BY <1>1, <1>3, <1>7, <3>1, <3>3 DEF Direct!Header
    <3>5. Direct!StartOfBytes(s5)' /\ Len(s5') = s6'.bytes
      BY <1>1, <1>5, <3>1
    <3> QED BY <1>7, <3>4, <3>5 DEF Direct!Passed
  <2> QED BY <1>0, <1>1, <2>1, <2>2 DEF Direct!DirectInv, Initialised
<1>8. ASSUME s6.bytes < Len(s1.bytes), s2' = "write", UNCHANGED s7,
             s3' = SubSeq(s1.bytes, s6.bytes + 1,
                          IF s6.bytes + BufSize < Len(s1.bytes) THEN s6.bytes + BufSize
                          ELSE Len(s1.bytes))
      PROVE  Direct!DirectInv'
  <2>1. PICK b, e, c :
           /\ b = s6.bytes /\ c = s3'
           /\ e = IF s6.bytes + BufSize < Len(s1.bytes) THEN s6.bytes + BufSize
                  ELSE Len(s1.bytes)
    OBVIOUS
  <2>2. BufSize \in Nat
    BY DirectAssumption
  <2>3. b \in Nat /\ e \in Nat /\ b <= e /\ e <= n
    BY <1>3, <1>4, <1>8, <2>1, <2>2
  <2>4. c = SubSeq(Numbers(n), b + 1, e)
    BY <1>3, <1>8, <2>1
  <2>5. c \in Seq(Int) /\ Len(c) = e - b /\ \A i \in 1 .. e - b : c[i] = b + i
    <3>1. /\ SubSeq(Numbers(n), b + 1, e) \in Seq(Int)
          /\ Len(SubSeq(Numbers(n), b + 1, e)) = e - b
          /\ \A i \in 1 .. e - b : SubSeq(Numbers(n), b + 1, e)[i] = b + i
      BY <2>3, PieceOfNumbers
    <3> QED BY <2>4, <3>1
  <2>6. /\ c \in Seq(Int) /\ b + Len(c) <= n
        /\ \A i \in 1 .. Len(c) : c[i] = b + i
    BY <2>3, <2>5
  <2>7. /\ s3' \in Seq(Int) /\ s6'.bytes + Len(s3') <= Len(s1'.bytes)
        /\ \A i \in 1 .. Len(s3') : s3'[i] = s6'.bytes + i
    BY <1>1, <1>3, <2>1, <2>6
  <2>8. Direct!Fetched'
    BY <1>0, <1>1, <1>2, <1>8, <2>7 DEF Direct!Fetched
  <2>9. Direct!Passed => Direct!Passed'
    BY <1>1, <1>5, <1>8 DEF Direct!Passed
  <2> QED BY <1>0, <1>1, <2>8, <2>9 DEF Direct!DirectInv, Initialised
<1> QED BY <1>1, <1>6, <1>7, <1>8 DEF Direct!FileRead, Direct!Return, Direct!Failure

LEMMA FileWriteKeeps ==
    ASSUME Direct!DirectInv, Direct!FileWrite
    PROVE  Direct!DirectInv'
<1>0. Direct!Fetched /\ (~s8 /\ Initialised => Direct!Passed)
  BY DEF Direct!DirectInv, Initialised
<1>1. s2 = "write" /\ UNCHANGED <<s1, s3, s4>>
  BY DEF Direct!FileWrite
<1>2. s1.kind = "file"
  BY <1>0, <1>1 DEF Direct!Fetched
<1>3. PICK n \in Nat : /\ s1.bytes = Numbers(n) /\ Len(s1.bytes) = n
                       /\ \A x : Direct!StartOfBytes(x) <=> Begins(x, n)
  BY <1>0, PageIs
<1>4. s6.bytes \in Nat /\ s6.rounds \in Nat
  BY <1>0, SourceIs
<1>5. CASE s2' = "return" /\ s8' = TRUE /\ UNCHANGED s6
  <2>1. Direct!Fetched'
    BY <1>0, <1>1, <1>2, <1>5 DEF Direct!Fetched
  <2>2. s8' = TRUE
    BY <1>5
  <2> QED BY <2>1, <2>2 DEF Direct!DirectInv
<1>6. CASE /\ s5' = s5 \o s3 /\ s2' = "read" /\ UNCHANGED <<s7, s8>>
           /\ s6' = [rounds |-> s6.rounds + 1, bytes |-> s6.bytes + Len(s3)]
  <2>1. PICK b, c, y, z : b = s6.bytes /\ c = s3 /\ y = s5 /\ z = s5'
    OBVIOUS
  <2>2. c \in Seq(Int) /\ b + Len(c) <= n /\ \A i \in 1 .. Len(c) : c[i] = b + i
    BY <1>0, <1>1, <1>2, <1>3, <2>1 DEF Direct!Fetched
  <2>3. Len(c) \in Nat
    BY <2>2
  <2>4. s6' \in [rounds : Nat, bytes : Nat]
    <3>1. s6.rounds + 1 \in Nat /\ s6.bytes + Len(s3) \in Nat
      BY <1>4, <2>1, <2>3
    <3> QED BY <1>6, <3>1
  <2>5. Direct!Fetched'
    BY <1>0, <1>1, <1>2, <1>6, <2>4 DEF Direct!Fetched
  <2>6. Direct!Passed => Direct!Passed'
    <3> SUFFICES ASSUME Direct!Passed PROVE Direct!Passed'
      OBVIOUS
    <3>1. Begins(y, n) /\ Len(y) = b /\ s4 = Direct!Header("OK", n)
      BY <1>1, <1>3, <2>1 DEF Direct!Passed
    <3>2. Len(y) + Len(c) <= n /\ \A i \in 1 .. Len(c) : c[i] = Len(y) + i
      BY <2>2, <3>1
    <3>3. Begins(y \o c, n) /\ Len(y \o c) = Len(y) + Len(c)
      BY <2>2, <3>1, <3>2, BeginningGrows
    <3>4. z = y \o c
      BY <1>6, <2>1
    <3>5. Direct!StartOfBytes(z) /\ Len(z) = b + Len(c)
      BY <1>3, <3>1, <3>3, <3>4
    <3>6. Direct!StartOfBytes(s5)'
      BY <1>1, <2>1, <3>5 DEF Direct!StartOfBytes
    <3>7. Len(s5') = s6'.bytes
      BY <1>6, <2>1, <3>5
    <3>8. s4' = Direct!Header("OK", Len(s1'.bytes))
      BY <1>1, <1>3, <3>1
    <3> QED BY <1>6, <3>6, <3>7, <3>8 DEF Direct!Passed
  <2> QED BY <1>0, <1>1, <1>6, <2>5, <2>6 DEF Direct!DirectInv, Initialised
<1> QED BY <1>5, <1>6 DEF Direct!FileWrite, Direct!Return

\* The elements of two sequences in a row.
LEMMA Concatenation ==
    ASSUME NEW S, NEW x \in Seq(S), NEW y \in Seq(S)
    PROVE  /\ x \o y \in Seq(S) /\ Len(x \o y) = Len(x) + Len(y)
           /\ \A i \in 1 .. Len(x) + Len(y) :
                 (x \o y)[i] = IF i <= Len(x) THEN x[i] ELSE y[i - Len(x)]
OBVIOUS

\* Numbers that rise, zeros aside.
Rises(x) == \A j \in 1 .. Len(x) : \A i \in 1 .. j - 1 : x[j] # 0 => x[i] < x[j]

LEMMA RisingGrows ==
    ASSUME NEW x \in Seq(Int), NEW p \in Seq(Int), NEW a \in Int, Rises(x), Rises(p),
           \A i \in 1 .. Len(x) : x[i] <= a, \A i \in 1 .. Len(p) : p[i] # 0 => p[i] > a
    PROVE  x \o p \in Seq(Int) /\ Len(x \o p) = Len(x) + Len(p) /\ Rises(x \o p)
<1>1. PICK c, m, n : c = x \o p /\ m = Len(x) /\ n = Len(p)
  OBVIOUS
<1>2. m \in Nat /\ n \in Nat
  BY <1>1
<1>3. c \in Seq(Int) /\ Len(c) = m + n
  BY <1>1
<1>4. \A i \in 1 .. m + n : c[i] = IF i <= m THEN x[i] ELSE p[i - m]
  BY <1>1
<1>5. ASSUME NEW i \in m + 1 .. m + n PROVE i - m \in 1 .. n /\ c[i] = p[i - m]
  <2>1. i \in 1 .. m + n /\ ~(i <= m) /\ i - m \in 1 .. n
    BY <1>2
  <2> QED BY <1>4, <2>1
<1>6. ASSUME NEW j \in 1 .. m + n, NEW i \in 1 .. j - 1, c[j] # 0 PROVE c[i] < c[j]
  <2>1. CASE j <= m
    <3>1. j \in 1 .. m /\ i \in 1 .. m /\ i \in 1 .. m + n /\ i <= m
      BY <1>2, <2>1
    <3>2. c[i] = x[i] /\ c[j] = x[j]
      BY <1>4, <2>1, <3>1
    <3> QED BY <1>1, <1>6, <3>1, <3>2 DEF Rises
  <2>2. CASE ~(j <= m)
    <3>1. PICK k : k = j - m
      OBVIOUS
    <3>2. j \in m + 1 .. m + n
      BY <1>2, <2>2
    <3>3. k \in 1 .. n /\ c[j] = p[k]
      BY <1>5, <3>1, <3>2
    <3>4. CASE i <= m
      <4>1. i \in 1 .. m /\ i \in 1 .. m + n
        BY <1>2, <3>4
      <4>2. c[i] = x[i] /\ x[i] <= a /\ x[i] \in Int
        BY <1>1, <1>4, <3>4, <4>1
      <4>3. p[k] > a /\ p[k] \in Int
        BY <1>1, <1>6, <3>3
      <4> QED BY <3>3, <4>2, <4>3
    <3>5. CASE ~(i <= m)
      <4>1. PICK l : l = i - m
        OBVIOUS
      <4>2. i \in m + 1 .. m + n /\ l \in 1 .. k - 1
        BY <1>2, <3>1, <3>2, <3>5, <4>1
      <4>3. c[i] = p[l]
        BY <1>5, <4>1, <4>2
      <4> QED BY <1>1, <1>6, <3>3, <4>2, <4>3 DEF Rises
    <3> QED BY <3>4, <3>5
  <2> QED BY <2>1, <2>2
<1>7. Rises(c)
  BY <1>3, <1>6 DEF Rises
<1> QED BY <1>1, <1>3, <1>7

\* Ordered, as the lemmas use it.
LEMMA OrderedIs ==
    Direct!Ordered <=>
        /\ s5 \in Seq(Int) /\ Rises(s5)
        /\ s1.kind = "file" => /\ Direct!StartOfBytes(s5)
                               /\ s2 # "return" => Len(s5) = s6.bytes
        /\ s1.kind = "curl" => /\ Len(s5) = s6.bytes
                               /\ \A i \in 1 .. Len(s5) : s5[i] <= s6.rounds * BufSize
        /\ s2 \in {"start", "perform", "ok", "http error", "other error"} => s4 = Direct!NoHeader
        /\ s2 = "return" /\ s4.status = "OK" /\ s7 >= 0 => s7 = Len(s5)
BY DEF Direct!Ordered, Direct!Beyond, Rises

\* A piece of the page is sent, or a part of it.
LEMMA CurlSendOrdered ==
    ASSUME Direct!DirectInv, Direct!Ordered, Direct!CurlSend
    PROVE  Direct!Ordered'
<1>0. Direct!Fetched
  BY DEF Direct!DirectInv
<1>1. s1.kind = "curl" /\ s2 = "send" /\ UNCHANGED <<s1, s3, s4>>
  BY DEF Direct!CurlSend
<1>2. PICK n \in Nat : /\ s1.bytes = Numbers(n) /\ Len(s1.bytes) = n
                       /\ \A x : Direct!StartOfBytes(x) <=> Begins(x, n)
  BY <1>0, PageIs
<1>3. PICK r, b, y, c, w : r = s6.rounds /\ b = s6.bytes /\ y = s5 /\ c = s3 /\ w = BufSize
  OBVIOUS
<1>4. r \in Nat /\ b \in Nat /\ w \in Nat \ {0} /\ s6 \in [rounds : Nat, bytes : Nat]
  BY <1>0, <1>3, SourceIs, DirectAssumption DEF Direct!Fetched
<1>5. /\ y \in Seq(Int) /\ Rises(y) /\ Len(y) = b
      /\ \A i \in 1 .. Len(y) : y[i] <= r * w
  BY <1>1, <1>3, OrderedIs
<1>6. /\ r * w \in Nat /\ (r + 1) * w = r * w + w
      /\ \A i \in 1 .. Len(y) : y[i] <= (r + 1) * w
  <2>1. r * w \in Nat /\ (r + 1) * w = r * w + w
    BY <1>4
  <2>2. ASSUME NEW i \in 1 .. Len(y) PROVE y[i] <= (r + 1) * w
    <3>1. y[i] \in Int /\ y[i] <= r * w
      BY <1>5
    <3> QED BY <1>4, <2>1, <3>1
  <2> QED BY <2>1, <2>2
<1>7. CASE s2' = "return" /\ s7' = s6.bytes /\ UNCHANGED <<s5, s6>>
  <2>1. s5' = y /\ s7' = Len(y) /\ Len(y) = s6'.bytes /\ s6'.rounds = r
    BY <1>3, <1>5, <1>7
  <2> QED BY <1>1, <1>3, <1>5, <1>7, <2>1, OrderedIs DEF Direct!Ordered, Direct!Beyond, Rises
<1>8. CASE UNCHANGED <<s2, s5>> /\ s6' = [s6 EXCEPT !.rounds = @ + 1]
  <2>1. s5' = y /\ s2' = "send" /\ Len(y) = s6'.bytes /\ s6'.rounds = r + 1
    BY <1>1, <1>3, <1>4, <1>5, <1>8
  <2> QED BY <1>1, <1>3, <1>5, <1>6, <2>1 DEF Direct!Ordered, Direct!Beyond, Rises
<1>9. ASSUME UNCHANGED s2, NEW m \in 1 .. Direct!PieceLength,
             s5' = s5 \o SubSeq(Direct!Piece, 1, m),
             s6' = [rounds |-> s6.rounds + 1, bytes |-> s6.bytes + m]
      PROVE  Direct!Ordered'
  <2>1. PICK q, k, a, v : /\ q = Direct!PieceLength /\ k = Len(c) /\ a = r * w
                          /\ v = Direct!Piece
    OBVIOUS
  <2>2. k \in Nat /\ c \in Seq(Int) /\ \A i \in 1 .. k : c[i] = i
    <3>1. Direct!StartOfBytes(c)
      BY <1>0, <1>1, <1>3 DEF Direct!Fetched
    <3> QED BY <1>2, <2>1, <3>1 DEF Begins
  <2>3. q = IF k - a \in 0 .. w - 1 THEN k - a ELSE w
    BY <1>3, <2>1 DEF Direct!PieceLength
  <2>4. a \in Nat /\ q \in Nat /\ q <= w /\ m \in 1 .. q
    BY <1>4, <1>6, <1>9, <2>1, <2>2, <2>3
  <2>5. v = [i \in 1 .. q |-> IF a + i <= k THEN c[a + i] ELSE 0]
    BY <1>3, <2>1 DEF Direct!Piece, Direct!Beyond
  <2>6. \A i \in 1 .. q : v[i] \in {a + i, 0}
    <3> SUFFICES ASSUME NEW i \in 1 .. q PROVE v[i] \in {a + i, 0}
      OBVIOUS
    <3>1. CASE a + i <= k
      <4>1. a + i \in 1 .. k
        BY <2>4, <3>1
      <4> QED BY <2>2, <2>5, <3>1, <4>1
    <3>2. CASE ~(a + i <= k)
      BY <2>5, <3>2
    <3> QED BY <3>1, <3>2
  <2>7. v \in Seq(Int) /\ Len(v) = q
    <3>1. \A i \in 1 .. q : v[i] \in Int
      BY <2>4, <2>6
    <3>2. v \in [1 .. q -> Int]
      BY <2>5, <3>1
    <3> QED BY <2>4, <2>5, <3>2
  <2>8. PICK p : p = SubSeq(v, 1, m)
    OBVIOUS
  <2>9. p \in Seq(Int) /\ Len(p) = m /\ \A i \in 1 .. m : p[i] = v[i] /\ i \in 1 .. q
    BY <2>4, <2>7, <2>8
  <2>10. /\ \A i \in 1 .. Len(p) : p[i] # 0 => p[i] > a
         /\ \A i \in 1 .. Len(p) : p[i] <= a + w
         /\ Rises(p)
    <3>1. ASSUME NEW i \in 1 .. m
          PROVE  p[i] \in {a + i, 0}
      BY <2>6, <2>9
    <3>2. ASSUME NEW i \in 1 .. m PROVE (p[i] # 0 => p[i] > a) /\ p[i] <= a + w
      BY <1>4, <2>4, <3>1
    <3>3. ASSUME NEW j \in 1 .. m, NEW i \in 1 .. j - 1, p[j] # 0 PROVE p[i] < p[j]
      <4>1. i \in 1 .. m
        BY <2>4
      <4>2. p[j] = a + j /\ p[i] \in {a + i, 0}
        BY <3>1, <3>3, <4>1
      <4> QED BY <2>4, <4>1, <4>2
    <3> QED BY <2>9, <3>2, <3>3 DEF Rises
  <2>11. PICK z : z = y \o p
    OBVIOUS
  <2>12. z \in Seq(Int) /\ Len(z) = b + m /\ Rises(z)
    <3>1. \A i \in 1 .. Len(y) : y[i] <= a
      BY <1>5, <2>1
    <3>2. a \in Int
      BY <2>4
    <3>3. y \o p \in Seq(Int) /\ Len(y \o p) = Len(y) + Len(p) /\ Rises(y \o p)
      BY <1>5, <2>9, <2>10, <3>1, <3>2, RisingGrows
    <3> QED BY <1>5, <2>9, <2>11, <3>3
  <2>13. \A i \in 1 .. Len(z) : z[i] <= (r + 1) * w
    <3> SUFFICES ASSUME NEW i \in 1 .. b + m PROVE z[i] <= a + w
      BY <1>6, <2>1, <2>12
    <3>1. z[i] = IF i <= b THEN y[i] ELSE p[i - b]
      <4>1. /\ y \in Seq(Int) /\ Len(y) = b
            /\ p \in Seq(Int) /\ Len(p) = m
        BY <1>5, <2>9
      <4> QED BY <2>11, <4>1, Concatenation
    <3>2. CASE i <= b
      <4>1. i \in 1 .. Len(y)
        BY <1>4, <1>5, <3>2
      <4>2. y[i] \in Int /\ y[i] <= a
        BY <1>5, <2>1, <4>1
      <4> QED BY <1>4, <2>4, <3>1, <3>2, <4>2
    <3>3. CASE ~(i <= b)
      <4>1. PICK j : j = i - b
        OBVIOUS
      <4>2. j \in 1 .. Len(p)
        BY <1>4, <2>4, <2>9, <3>3, <4>1
      <4> QED BY <2>10, <3>1, <3>3, <4>1, <4>2
    <3> QED BY <3>2, <3>3
  <2>14. /\ s5' = z /\ s2' = "send" /\ Len(z) = s6'.bytes /\ s6'.rounds = r + 1
    <3>1. s5' = z
      BY <1>3, <1>9, <2>1, <2>8, <2>11
    <3> QED BY <1>1, <1>3, <1>9, <2>12, <3>1
  <2> QED BY <1>1, <1>3, <2>12, <2>13, <2>14 DEF Direct!Ordered, Direct!Beyond, Rises
<1> QED BY <1>7, <1>8, <1>9 DEF Direct!CurlSend, Direct!Return

\* A piece of the file is sent, or a part of it.
LEMMA FileWriteOrdered ==
    ASSUME Direct!DirectInv, Direct!Ordered, Direct!FileWrite
    PROVE  Direct!Ordered'
<1>0. Direct!Fetched
  BY DEF Direct!DirectInv
<1>1. s2 = "write" /\ UNCHANGED <<s1, s3, s4>>
  BY DEF Direct!FileWrite
<1>2. s1.kind = "file"
  BY <1>0, <1>1 DEF Direct!Fetched
<1>3. PICK n \in Nat : /\ s1.bytes = Numbers(n) /\ Len(s1.bytes) = n
                       /\ \A x : Direct!StartOfBytes(x) <=> Begins(x, n)
  BY <1>0, PageIs
<1>4. PICK b, c, y, z : b = s6.bytes /\ c = s3 /\ y = s5 /\ z = s5'
  OBVIOUS
<1>5. c \in Seq(Int) /\ b + Len(c) <= n /\ \A i \in 1 .. Len(c) : c[i] = b + i
  BY <1>0, <1>1, <1>2, <1>3, <1>4 DEF Direct!Fetched
<1>6. Begins(y, n) /\ Len(y) = b /\ b \in Nat /\ Len(c) \in Nat
  BY <1>0, <1>1, <1>2, <1>3, <1>4, <1>5, OrderedIs, SourceIs
<1>7. ASSUME NEW m \in 0 .. Len(c), z = y \o SubSeq(c, 1, m)
      PROVE  Direct!StartOfBytes(s5)' /\ s5' \in Seq(Int) /\ Rises(s5') /\ Len(s5') = b + m
  <2>1. PICK p : p = SubSeq(c, 1, m)
    OBVIOUS
  <2>2. p \in Seq(Int) /\ Len(p) = m /\ \A i \in 1 .. m : p[i] = b + i
    BY <1>5, <1>6, <2>1
  <2>3. Len(y) + Len(p) <= n /\ \A i \in 1 .. Len(p) : p[i] = Len(y) + i
    BY <1>5, <1>6, <2>2
  <2>4. Begins(y \o p, n) /\ Len(y \o p) = Len(y) + Len(p)
    BY <1>6, <2>2, <2>3, BeginningGrows
  <2>5. Begins(z, n) /\ Len(z) = b + m
    BY <1>6, <1>7, <2>1, <2>2, <2>4
  <2>6. Direct!StartOfBytes(s5)'
    BY <1>1, <1>3, <1>4, <2>5 DEF Direct!StartOfBytes
  <2>7. z \in Seq(Int) /\ \A i \in 1 .. Len(z) : z[i] = i
    BY <2>5 DEF Begins
  <2>8. Rises(z)
    <3> SUFFICES ASSUME NEW j \in 1 .. Len(z), NEW i \in 1 .. j - 1 PROVE z[i] < z[j]
      BY DEF Rises
    <3>1. i \in 1 .. Len(z) /\ i < j
      BY <2>7
    <3> QED BY <2>7, <3>1
  <2> QED BY <1>4, <2>5, <2>6, <2>7, <2>8
<1>8. CASE /\ s5' = s5 \o s3 /\ s2' = "read"
           /\ s6' = [rounds |-> s6.rounds + 1, bytes |-> s6.bytes + Len(s3)]
  <2>1. z = y \o SubSeq(c, 1, Len(c)) /\ Len(c) \in 0 .. Len(c)
    <3>1. c = SubSeq(c, 1, Len(c))
      BY <1>5
    <3> QED BY <1>4, <1>6, <1>8, <3>1
  <2>2. Direct!StartOfBytes(s5)' /\ s5' \in Seq(Int) /\ Rises(s5') /\ Len(s5') = b + Len(c)
    BY <1>7, <2>1
  <2>3. Len(s5') = s6'.bytes /\ s1'.kind = "file"
    BY <1>1, <1>2, <1>4, <1>8, <2>2
  <2> QED BY <1>8, <2>2, <2>3 DEF Direct!Ordered, Direct!Beyond, Rises
<1>9. ASSUME NEW m \in 0 .. Len(s3) - 1, s5' = s5 \o SubSeq(s3, 1, m), s2' = "return", s7' = -1
      PROVE  Direct!Ordered'
  <2>1. m \in 0 .. Len(c) /\ z = y \o SubSeq(c, 1, m)
    BY <1>4, <1>6, <1>9
  <2>2. Direct!StartOfBytes(s5)' /\ s5' \in Seq(Int) /\ Rises(s5')
    BY <1>7, <2>1
  <2>3. s1'.kind = "file" /\ ~(s7' >= 0)
    BY <1>1, <1>2, <1>9
  <2> QED BY <1>9, <2>2, <2>3 DEF Direct!Ordered, Direct!Beyond, Rises
<1> QED BY <1>8, <1>9 DEF Direct!FileWrite, Direct!Return, Direct!Failure

\* The other steps send nothing.
LEMMA OrderedStep ==
    ASSUME Direct!DirectInv, Direct!Ordered, Direct!Next
    PROVE  Direct!Ordered'
<1>0. Direct!Fetched
  BY DEF Direct!DirectInv
<1>1. Direct!NoHeader.status # "OK" /\ Direct!Header("FILE_NOT_FOUND", 0).status # "OK"
  BY DEF Direct!NoHeader, Direct!Header
<1>2. ASSUME UNCHANGED <<s1, s5, s6>>,
             s2 \notin {"send", "write", "return"},
             s2' \in {"start", "perform", "ok", "http error", "other error"} => s4' = Direct!NoHeader,
             s2' = "return" => s4'.status # "OK" \/ ~(s7' >= 0) \/ s7' = Len(s5')
      PROVE  Direct!Ordered'
  BY <1>2 DEF Direct!Ordered, Direct!StartOfBytes
<1>3. CASE Direct!CurlStart
  BY <1>1, <1>2, <1>3 DEF Direct!CurlStart, Direct!Return, Direct!Ordered
<1>4. CASE Direct!Writer \/ Direct!CurlEnds
  BY <1>0, <1>1, <1>2, <1>4 DEF Direct!Writer, Direct!CurlEnds, Direct!Ordered, Direct!Fetched
<1>5. CASE Direct!CurlAnswer
  BY <1>1, <1>2, <1>5 DEF Direct!CurlAnswer, Direct!Return, Direct!Ordered
<1>6. CASE Direct!FileOpen
  BY <1>1, <1>2, <1>6 DEF Direct!FileOpen, Direct!Return, Direct!Ordered, Direct!Failure
<1>7. CASE Direct!FileRead
  <2>1. s2 = "read" /\ UNCHANGED <<s1, s4, s5, s6>> /\ s1.kind = "file"
    BY <1>0, <1>7 DEF Direct!FileRead, Direct!Fetched
  <2>2. Len(s5) = s6.bytes
    BY <2>1 DEF Direct!Ordered
  <2>3. s2' = "write" \/ (s2' = "return" /\ s7' \in {-1, s6.bytes})
    BY <1>7 DEF Direct!FileRead, Direct!Return, Direct!Failure
  <2>4. /\ s2' \notin {"start", "perform", "ok", "http error", "other error"}
        /\ s2' = "return" => ~(s7' >= 0) \/ s7' = Len(s5')
    <3>1. ~(-1 >= 0)
      OBVIOUS
    <3> QED BY <2>1, <2>2, <2>3, <3>1
  <2>5. s2 \notin {"send", "write", "return"} /\ UNCHANGED <<s1, s5, s6>>
    BY <2>1
  <2> QED BY <1>2, <2>4, <2>5
<1> QED BY <1>3, <1>4, <1>5, <1>6, <1>7, CurlSendOrdered, FileWriteOrdered DEF Direct!Next

DirectsInv == program = "direct" => Direct!DirectInv /\ Direct!Ordered

\* At the start nothing is fetched and nothing sent.
LEMMA DirectInit == Direct!Init => Direct!DirectInv /\ Direct!Ordered
<1> SUFFICES ASSUME Direct!Init PROVE Direct!DirectInv /\ Direct!Ordered
  OBVIOUS
<1>1. PICK kind \in {"curl", "file"}, n \in Sizes : \E o \in Direct!Outcomes[kind] :
          s1 = [kind |-> kind, outcome |-> o, bytes |-> [i \in 1 .. n |-> i]]
  BY DEF Direct!Init
<1>2. PICK o \in Direct!Outcomes[kind] :
          s1 = [kind |-> kind, outcome |-> o, bytes |-> [i \in 1 .. n |-> i]]
  BY <1>1
<1>3. /\ s2 = "start" /\ s3 = << >> /\ s4 = Direct!NoHeader /\ s5 = << >>
      /\ s6 = [rounds |-> 0, bytes |-> 0]
  BY DEF Direct!Init
<1>4. o \in Direct!Outcomes["curl"] \cup Direct!Outcomes["file"]
  BY <1>1, <1>2
<1>5. s1 \in [kind : {"curl", "file"},
              outcome : Direct!Outcomes["curl"] \cup Direct!Outcomes["file"],
              bytes : {[i \in 1 .. k |-> i] : k \in Sizes}]
  <2>1. PICK p : p = [i \in 1 .. n |-> i]
    OBVIOUS
  <2>2. p \in {[i \in 1 .. k |-> i] : k \in Sizes}
    BY <1>1, <2>1
  <2>3. s1 = [kind |-> kind, outcome |-> o, bytes |-> p]
    BY <1>2, <2>1
  <2> QED BY <1>1, <1>4, <2>2, <2>3
<1>6. n \in Nat /\ s1.bytes = Numbers(n)
  BY <1>1, <1>2, DirectAssumption DEF Numbers
<1>7. Len(s1.bytes) \in Nat
  BY <1>6, NumbersAre
<1>8. Direct!StartOfBytes(s3) /\ Direct!StartOfBytes(s5)
  <2>1. << >> \in Seq(Int) /\ Len(<< >>) = 0
    OBVIOUS
  <2> QED BY <1>3, <1>7, <2>1 DEF Direct!StartOfBytes
<1>9. Direct!Fetched
  <2>1. s1.outcome \in Direct!Outcomes[s1.kind]
    BY <1>2
  <2>2. s6 \in [rounds : Nat, bytes : Nat]
    BY <1>3
  <2> QED BY <1>3, <1>5, <1>8, <2>1, <2>2 DEF Direct!Fetched
<1>10. Direct!Passed
  <2>1. Len(s5) = s6.bytes
    BY <1>3
  <2> QED BY <1>3, <1>8, <2>1 DEF Direct!Passed
<1>11. Direct!Ordered
  <2>1. s5 \in Seq(Int) /\ Len(s5) = 0 /\ s6.bytes = 0
    BY <1>3
  <2> QED BY <1>3, <1>8, <2>1 DEF Direct!Ordered
<1> QED BY <1>9, <1>10, <1>11 DEF Direct!DirectInv

LEMMA DirectsInvariant == Spec => []DirectsInv
<1>1. Init => DirectsInv
  BY DirectInit DEF Init, DirectsInv
<1>2. DirectsInv /\ [Next]_vars => DirectsInv'
  <2> SUFFICES ASSUME DirectsInv, [Next]_vars, program' = "direct"
      PROVE  Direct!DirectInv' /\ Direct!Ordered'
    BY DEF DirectsInv
  <2>1. CASE UNCHANGED vars
    <3>1. /\ Direct!DirectInv /\ Direct!Ordered
          /\ UNCHANGED <<s1, s2, s3, s4, s5, s6, s7, s8>>
      BY <2>1 DEF DirectsInv, vars
    <3>2. Direct!Fetched'
      BY <3>1 DEF Direct!DirectInv, Direct!Fetched, Direct!StartOfBytes
    <3>3. Direct!Passed => Direct!Passed'
      BY <3>1 DEF Direct!Passed, Direct!StartOfBytes
    <3>4. Direct!Ordered'
      BY <3>1 DEF Direct!Ordered, Direct!StartOfBytes
    <3> QED BY <3>1, <3>2, <3>3, <3>4 DEF Direct!DirectInv
  <2>2. CASE Next
    <3>1. Direct!DirectInv /\ Direct!Ordered /\ Direct!Next
      BY <2>2 DEF Next, DirectsInv
    <3>2. Direct!DirectInv'
      BY <3>1, CurlStartKeeps, WriterKeeps, CurlEndsKeeps, CurlAnswerKeeps,
         CurlSendKeeps, FileOpenKeeps, FileReadKeeps, FileWriteKeeps DEF Direct!Next
    <3> QED BY <3>1, <3>2, OrderedStep
  <2> QED BY <2>1, <2>2
<1> QED BY <1>1, <1>2, PTL DEF Spec

\* For pages and files of any size, any size of the buffer, and whatever the pieces
\* in which curl brings a page: a client that takes what it is sent gets the bytes in
\* their order from the first, and all that the header announced when the handler
\* returns their number; and also when sends fail no byte comes twice or after a later
\* one: handle_with_curl, handle_with_file.
THEOREM BodiesAreTruthful == Spec => []BodyTruthful
<1>1. DirectsInv => BodyTruthful
  <2> SUFFICES ASSUME Direct!DirectInv, Direct!Ordered, ~s8, Initialised
      PROVE /\ Len(s5) <= Len(s1.bytes) /\ s5 = SubSeq(s1.bytes, 1, Len(s5))
            /\ s2 = "return" /\ s4.status = "OK" /\ s7 >= 0 =>
                  s5 = s1.bytes /\ s4.length = Len(s5)
    BY DEF DirectsInv, BodyTruthful, Direct!BodyTruthful, Direct!Ordered, Initialised
  <2>1. Direct!Fetched /\ Direct!Passed
    BY DEF Direct!DirectInv, Initialised
  <2>2. PICK n \in Nat : /\ s1.bytes = Numbers(n) /\ Len(s1.bytes) = n
                         /\ \A x : Direct!StartOfBytes(x) <=> Begins(x, n)
    BY <2>1, PageIs
  <2>3. PICK y : y = s5
    OBVIOUS
  <2>4. Begins(y, n)
    BY <2>1, <2>2, <2>3 DEF Direct!Passed
  <2>5. y = SubSeq(Numbers(n), 1, Len(y)) /\ (Len(y) = n => y = Numbers(n))
    BY <2>4, BeginningIs
  <2>6. Len(y) <= n
    BY <2>4 DEF Begins
  <2>7. s2 = "return" /\ s4.status = "OK" /\ s7 >= 0 =>
           Len(y) = n /\ s4.length = n /\ s7 = n
    BY <2>1, <2>2, <2>3 DEF Direct!Passed
  <2> QED BY <2>2, <2>3, <2>5, <2>6, <2>7
<1> QED BY <1>1, DirectsInvariant, PTL
-----------------------------------------------------------------------------
(* The file transfer.  Its variables are here: s1 the text, s2 the          *)
(* server's position in it, s3 the server, s4 the client, s5 the stream, s6 *)
(* the client's buffer, s7 what it has saved, s8 whether no recv was short. *)

\* fgets takes at least a character, and no more than the buffer has room for.
LEMMA LineEndIs ==
    ASSUME NEW t \in Texts, s1 = t, NEW a \in Nat, s2 = a, a < Len(t)
    PROVE  Transfer!LineEnd \in a + 1 .. Len(t) /\ Transfer!LineEnd - a <= LineSize - 1
<1> DEFINE Ends == {n \in a + 1 .. Len(t) : \/ n = Len(t) \/ n = a + LineSize - 1
                                            \/ t[n] = EndOfLine}
           Good(n) == /\ n = Len(t) \/ n = a + LineSize - 1
                         \/ (n > a /\ t[n] = EndOfLine)
                      /\ \A i \in a + 1 .. n - 1 :
                            t[i] # EndOfLine /\ i < a + LineSize - 1
<1>1. LineSize \in Nat /\ LineSize > 1 /\ t \in Seq(Transfer!Characters)
  BY TextAssumption
<1>2. Len(t) \in Nat
  BY <1>1
<1>3. Ends \in SUBSET Nat /\ Len(t) \in Ends
  BY <1>2
<1>4. PICK n \in Ends : \A m \in Ends : n <= m
  <2> HIDE DEF Ends
  <2> QED BY <1>3, LeastElement
<1>5. n \in a .. Len(t) /\ Good(n)
  <2>1. n \in a + 1 .. Len(t)
    OBVIOUS
  <2>2. ASSUME NEW i \in a + 1 .. n - 1 PROVE t[i] # EndOfLine /\ i < a + LineSize - 1
    <3>1. i \in a + 1 .. Len(t) /\ i < n
      BY <1>2, <2>1
    <3>2. i \notin Ends
      BY <1>3, <1>4, <3>1
    <3>3. t[i] # EndOfLine /\ i # a + LineSize - 1
      BY <3>1, <3>2
    <3>4. i < a + LineSize - 1
      <4>1. CASE a + LineSize - 1 <= Len(t)
        <5>1. a + LineSize - 1 \in Ends
          BY <1>1, <1>2, <4>1
        <5>2. n <= a + LineSize - 1
          BY <1>4, <5>1
        <5> QED BY <1>1, <2>1, <3>1, <5>2
      <4>2. CASE ~(a + LineSize - 1 <= Len(t))
        BY <1>1, <1>2, <2>1, <3>1, <4>2
      <4> QED BY <4>1, <4>2
    <3> QED BY <3>3, <3>4
  <2>3. n = Len(t) \/ n = a + LineSize - 1 \/ (n > a /\ t[n] = EndOfLine)
    BY <2>1
  <2> QED BY <1>2, <2>1, <2>2, <2>3
<1>6. Transfer!LineEnd = CHOOSE m \in a .. Len(t) : Good(m)
  BY DEF Transfer!LineEnd
<1>7. PICK e : e = Transfer!LineEnd
  OBVIOUS
<1>8. e \in a .. Len(t) /\ Good(e)
  <2> HIDE DEF Good
  <2> QED BY <1>5, <1>6, <1>7
<1>9. e > a
  <2>1. e # a
    BY <1>1, <1>2, <1>8
  <2> QED BY <1>2, <1>8, <2>1
<1>10. e - a <= LineSize - 1
  <2> SUFFICES ASSUME ~(e - a <= LineSize - 1) PROVE FALSE
    OBVIOUS
  <2>1. PICK i : i = a + LineSize - 1
    OBVIOUS
  <2>2. i \in a + 1 .. e - 1
    BY <1>1, <1>2, <1>8, <2>1
  <2>3. i < a + LineSize - 1
    BY <1>8, <2>2
  <2> QED BY <1>1, <2>1, <2>3
<1> QED BY <1>2, <1>7, <1>8, <1>9, <1>10

\* The pieces in a stream x of a text t, from its position a to b.
PiecesOf(starts, cuts, x, a, b, t) ==
    /\ {0, Len(x)} \subseteq starts
    /\ cuts[0] = a /\ cuts[Len(x)] = b
    /\ \A p \in starts \ {Len(x)} :
          /\ p + LineSize \in starts
          /\ cuts[p + LineSize] - cuts[p] \in 1 .. LineSize - 1
          /\ \A j \in 1 .. LineSize :
                x[p + j] = IF j <= cuts[p + LineSize] - cuts[p]
                           THEN t[cuts[p] + j] ELSE Transfer!Zero

InPieces(x, a, b, t) ==
    \E starts \in SUBSET (0 .. Len(x)) :
        \E cuts \in [starts -> 0 .. Len(t)] : PiecesOf(starts, cuts, x, a, b, t)

\* One more buffer has the next piece.
LEMMA PiecesGrow ==
    ASSUME NEW S, NEW x \in Seq(S), NEW z \in Seq(S), NEW t, Len(t) \in Nat,
           NEW a, NEW b \in Nat, InPieces(x, a, b, t),
           NEW e \in b + 1 .. Len(t), e - b <= LineSize - 1,
           Len(z) = Len(x) + LineSize, \A i \in 1 .. Len(x) : z[i] = x[i],
           \A j \in 1 .. LineSize :
              z[Len(x) + j] = IF j <= e - b THEN t[b + j] ELSE Transfer!Zero
    PROVE  InPieces(z, a, e, t)
<1>0. PICK starts \in SUBSET (0 .. Len(x)) :
          \E cuts \in [starts -> 0 .. Len(t)] : PiecesOf(starts, cuts, x, a, b, t)
  BY DEF InPieces
<1>1. PICK cuts \in [starts -> 0 .. Len(t)] : PiecesOf(starts, cuts, x, a, b, t)
  BY <1>0
<1>2. PICK k, m : k = Len(x) /\ m = Len(z)
  OBVIOUS
<1>3. k \in Nat /\ m = k + LineSize /\ LineSize \in Nat /\ LineSize > 1 /\ m > k /\ m \in Nat
  BY <1>2, TextAssumption
<1>4. PICK more : more = starts \cup {m}
  OBVIOUS
<1>5. PICK ends : ends = [p \in more |-> IF p = m THEN e ELSE cuts[p]]
  OBVIOUS
<1>6. more \in SUBSET (0 .. m) /\ m \notin starts
  <2>1. \A p \in starts : p \in 0 .. k
    BY <1>2
  <2>2. \A p \in starts : p \in 0 .. m /\ p # m
    BY <1>3, <2>1
  <2>3. m \in 0 .. m
    BY <1>3
  <2> QED BY <1>4, <2>2, <2>3
<1>7. ends \in [more -> 0 .. Len(t)]
  <2>1. e \in 0 .. Len(t)
    OBVIOUS
  <2> QED BY <1>1, <1>4, <1>5, <2>1
<1>8. ends[m] = e /\ \A p \in starts : ends[p] = cuts[p]
  BY <1>4, <1>5, <1>6
<1>9. 0 \in starts /\ k \in starts /\ cuts[0] = a /\ cuts[k] = b
  BY <1>1, <1>2 DEF PiecesOf
<1>10. ASSUME NEW p \in more, p # m
       PROVE  /\ p + LineSize \in more
              /\ ends[p + LineSize] - ends[p] \in 1 .. LineSize - 1
              /\ \A j \in 1 .. LineSize :
                    z[p + j] = IF j <= ends[p + LineSize] - ends[p]
                               THEN t[ends[p] + j] ELSE Transfer!Zero
  <2>1. p \in starts /\ p \in 0 .. k
    BY <1>2, <1>4, <1>10
  <2>2. CASE p = k
    <3>1. p + LineSize = m /\ ends[p] = b
      BY <1>3, <1>8, <1>9, <2>2
    <3>2. ends[p + LineSize] - ends[p] = e - b
      BY <1>8, <3>1
    <3>3. e - b \in 1 .. LineSize - 1
      BY <1>3
    <3> QED BY <1>2, <1>4, <2>2, <3>1, <3>2, <3>3
  <2>3. CASE p # k
    <3>1. PICK q : q = p + LineSize
      OBVIOUS
    <3>2. /\ q \in starts /\ cuts[q] - cuts[p] \in 1 .. LineSize - 1
          /\ \A j \in 1 .. LineSize :
                x[p + j] = IF j <= cuts[q] - cuts[p] THEN t[cuts[p] + j] ELSE Transfer!Zero
      BY <1>1, <1>2, <2>1, <2>3, <3>1 DEF PiecesOf
    <3>3. q <= k
      BY <1>1, <1>2, <1>3, <3>2
    <3>4. ends[q] = cuts[q] /\ ends[p] = cuts[p]
      BY <1>8, <2>1, <3>2
    <3>5. \A j \in 1 .. LineSize : z[p + j] = x[p + j]
      <4> SUFFICES ASSUME NEW j \in 1 .. LineSize PROVE z[p + j] = x[p + j]
        OBVIOUS
      <4>1. p + j \in 1 .. k
        BY <1>3, <2>1, <3>1, <3>3
      <4> QED BY <1>2, <4>1
    <3>6. \A j \in 1 .. LineSize :
             z[p + j] = IF j <= ends[q] - ends[p] THEN t[ends[p] + j] ELSE Transfer!Zero
      BY <3>2, <3>4, <3>5
    <3> QED BY <1>4, <3>1, <3>2, <3>4, <3>6
  <2> QED BY <2>2, <2>3
<1>11. PiecesOf(more, ends, z, a, e, t)
  <2>1. {0, m} \subseteq more /\ ends[0] = a
    BY <1>4, <1>8, <1>9
  <2> QED BY <1>2, <1>8, <1>10, <2>1 DEF PiecesOf
<1> QED BY <1>2, <1>6, <1>7, <1>11 DEF InPieces

\* The first buffer is taken: it has the first piece.
FirstPiece(x, z, a, b, c, t) ==
    /\ a \in 0 .. Len(t) /\ c - a \in 1 .. LineSize - 1 /\ InPieces(z, c, b, t)
    /\ \A j \in 1 .. LineSize : x[j] = IF j <= c - a THEN t[a + j] ELSE Transfer!Zero

LEMMA PiecesShrink ==
    ASSUME NEW S, NEW x \in Seq(S), NEW z \in Seq(S), NEW t, Len(t) \in Nat,
           NEW a, NEW b, InPieces(x, a, b, t),
           LineSize <= Len(x), Len(z) = Len(x) - LineSize,
           \A i \in 1 .. Len(z) : z[i] = x[LineSize + i]
    PROVE  \E c \in 0 .. Len(t) : FirstPiece(x, z, a, b, c, t)
<1>0. PICK starts \in SUBSET (0 .. Len(x)) :
          \E cuts \in [starts -> 0 .. Len(t)] : PiecesOf(starts, cuts, x, a, b, t)
  BY DEF InPieces
<1>1. PICK cuts \in [starts -> 0 .. Len(t)] : PiecesOf(starts, cuts, x, a, b, t)
  BY <1>0
<1>2. PICK k, m : k = Len(x) /\ m = Len(z)
  OBVIOUS
<1>3. /\ k \in Nat /\ m = k - LineSize /\ LineSize \in Nat /\ LineSize > 1 /\ m < k /\ m \in Nat
      /\ k # 0
  BY <1>2, TextAssumption
<1>4. 0 \in starts /\ k \in starts /\ cuts[0] = a /\ cuts[k] = b
  BY <1>1, <1>2 DEF PiecesOf
<1>5. ASSUME NEW p \in starts, p # k
      PROVE  /\ p + LineSize \in starts
             /\ cuts[p + LineSize] - cuts[p] \in 1 .. LineSize - 1
             /\ \A j \in 1 .. LineSize :
                   x[p + j] = IF j <= cuts[p + LineSize] - cuts[p]
                              THEN t[cuts[p] + j] ELSE Transfer!Zero
  BY <1>1, <1>2, <1>5 DEF PiecesOf
<1>6. PICK c : c = cuts[LineSize]
  OBVIOUS
<1>7. 0 + LineSize = LineSize /\ \A j \in 1 .. LineSize : 0 + j = j
  BY <1>3
<1>8. /\ LineSize \in starts /\ c - a \in 1 .. LineSize - 1
      /\ \A j \in 1 .. LineSize : x[j] = IF j <= c - a THEN t[a + j] ELSE Transfer!Zero
  <2>1. /\ 0 + LineSize \in starts /\ cuts[0 + LineSize] - cuts[0] \in 1 .. LineSize - 1
        /\ \A j \in 1 .. LineSize :
              x[0 + j] = IF j <= cuts[0 + LineSize] - cuts[0]
                         THEN t[cuts[0] + j] ELSE Transfer!Zero
    BY <1>3, <1>4, <1>5
  <2> QED BY <1>4, <1>6, <1>7, <2>1
<1>9. a \in 0 .. Len(t) /\ c \in 0 .. Len(t)
  BY <1>1, <1>4, <1>6, <1>8
<1>10. PICK fewer : fewer = {q \in 0 .. m : q + LineSize \in starts}
  OBVIOUS
<1>11. PICK ends : ends = [q \in fewer |-> cuts[q + LineSize]]
  OBVIOUS
<1>12. fewer \in SUBSET (0 .. m) /\ ends \in [fewer -> 0 .. Len(t)]
  BY <1>1, <1>10, <1>11
<1>13. 0 \in fewer /\ m \in fewer /\ ends[0] = c /\ ends[m] = b
  <2>1. m + LineSize = k
    BY <1>3
  <2>2. 0 \in fewer /\ m \in fewer
    BY <1>3, <1>4, <1>7, <1>8, <1>10, <2>1
  <2> QED BY <1>4, <1>6, <1>7, <1>11, <2>1, <2>2
<1>14. ASSUME NEW q \in fewer, q # m
       PROVE  /\ q + LineSize \in fewer
              /\ ends[q + LineSize] - ends[q] \in 1 .. LineSize - 1
              /\ \A j \in 1 .. LineSize :
                    z[q + j] = IF j <= ends[q + LineSize] - ends[q]
                               THEN t[ends[q] + j] ELSE Transfer!Zero
  <2>1. PICK p, r : p = q + LineSize /\ r = p + LineSize
    OBVIOUS
  <2>2. q \in 0 .. m /\ p \in starts /\ p # k /\ p \in Nat
    BY <1>3, <1>10, <1>14, <2>1
  <2>3. /\ r \in starts /\ cuts[r] - cuts[p] \in 1 .. LineSize - 1
        /\ \A j \in 1 .. LineSize :
              x[p + j] = IF j <= cuts[r] - cuts[p] THEN t[cuts[p] + j] ELSE Transfer!Zero
    BY <1>5, <2>1, <2>2
  <2>4. r <= k /\ p \in 0 .. m
    <3>1. r \in 0 .. k
      BY <1>1, <1>2, <2>3
    <3> QED BY <1>3, <2>1, <2>2, <3>1
  <2>5. p \in fewer
    BY <1>10, <2>1, <2>3, <2>4
  <2>6. ends[p] = cuts[r] /\ ends[q] = cuts[p]
    BY <1>11, <2>1, <2>5
  <2>7. \A j \in 1 .. LineSize : z[q + j] = x[p + j]
    <3> SUFFICES ASSUME NEW j \in 1 .. LineSize PROVE z[q + j] = x[p + j]
      OBVIOUS
    <3>1. q + j \in 1 .. m /\ LineSize + (q + j) = p + j
      BY <1>3, <2>1, <2>2, <2>4
    <3>2. z[q + j] = x[LineSize + (q + j)]
      BY <1>2, <3>1
    <3> QED BY <3>1, <3>2
  <2>8. \A j \in 1 .. LineSize :
           z[q + j] = IF j <= ends[p] - ends[q] THEN t[ends[q] + j] ELSE Transfer!Zero
    BY <2>3, <2>6, <2>7
  <2> QED BY <2>1, <2>3, <2>5, <2>6, <2>8
<1>15. PiecesOf(fewer, ends, z, c, b, t)
  BY <1>2, <1>13, <1>14 DEF PiecesOf
<1> QED BY <1>2, <1>8, <1>9, <1>12, <1>15 DEF InPieces, FirstPiece

\* What the invariant says, with the names above.
LEMMA BufferedIs ==
    Transfer!Buffered <=> InPieces(s5, Len(s7), s2, s1)
BY DEF Transfer!Buffered, Transfer!Pieces, InPieces, PiecesOf

\* What comes next may be saved behind a beginning.
Begun(y, t) ==
    /\ y \in Seq(Transfer!Characters) /\ Len(y) <= Len(t)
    /\ \A i \in 1 .. Len(y) : y[i] = t[i]

Joined(x, p) == x \o p

LEMMA SavedGrows ==
    ASSUME NEW t \in Texts, NEW x, NEW p \in Seq(Transfer!Characters), Begun(x, t),
           Len(x) + Len(p) <= Len(t), \A i \in 1 .. Len(p) : p[i] = t[Len(x) + i],
           NEW q, q = Joined(x, p)
    PROVE  Begun(q, t) /\ Len(q) = Len(x) + Len(p)
<1>0. x \in Seq(Transfer!Characters) /\ \A i \in 1 .. Len(x) : x[i] = t[i]
  BY DEF Begun
<1>1. PICK c, a, b : c = x \o p /\ a = Len(x) /\ b = Len(p)
  OBVIOUS
<1>2. a \in Nat /\ b \in Nat
  BY <1>0, <1>1
<1>3. c \in Seq(Transfer!Characters) /\ Len(c) = a + b
  BY <1>0, <1>1
<1>4. \A i \in 1 .. a + b : c[i] = IF i <= a THEN x[i] ELSE p[i - a]
  BY <1>0, <1>1
<1>5. \A i \in 1 .. a + b : c[i] = t[i]
  <2> SUFFICES ASSUME NEW i \in 1 .. a + b PROVE c[i] = t[i]
    OBVIOUS
  <2>1. CASE i <= a
    <3>1. i \in 1 .. a
      BY <1>2, <2>1
    <3> QED BY <1>0, <1>1, <1>4, <2>1, <3>1
  <2>2. CASE ~(i <= a)
    <3>1. PICK j : j = i - a
      OBVIOUS
    <3>2. j \in 1 .. b /\ a + j = i
      BY <1>2, <2>2, <3>1
    <3>3. c[i] = p[j] /\ p[j] = t[a + j]
      BY <1>1, <1>4, <2>2, <3>1, <3>2
    <3> QED BY <3>2, <3>3
  <2> QED BY <2>1, <2>2
<1>6. c = q
  BY <1>1 DEF Joined
<1> QED BY <1>1, <1>3, <1>5, <1>6 DEF Begun

\* A piece in a buffer that is filled up with zeros.
Filled(x, p, k) == x \o p \o Transfer!Zeros(k)

IsFilled(z, x, p, k) ==
    /\ Len(z) = Len(x) + Len(p) + k /\ \A i \in 1 .. Len(x) : z[i] = x[i]
    /\ \A j \in 1 .. Len(p) + k :
          z[Len(x) + j] = IF j <= Len(p) THEN p[j] ELSE Transfer!Zero

\* Such a piece lies where it was put.
LEMMA BufferFilled ==
    ASSUME NEW S, NEW x \in Seq(S), NEW p \in Seq(S), NEW k \in Nat, Transfer!Zero \in S,
           NEW z, z = Filled(x, p, k)
    PROVE  z \in Seq(S) /\ IsFilled(z, x, p, k)
<1>1. PICK w, c, d, a, b : /\ w = Transfer!Zeros(k) /\ c = x \o p /\ d = c \o w
                           /\ a = Len(x) /\ b = Len(p)
  OBVIOUS
<1>2. a \in Nat /\ b \in Nat
  BY <1>1
<1>3. w = [i \in 1 .. k |-> Transfer!Zero]
  BY <1>1 DEF Transfer!Zeros
<1>4. w \in [1 .. k -> S]
  BY <1>3
<1>5. w \in Seq(S) /\ Len(w) = k
  BY <1>3, <1>4
<1>6. c \in Seq(S) /\ Len(c) = a + b
  BY <1>1
<1>7. \A i \in 1 .. a + b : c[i] = IF i <= a THEN x[i] ELSE p[i - a]
  BY <1>1
<1>8. d \in Seq(S) /\ Len(d) = a + b + k
  <2>1. d = c \o w
    BY <1>1
  <2>2. c \o w \in Seq(S) /\ Len(c \o w) = Len(c) + Len(w)
    BY <1>5, <1>6, Concatenation
  <2> QED BY <1>5, <1>6, <2>1, <2>2
<1>9. \A i \in 1 .. a + b + k : d[i] = IF i <= a + b THEN c[i] ELSE w[i - (a + b)]
  BY <1>1, <1>2, <1>5, <1>6
<1>10. \A i \in 1 .. a : d[i] = x[i]
  BY <1>2, <1>7, <1>9
<1>11. ASSUME NEW j \in 1 .. b + k
       PROVE  d[a + j] = IF j <= b THEN p[j] ELSE Transfer!Zero
  <2>1. a + j \in 1 .. a + b + k
    BY <1>2
  <2>2. CASE j <= b
    <3>1. a + j <= a + b /\ a + j \in 1 .. a + b /\ ~(a + j <= a) /\ (a + j) - a = j
      BY <1>2, <2>2
    <3> QED BY <1>7, <1>9, <2>1, <2>2, <3>1
  <2>3. CASE ~(j <= b)
    <3>1. PICK i : i = (a + j) - (a + b)
      OBVIOUS
    <3>2. ~(a + j <= a + b) /\ i \in 1 .. k
      BY <1>2, <2>3, <3>1
    <3>3. d[a + j] = w[i]
      BY <1>9, <2>1, <3>1, <3>2
    <3> QED BY <1>3, <2>3, <3>2, <3>3
  <2> QED BY <2>2, <2>3
<1>12. d = z
  BY <1>1 DEF Filled
<1> QED BY <1>1, <1>8, <1>10, <1>11, <1>12 DEF IsFilled

\* The string in a buffer of which the first k characters are none.
LEMMA StringIs ==
    ASSUME NEW b \in Seq(Transfer!Characters \cup {Transfer!Zero, Transfer!Unwritten}),
           NEW k \in Nat, k < Len(b), b[k + 1] = Transfer!Zero,
           \A i \in 1 .. k : b[i] \in Transfer!Characters
    PROVE  /\ Transfer!String(b) \in Seq(Transfer!Characters) /\ Len(Transfer!String(b)) = k
           /\ \A i \in 1 .. k : Transfer!String(b)[i] = b[i]
<1> DEFINE zeros == {i \in 1 .. Len(b) : b[i] = Transfer!Zero}
           First(i) == \A j \in zeros : i <= j
<1>1. Len(b) \in Nat
  OBVIOUS
<1>2. \A i \in 1 .. k : b[i] # Transfer!Zero
  BY TextAssumption
<1>3. k + 1 \in zeros
  BY <1>1
<1>4. \A j \in zeros : k + 1 <= j
  <2> SUFFICES ASSUME NEW j \in zeros PROVE k + 1 <= j
    OBVIOUS
  <2>1. j \in 1 .. Len(b) /\ j \notin 1 .. k
    BY <1>2
  <2> QED BY <1>1, <2>1
<1>5. PICK n : n = CHOOSE i \in zeros : First(i)
  OBVIOUS
<1>6. n \in zeros /\ First(n)
  <2>1. k + 1 \in zeros /\ First(k + 1)
    BY <1>3, <1>4
  <2> HIDE DEF zeros, First
  <2> QED BY <1>5, <2>1
<1>7. n = k + 1
  <2>1. n <= k + 1 /\ k + 1 <= n /\ n \in Nat
    BY <1>1, <1>3, <1>4, <1>6
  <2> QED BY <2>1
<1>8. zeros # {}
  BY <1>3
<1>9. Transfer!String(b) = SubSeq(b, 1, n - 1)
  BY <1>5, <1>8 DEF Transfer!String
<1>10. n - 1 = k
  BY <1>7
<1>11. PICK c : c = SubSeq(b, 1, k)
  OBVIOUS
<1>12. Len(c) = k /\ c \in Seq(Transfer!Characters \cup {Transfer!Zero, Transfer!Unwritten})
       /\ \A i \in 1 .. k : c[i] = b[i]
  BY <1>1, <1>11
<1>13. c \in Seq(Transfer!Characters)
  <2>1. \A i \in 1 .. k : c[i] \in Transfer!Characters
    BY <1>12
  <2>2. c \in [1 .. k -> Transfer!Characters]
    BY <1>12, <2>1
  <2> QED BY <2>2
<1> QED BY <1>9, <1>10, <1>11, <1>12, <1>13

\* The server sends a buffer with the next piece.
LEMMA SendContentsKeeps ==
    ASSUME Transfer!LinesInv, Transfer!SendContents
    PROVE  Transfer!LinesInv'
<1>1. /\ s3 = "send" /\ s2 < Len(s1) /\ UNCHANGED <<s1, s3, s4, s6, s7, s8>>
      /\ s2' = Transfer!LineEnd
      /\ s5' = s5 \o SubSeq(s1, s2 + 1, Transfer!LineEnd)
                  \o Transfer!Zeros(LineSize - (Transfer!LineEnd - s2))
  BY DEF Transfer!SendContents
<1>2. CASE ~s8
  BY <1>1, <1>2 DEF Transfer!LinesInv
<1>3. CASE s8
  <2>1. /\ s1 \in Texts /\ s5 \in Seq(Transfer!Characters \cup {Transfer!Zero})
        /\ Transfer!Beginning(s7) /\ Transfer!Buffered
    BY <1>3 DEF Transfer!LinesInv
  <2>2. PICK t, a, b, e, x, z : /\ t = s1 /\ a = Len(s7) /\ b = s2 /\ e = Transfer!LineEnd
                                /\ x = s5 /\ z = s5'
    OBVIOUS
  <2>3. t \in Texts /\ t \in Seq(Transfer!Characters) /\ Len(t) \in Nat
    BY <2>1, <2>2, TextAssumption
  <2>4. InPieces(x, a, b, t)
    BY <2>1, <2>2, BufferedIs
  <2>5. b \in Nat
    <3>1. PICK starts \in SUBSET (0 .. Len(x)) :
              \E cuts \in [starts -> 0 .. Len(t)] : PiecesOf(starts, cuts, x, a, b, t)
      BY <2>4 DEF InPieces
    <3>2. PICK cuts \in [starts -> 0 .. Len(t)] : PiecesOf(starts, cuts, x, a, b, t)
      BY <3>1
    <3>3. Len(x) \in starts /\ cuts[Len(x)] = b
      BY <3>2 DEF PiecesOf
    <3> QED BY <2>3, <3>2, <3>3
  <2>6. e \in b + 1 .. Len(t) /\ e - b <= LineSize - 1
    <3>1. b < Len(t)
      BY <1>1, <2>2
    <3> QED BY <2>2, <2>3, <2>5, <3>1, LineEndIs
  <2>7. PICK p, k : p = SubSeq(t, b + 1, e) /\ k = LineSize - (e - b)
    OBVIOUS
  <2>8. LineSize \in Nat
    BY TextAssumption
  <2>9. k \in Nat /\ e - b \in Nat /\ (e - b) + k = LineSize
    BY <2>3, <2>5, <2>6, <2>7, <2>8
  <2>10. /\ p \in Seq(Transfer!Characters) /\ Len(p) = e - b
         /\ \A j \in 1 .. e - b : p[j] = t[b + j]
    BY <2>3, <2>5, <2>6, <2>7
  <2>11. PICK S : S = Transfer!Characters \cup {Transfer!Zero}
    OBVIOUS
  <2>12. x \in Seq(S) /\ p \in Seq(S) /\ Transfer!Zero \in S
    <3>1. Transfer!Characters \subseteq S
      BY <2>11
    <3>2. p \in Seq(S)
      BY <2>10, <3>1, SequenceWidens
    <3> QED BY <2>1, <2>2, <2>11, <3>2
  <2>13. z = Filled(x, p, k)
    BY <1>1, <2>2, <2>7 DEF Filled
  <2>14. /\ z \in Seq(S) /\ Len(z) = Len(x) + Len(p) + k /\ \A i \in 1 .. Len(x) : z[i] = x[i]
         /\ \A j \in 1 .. Len(p) + k : z[Len(x) + j] = IF j <= Len(p) THEN p[j]
                                                       ELSE Transfer!Zero
    <3>1. k \in Nat /\ x \in Seq(S) /\ p \in Seq(S) /\ Transfer!Zero \in S
      BY <2>9, <2>12
    <3>2. z \in Seq(S) /\ IsFilled(z, x, p, k)
      BY <2>13, <3>1, BufferFilled
    <3> QED BY <3>2 DEF IsFilled
  <2>15. Len(z) = Len(x) + LineSize
    <3>1. Len(x) \in Nat
      BY <2>12
    <3> QED BY <2>9, <2>10, <2>14, <3>1
  <2>16. \A j \in 1 .. LineSize :
            z[Len(x) + j] = IF j <= e - b THEN t[b + j] ELSE Transfer!Zero
    <3> SUFFICES ASSUME NEW j \in 1 .. LineSize
        PROVE z[Len(x) + j] = IF j <= e - b THEN t[b + j] ELSE Transfer!Zero
      OBVIOUS
    <3>1. z[Len(x) + j] = IF j <= e - b THEN p[j] ELSE Transfer!Zero
      BY <2>9, <2>10, <2>14
    <3>2. j <= e - b => p[j] = t[b + j]
      BY <2>8, <2>9, <2>10
    <3> QED BY <3>1, <3>2
  <2>17. InPieces(z, a, e, t)
    BY <2>3, <2>4, <2>5, <2>6, <2>12, <2>14, <2>15, <2>16, PiecesGrow
  <2>18. Transfer!Buffered'
    <3>1. InPieces(s5, Len(s7), s2, s1)'
      BY <1>1, <2>2, <2>17
    <3> QED BY <3>1, BufferedIs, PTL
  <2>19. Transfer!Beginning(s7)'
    BY <1>1, <2>1 DEF Transfer!Beginning
  <2>20. s5' \in Seq(Transfer!Characters \cup {Transfer!Zero})
    BY <2>2, <2>11, <2>14
  <2> QED BY <1>1, <1>3, <2>18, <2>19, <2>20 DEF Transfer!LinesInv
<1> QED BY <1>2, <1>3

\* The bytes that the first buffer of the stream leaves in the client's.
Received(z, x, k) == Len(z) = k /\ \A i \in 1 .. k : z[i] = x[i]

LEMMA BufferReceived ==
    ASSUME NEW S, NEW R, S \subseteq R, NEW x \in Seq(S), NEW y \in Seq(R), NEW k \in Nat,
           k <= Len(x), k = Len(y), NEW z, z = Overlay(x, y, k)
    PROVE  z \in Seq(R) /\ Received(z, x, k)
<1>1. x \in Seq(R) /\ k <= Len(y)
  BY SequenceWidens
<1>2. /\ Overlay(x, y, k) \in Seq(R) /\ Len(Overlay(x, y, k)) = Len(y)
      /\ \A i \in 1 .. Len(y) : Overlay(x, y, k)[i] = IF i <= k THEN x[i] ELSE y[i]
  BY <1>1, FirstBytes
<1> QED BY <1>2 DEF Received

\* The client receives what one send was given, and saves the piece in it.
LEMMA ReceiveKeeps ==
    ASSUME Transfer!LinesInv, Transfer!Receive
    PROVE  Transfer!LinesInv'
<1>1. PICK n \in 1 .. LineSize :
          /\ n <= Len(s5)
          /\ s6' = SubSeq(s5, 1, n) \o SubSeq(s6, n + 1, LineSize)
          /\ s5' = SubSeq(s5, n + 1, Len(s5))
          /\ s8' = (s8 /\ n = LineSize)
  BY DEF Transfer!Receive
<1>2. s4 = "receive" /\ UNCHANGED <<s1, s2, s3, s4>> /\ s7' = s7 \o Transfer!String(s6')
  BY DEF Transfer!Receive
<1>3. CASE ~(s8 /\ n = LineSize)
  <2>1. ~s8'
    BY <1>1, <1>3
  <2> QED BY <1>2, <2>1 DEF Transfer!LinesInv
<1>4. CASE s8 /\ n = LineSize
  <2>1. /\ s1 \in Texts /\ s5 \in Seq(Transfer!Characters \cup {Transfer!Zero})
        /\ s6 \in Seq(Transfer!Characters \cup {Transfer!Zero, Transfer!Unwritten})
        /\ Len(s6) = LineSize /\ Transfer!Beginning(s7) /\ Transfer!Buffered
        /\ (s3 = "exit" => s2 = Len(s1))
    BY <1>2, <1>4 DEF Transfer!LinesInv
  <2>2. PICK t, a, b, x, z, u, y, w, S, R :
           /\ t = s1 /\ a = Len(s7) /\ b = s2 /\ x = s5 /\ z = s5' /\ u = s6 /\ w = s6' /\ y = s7
           /\ S = Transfer!Characters \cup {Transfer!Zero}
           /\ R = Transfer!Characters \cup {Transfer!Zero, Transfer!Unwritten}
    OBVIOUS
  <2>3. t \in Texts /\ t \in Seq(Transfer!Characters) /\ Len(t) \in Nat
    BY <2>1, <2>2, TextAssumption
  <2>4. InPieces(x, a, b, t)
    BY <2>1, <2>2, BufferedIs
  <2>5. LineSize \in Nat /\ LineSize > 1 /\ LineSize <= Len(x)
    BY <1>1, <1>4, <2>2, TextAssumption
  <2>6. x \in Seq(S) /\ u \in Seq(R) /\ S \subseteq R /\ Len(u) = LineSize
    BY <2>1, <2>2
  <2>7. z \in Seq(S) /\ Len(z) = Len(x) - LineSize
        /\ \A i \in 1 .. Len(z) : z[i] = x[LineSize + i]
    <3>1. z = SubSeq(x, LineSize + 1, Len(x))
      BY <1>1, <1>4, <2>2
    <3> QED BY <2>5, <2>6, <3>1
  <2>8. PICK c \in 0 .. Len(t) :
           /\ a \in 0 .. Len(t) /\ c - a \in 1 .. LineSize - 1 /\ InPieces(z, c, b, t)
           /\ \A j \in 1 .. LineSize :
                 x[j] = IF j <= c - a THEN t[a + j] ELSE Transfer!Zero
    <3>1. \E c \in 0 .. Len(t) : FirstPiece(x, z, a, b, c, t)
      BY <2>3, <2>4, <2>5, <2>6, <2>7, PiecesShrink
    <3> QED BY <3>1 DEF FirstPiece
  <2>9. w \in Seq(R) /\ Len(w) = LineSize /\ \A i \in 1 .. LineSize : w[i] = x[i]
    <3>1. w = Overlay(x, u, LineSize)
      BY <1>1, <1>4, <2>2, <2>6 DEF Overlay
    <3>2. LineSize = Len(u)
      BY <2>6
    <3>3. w \in Seq(R) /\ Received(w, x, LineSize)
      BY <2>5, <2>6, <3>1, <3>2, BufferReceived
    <3> QED BY <3>3 DEF Received
  <2>10. PICK k, p : k = c - a /\ p = Transfer!String(w)
    OBVIOUS
  <2>11. k \in Nat /\ k < LineSize /\ a + k = c /\ k + 1 \in 1 .. LineSize /\ ~(k + 1 <= k)
    BY <2>3, <2>5, <2>8, <2>10
  <2>12. /\ p \in Seq(Transfer!Characters) /\ Len(p) = k /\ \A i \in 1 .. k : p[i] = t[a + i]
    <3>1. w[k + 1] = Transfer!Zero
      BY <2>8, <2>9, <2>10, <2>11
    <3>2. \A i \in 1 .. k : i \in 1 .. LineSize /\ i <= k /\ a + i \in 1 .. Len(t)
      BY <2>3, <2>5, <2>8, <2>11
    <3>3. \A i \in 1 .. k : w[i] = t[a + i] /\ t[a + i] \in Transfer!Characters
      BY <2>3, <2>8, <2>9, <2>10, <3>2, ElementIn
    <3>4. /\ w \in Seq(Transfer!Characters \cup {Transfer!Zero, Transfer!Unwritten})
          /\ k < Len(w) /\ \A i \in 1 .. k : w[i] \in Transfer!Characters
      BY <2>2, <2>9, <2>11, <3>3
    <3>5. /\ Transfer!String(w) \in Seq(Transfer!Characters) /\ Len(Transfer!String(w)) = k
          /\ \A i \in 1 .. k : Transfer!String(w)[i] = w[i]
      BY <2>11, <3>1, <3>4, StringIs
    <3> QED BY <2>10, <3>3, <3>5
  <2>13. /\ y \in Seq(Transfer!Characters) /\ Len(y) = a /\ \A i \in 1 .. a : y[i] = t[i]
    BY <2>1, <2>2 DEF Transfer!Beginning
  <2>14. PICK q : q = Joined(y, p)
    OBVIOUS
  <2>15. q \in Seq(Transfer!Characters) /\ Len(q) = c /\ \A i \in 1 .. c : q[i] = t[i]
    <3>1. Len(y) + Len(p) <= Len(t) /\ Len(y) + Len(p) = c
      BY <2>3, <2>8, <2>11, <2>12, <2>13
    <3>2. \A i \in 1 .. Len(p) : p[i] = t[Len(y) + i]
      BY <2>12, <2>13
    <3>3. Begun(y, t)
      BY <2>3, <2>8, <2>13 DEF Begun
    <3>4. Begun(q, t) /\ Len(q) = Len(y) + Len(p)
      <4>1. t \in Texts /\ p \in Seq(Transfer!Characters)
        BY <2>3, <2>12
      <4> QED BY <2>14, <3>1, <3>2, <3>3, <4>1, SavedGrows
    <3> QED BY <3>1, <3>4 DEF Begun
  <2>16. s7' = q
    BY <1>2, <2>2, <2>10, <2>14 DEF Joined
  <2>17. Transfer!Beginning(s7)'
    BY <1>2, <2>2, <2>15, <2>16 DEF Transfer!Beginning
  <2>18. Transfer!Buffered'
    <3>1. InPieces(s5, Len(s7), s2, s1)'
      BY <1>2, <2>2, <2>8, <2>15, <2>16
    <3> QED BY <3>1, BufferedIs, PTL
  <2>19. s5' \in Seq(S) /\ s6' \in Seq(R) /\ Len(s6') = LineSize
    BY <2>2, <2>7, <2>9
  <2>20. s1' \in Texts /\ (s3' = "exit" => s2' = Len(s1'))
    BY <1>2, <2>1
  <2> QED BY <1>2, <2>2, <2>17, <2>18, <2>19, <2>20 DEF Transfer!LinesInv
<1> QED BY <1>3, <1>4

\* What leaves the text, the stream and what was saved alone.
LEMMA SameLines ==
    ASSUME UNCHANGED <<s1, s2, s5, s7>>
    PROVE  /\ Transfer!Beginning(s7)' <=> Transfer!Beginning(s7)
           /\ Transfer!Buffered' <=> Transfer!Buffered
<1>1. Transfer!Beginning(s7)' <=> Transfer!Beginning(s7)
  BY DEF Transfer!Beginning
<1>2. InPieces(s5, Len(s7), s2, s1)' <=> InPieces(s5, Len(s7), s2, s1)
  BY DEF InPieces, PiecesOf
<1>3. (Transfer!Buffered <=> InPieces(s5, Len(s7), s2, s1))'
  BY BufferedIs, PTL
<1> QED BY <1>1, <1>2, <1>3, BufferedIs

\* At the end of the stream all of the text is saved.
LEMMA ReceiveEndKeeps ==
    ASSUME Transfer!LinesInv, Transfer!ReceiveEnd
    PROVE  Transfer!LinesInv'
<1>1. s4 = "receive" /\ s4' = "exit" /\ UNCHANGED <<s1, s2, s3, s5, s6, s7>>
      /\ ((s3 \in {"exit", "dead"} /\ s5 = << >> /\ s8' = s8) \/ s8' = FALSE)
  BY DEF Transfer!ReceiveEnd
<1>2. CASE ~s8'
  BY <1>1, <1>2 DEF Transfer!LinesInv
<1>3. CASE s8' /\ s3 = "dead"
  BY <1>1, <1>3, SameLines DEF Transfer!LinesInv
<1>4. CASE s8' /\ s3 # "dead"
  <2>1. s8 /\ s3 = "exit" /\ s5 = << >>
    BY <1>1, <1>4
  <2>2. s1 \in Texts /\ Transfer!Beginning(s7) /\ Transfer!Buffered /\ s2 = Len(s1)
    BY <1>1, <2>1 DEF Transfer!LinesInv
  <2>3. PICK t, y, x : t = s1 /\ y = s7 /\ x = s5
    OBVIOUS
  <2>4. InPieces(x, Len(y), Len(t), t) /\ x = << >>
    BY <2>1, <2>2, <2>3, BufferedIs
  <2>5. Len(y) = Len(t)
    <3>1. PICK starts \in SUBSET (0 .. Len(x)) :
              \E cuts \in [starts -> 0 .. Len(t)] :
                  PiecesOf(starts, cuts, x, Len(y), Len(t), t)
      BY <2>4 DEF InPieces
    <3>2. PICK cuts \in [starts -> 0 .. Len(t)] :
              PiecesOf(starts, cuts, x, Len(y), Len(t), t)
      BY <3>1
    <3>3. Len(x) = 0
      BY <2>4
    <3> QED BY <3>2, <3>3 DEF PiecesOf
  <2>6. y = t
    <3>1. t \in Seq(Transfer!Characters)
      BY <2>2, <2>3, TextAssumption
    <3>2. y \in Seq(Transfer!Characters) /\ \A i \in 1 .. Len(y) : y[i] = t[i]
      BY <2>2, <2>3 DEF Transfer!Beginning
    <3> QED BY <2>5, <3>1, <3>2
  <2>7. Transfer!Beginning(s7)'
    BY <1>1, <2>2 DEF Transfer!Beginning
  <2>8. Transfer!Buffered'
    <3>1. InPieces(s5, Len(s7), s2, s1)'
      BY <1>1, <2>2, BufferedIs
    <3> QED BY <3>1, BufferedIs, PTL
  <2>9. s7' = s1'
    BY <1>1, <2>3, <2>6
  <2> QED BY <1>1, <2>1, <2>7, <2>8, <2>9 DEF Transfer!LinesInv
<1> QED BY <1>2, <1>3, <1>4

LEMMA LinesStep ==
    ASSUME Transfer!LinesInv, Transfer!Next
    PROVE  Transfer!LinesInv'
<1>1. CASE Transfer!Listen
  <2>1. s3 = "listen" /\ s3' \in {"accept", "exit"} /\ UNCHANGED <<s1, s2, s4, s5, s6, s7, s8>>
    BY <1>1 DEF Transfer!Listen
  <2>2. s4 # "receive"
    BY <2>1 DEF Transfer!LinesInv
  <2> QED BY <2>1, <2>2, SameLines DEF Transfer!LinesInv
<1>2. CASE Transfer!Connect
  <2>1. /\ s4 = "connect" /\ UNCHANGED <<s1, s2, s5, s6, s7, s8>>
        /\ \/ s3' \in {"send", "dead"} /\ s4' = "receive"
           \/ s3' = s3 /\ s4' = "failed"
    BY <1>2 DEF Transfer!Connect
  <2> QED BY <2>1, SameLines DEF Transfer!LinesInv
<1>3. CASE Transfer!ServerExit
  <2>1. /\ s3 = "send" /\ s3' = "exit" /\ UNCHANGED <<s1, s2, s4, s5, s6, s7, s8>>
        /\ s2 = Len(s1) \/ s4 = "exit"
    BY <1>3 DEF Transfer!ServerExit
  <2> QED BY <2>1, SameLines DEF Transfer!LinesInv
<1> QED BY <1>1, <1>2, <1>3, SendContentsKeeps, ReceiveKeeps, ReceiveEndKeeps DEF Transfer!Next

\* At the start there is nothing in the stream.
LEMMA LinesInit == Transfer!Init => Transfer!LinesInv
<1> SUFFICES ASSUME Transfer!Init PROVE Transfer!LinesInv
  OBVIOUS
<1>1. /\ s1 \in Texts /\ s2 = 0 /\ s3 = "listen" /\ s4 = "connect" /\ s5 = << >>
      /\ s6 = [i \in 1 .. LineSize |-> Transfer!Unwritten] /\ s7 = << >>
  BY DEF Transfer!Init
<1>2. Len(s1) \in Nat /\ LineSize \in Nat
  BY <1>1, TextAssumption
<1>3. Transfer!Beginning(s7)
  BY <1>1, <1>2 DEF Transfer!Beginning
<1>4. Transfer!Buffered
  <2>1. PICK x, t : x = s5 /\ t = s1
    OBVIOUS
  <2>2. Len(x) = 0 /\ Len(s7) = 0 /\ s2 = 0
    BY <1>1, <2>1
  <2>3. PICK starts, cuts : starts = {0} /\ cuts = [p \in starts |-> 0]
    OBVIOUS
  <2>4. starts \in SUBSET (0 .. Len(x)) /\ cuts \in [starts -> 0 .. Len(t)]
    BY <1>2, <2>1, <2>2, <2>3
  <2>5. PiecesOf(starts, cuts, x, Len(s7), s2, t)
    BY <2>2, <2>3 DEF PiecesOf
  <2>6. InPieces(x, Len(s7), s2, t)
    BY <2>4, <2>5 DEF InPieces
  <2> QED BY <2>1, <2>6, BufferedIs
<1>5. s5 \in Seq(Transfer!Characters \cup {Transfer!Zero})
  BY <1>1
<1>6. /\ s6 \in Seq(Transfer!Characters \cup {Transfer!Zero, Transfer!Unwritten})
      /\ Len(s6) = LineSize
  <2>1. PICK R : R = Transfer!Characters \cup {Transfer!Zero, Transfer!Unwritten}
    OBVIOUS
  <2>2. PICK u : u = s6
    OBVIOUS
  <2>3. u = [i \in 1 .. LineSize |-> Transfer!Unwritten] /\ Transfer!Unwritten \in R
    BY <1>1, <2>1, <2>2
  <2>4. u \in [1 .. LineSize -> R]
    BY <2>3
  <2>5. u \in Seq(R) /\ Len(u) = LineSize
    BY <1>2, <2>3, <2>4
  <2> QED BY <2>1, <2>2, <2>5
<1> QED BY <1>1, <1>3, <1>4, <1>5, <1>6 DEF Transfer!LinesInv

TransferLines == program = "transfer" => Transfer!LinesInv

LEMMA TransferLinesInvariant == Spec => []TransferLines
<1>1. Init => TransferLines
  BY LinesInit DEF Init, TransferLines
<1>2. TransferLines /\ [Next]_vars => TransferLines'
  <2> SUFFICES ASSUME TransferLines, [Next]_vars, program' = "transfer"
      PROVE  Transfer!LinesInv'
    BY DEF TransferLines
  <2>1. CASE UNCHANGED vars
    <3>1. Transfer!LinesInv /\ UNCHANGED <<s1, s2, s3, s4, s5, s6, s7, s8>>
      BY <2>1 DEF TransferLines, vars
    <3> QED BY <3>1, SameLines DEF Transfer!LinesInv
  <2>2. CASE Next
    <3>1. Transfer!LinesInv /\ Transfer!Next
      BY <2>2 DEF Next, TransferLines
    <3> QED BY <3>1, LinesStep
  <2> QED BY <2>1, <2>2
<1> QED BY <1>1, <1>2, PTL DEF Spec

\* For any text without a zero, lines of any length and any size of the buffer: as
\* long as every recv returns what one send was given, what the client has saved
\* begins the server's file, and is all of it when the client ends: transferserver
\* and transferclient.
THEOREM SavedIsWhole == Spec => []SavedWhole
<1>1. TransferLines => SavedWhole
  <2> SUFFICES ASSUME Transfer!LinesInv, s8
      PROVE /\ Len(s7) <= Len(s1) /\ s7 = SubSeq(s1, 1, Len(s7))
            /\ s4 = "exit" /\ s3 # "dead" => s7 = s1
    BY DEF TransferLines, SavedWhole, Transfer!SavedWhole
  <2>1. s1 \in Texts /\ Transfer!Beginning(s7) /\ (s4 = "exit" /\ s3 # "dead" => s7 = s1)
    BY DEF Transfer!LinesInv
  <2>2. PICK y, t, k : y = s7 /\ t = s1 /\ k = Len(y)
    OBVIOUS
  <2>3. t \in Seq(Transfer!Characters)
    BY <2>1, <2>2, TextAssumption
  <2>4. y \in Seq(Transfer!Characters) /\ k \in Nat /\ k <= Len(t) /\ \A i \in 1 .. k : y[i] = t[i]
    BY <2>1, <2>2 DEF Transfer!Beginning
  <2>5. PICK c : c = SubSeq(t, 1, k)
    OBVIOUS
  <2>6. c \in Seq(Transfer!Characters) /\ Len(c) = k /\ \A i \in 1 .. k : c[i] = t[i]
    BY <2>3, <2>4, <2>5
  <2>7. c = y
    BY <2>2, <2>4, <2>6
  <2> QED BY <2>1, <2>2, <2>4, <2>5, <2>7
<1> QED BY <1>1, TransferLinesInvariant, PTL
-----------------------------------------------------------------------------
(* The getfile server.  Its variables are here: s3 the label, s4 the        *)
(* request, s5 what of it has not come, s6 the header so far, s7 the answer.*)

\* The parts of a request as the protocol has it.
LEMMA RequestForm ==
    ASSUME NEW r \in Seq(Getfile!Parts), NEW n \in 6 .. Len(r),
           Getfile!Wellformed(r, SubSeq(r, 6, n))
    PROVE  /\ Len(r) = n + 2
           /\ r[1] = Getfile!GetFile /\ r[2] = Getfile!Space /\ r[3] = Getfile!Get
           /\ r[4] = Getfile!Space /\ r[5] = Getfile!Slash
           /\ \A i \in 6 .. n : ~Getfile!IsSpace(r[i])
           /\ r[n + 1] = Getfile!Crlf /\ r[n + 2] = Getfile!Crlf
<1> DEFINE start == <<Getfile!GetFile, Getfile!Space, Getfile!Get, Getfile!Space, Getfile!Slash>>
           tail  == <<Getfile!Crlf, Getfile!Crlf>>
<1>1. Len(r) \in Nat /\ n \in Nat /\ n <= Len(r) /\ 6 <= n
  OBVIOUS
<1>2. PICK path, k : path = SubSeq(r, 6, n) /\ k = Len(path)
  OBVIOUS
<1>3. /\ \A i \in 1 .. k : ~Getfile!IsSpace(path[i])
      /\ r = start \o path \o tail
  BY <1>2 DEF Getfile!Wellformed
<1>4. path \in Seq(Getfile!Parts) /\ k = n - 5 /\ \A i \in 1 .. k : path[i] = r[i + 5]
  BY <1>1, <1>2
<1>5. PICK S : S = Getfile!Parts \cup {Getfile!GetFile, Getfile!Get, Getfile!Slash,
                                       Getfile!Space, Getfile!Crlf}
  OBVIOUS
<1>6. path \in Seq(S) /\ start \in Seq(S) /\ tail \in Seq(S) /\ Len(start) = 5 /\ Len(tail) = 2
  <2>1. path \in Seq(S)
    <3>1. Getfile!Parts \subseteq S
      BY <1>5
    <3> QED BY <1>4, <3>1, SequenceWidens
  <2>2. start \in Seq(S) /\ Len(start) = 5
    BY <1>5
  <2>3. tail \in Seq(S) /\ Len(tail) = 2
    BY <1>5
  <2> QED BY <2>1, <2>2, <2>3
<1>7. PICK b, t, h : b = start /\ t = tail /\ h = b \o path
  OBVIOUS
<1>8. /\ b[1] = Getfile!GetFile /\ b[2] = Getfile!Space /\ b[3] = Getfile!Get
      /\ b[4] = Getfile!Space /\ b[5] = Getfile!Slash
      /\ t[1] = Getfile!Crlf /\ t[2] = Getfile!Crlf
  BY <1>7
<1>9. b \in Seq(S) /\ Len(b) = 5 /\ t \in Seq(S) /\ Len(t) = 2 /\ r = h \o t
  BY <1>3, <1>6, <1>7
<1> HIDE DEF start, tail
<1>10. h \in Seq(S) /\ Len(h) = n /\ \A i \in 1 .. 5 : h[i] = b[i]
  <2>1. /\ h \in Seq(S) /\ Len(h) = 5 + k
        /\ \A i \in 1 .. 5 + k : h[i] = IF i <= 5 THEN b[i] ELSE path[i - 5]
    <3>1. path \in Seq(S) /\ Len(path) = k
      BY <1>2, <1>6
    <3>2. h = b \o path /\ b \in Seq(S) /\ Len(b) = 5
      BY <1>7, <1>9
    <3>3. /\ b \o path \in Seq(S) /\ Len(b \o path) = Len(b) + Len(path)
          /\ \A i \in 1 .. Len(b) + Len(path) :
                (b \o path)[i] = IF i <= Len(b) THEN b[i] ELSE path[i - Len(b)]
      BY <3>1, <3>2, Concatenation
    <3> QED BY <3>1, <3>2, <3>3, Zenon
  <2> QED BY <1>1, <1>4, <2>1
<1>11. Len(r) = n + 2 /\ \A i \in 1 .. n + 2 : r[i] = IF i <= n THEN h[i] ELSE t[i - n]
  <2>1. h \in Seq(S) /\ Len(h) = n /\ t \in Seq(S) /\ Len(t) = 2 /\ r = h \o t
    BY <1>9, <1>10
  <2>2. /\ Len(h \o t) = Len(h) + Len(t)
        /\ \A i \in 1 .. Len(h) + Len(t) :
              (h \o t)[i] = IF i <= Len(h) THEN h[i] ELSE t[i - Len(h)]
    BY <2>1, Concatenation
  <2> QED BY <2>1, <2>2, Zenon
<1>12. \A i \in 1 .. 5 : r[i] = b[i]
  BY <1>1, <1>10, <1>11
<1>13. r[n + 1] = t[1] /\ r[n + 2] = t[2]
  <2>1. PICK i, j : i = n + 1 /\ j = n + 2
    OBVIOUS
  <2>2. /\ i \in 1 .. n + 2 /\ j \in 1 .. n + 2 /\ ~(i <= n) /\ ~(j <= n)
        /\ i - n = 1 /\ j - n = 2
    BY <1>1, <2>1
  <2> QED BY <1>11, <2>1, <2>2
<1>14. ASSUME NEW i \in 6 .. n PROVE ~Getfile!IsSpace(r[i])
  <2>1. PICK j : j = i - 5
    OBVIOUS
  <2>2. j \in 1 .. k /\ j + 5 = i
    BY <1>1, <1>4, <2>1
  <2> QED BY <1>3, <1>4, <2>2
<1> QED BY <1>8, <1>11, <1>12, <1>13, <1>14

\* sscanf finds the path of such a request, and only in one way.
LEMMA ScannedIs ==
    ASSUME NEW h \in Seq(Getfile!Parts), NEW n \in Nat, n >= 6, Len(h) = n + 2,
           h[1] = Getfile!GetFile, h[2] = Getfile!Space, h[3] = Getfile!Get,
           h[4] = Getfile!Space, h[5] = Getfile!Slash,
           \A i \in 6 .. n : ~Getfile!IsSpace(h[i]),
           h[n + 1] = Getfile!Crlf, h[n + 2] = Getfile!Crlf
    PROVE  Getfile!Scanned(h) = {SubSeq(h, 6, n)}
<1> DEFINE at == 2 .. Len(h)
<1>1. /\ Getfile!IsSpace(h[2]) /\ Getfile!IsSpace(h[4]) /\ Getfile!IsSpace(h[n + 1])
      /\ ~Getfile!IsSpace(h[3]) /\ ~Getfile!IsSpace(h[5])
      /\ h[2] # Getfile!Get /\ h[4] # Getfile!Slash
  BY DEF Getfile!IsSpace, Getfile!Space, Getfile!Crlf, Getfile!Get, Getfile!Slash
<1>2. Getfile!Found(h, 6, n)
  <2>1. 3 \in at /\ 5 \in at /\ 3 < 5 /\ 5 < 6 /\ 6 <= n
    OBVIOUS
  <2>2. \A i \in 2 .. 6 - 1 : i \in {3, 5} \/ Getfile!IsSpace(h[i])
    <3>1. \A i \in 2 .. 6 - 1 : i \in {2, 3, 4, 5}
      OBVIOUS
    <3> QED BY <1>1, <3>1
  <2>3. Getfile!Scans(h, 3, 5, 6, n)
    BY <1>1, <2>1, <2>2 DEF Getfile!Scans
  <2> QED BY <2>1, <2>3 DEF Getfile!Found
<1>3. ASSUME NEW a \in at, NEW b \in at, Getfile!Found(h, a, b) PROVE a = 6 /\ b = n
  <2>1. PICK get \in at, slash \in at : Getfile!Scans(h, get, slash, a, b)
    BY <1>3 DEF Getfile!Found
  <2>2. /\ get < slash /\ slash < a /\ a <= b /\ h[get] = Getfile!Get /\ h[slash] = Getfile!Slash
        /\ \A i \in 2 .. a - 1 : i \in {get, slash} \/ Getfile!IsSpace(h[i])
        /\ \A i \in a .. b : ~Getfile!IsSpace(h[i])
        /\ b < Len(h) => Getfile!IsSpace(h[b + 1])
    BY <2>1 DEF Getfile!Scans
  <2>3. get \in Nat /\ slash \in Nat /\ a \in Nat /\ b \in Nat /\ 2 <= get /\ b <= n + 2
    OBVIOUS
  <2>4. get = 3
    <3>1. 3 \in 2 .. a - 1
      BY <2>2, <2>3
    <3>2. get # 2
      BY <1>1, <2>2
    <3>3. 3 \in {get, slash}
      BY <1>1, <2>2, <3>1
    <3> QED BY <2>2, <2>3, <3>2, <3>3
  <2>5. slash = 5
    <3>1. slash # 4
      BY <1>1, <2>2
    <3>2. 5 \in 2 .. a - 1
      BY <2>2, <2>3, <2>4, <3>1
    <3>3. 5 \in {get, slash}
      BY <1>1, <2>2, <3>2
    <3> QED BY <2>4, <3>3
  <2>6. a = 6
    <3>1. CASE a > 6
      <4>1. 6 \in 2 .. a - 1 /\ 6 \notin {get, slash} /\ 6 \in 6 .. n
        BY <2>3, <2>4, <2>5, <3>1
      <4> QED BY <2>2, <4>1
    <3> QED BY <2>2, <2>3, <2>5, <3>1
  <2>7. b <= n
    <3>1. CASE b > n
      <4>1. n + 1 \in a .. b
        BY <2>3, <2>6, <3>1
      <4> QED BY <1>1, <2>2, <4>1
    <3> QED BY <2>3, <3>1
  <2>8. b >= n
    <3>1. CASE b < n
      <4>1. b + 1 \in 6 .. n /\ b < Len(h)
        BY <2>2, <2>3, <2>6, <3>1
      <4> QED BY <2>2, <4>1
    <3> QED BY <2>3, <3>1
  <2> QED BY <2>3, <2>6, <2>7, <2>8
<1>4. 6 \in at /\ n \in at
  OBVIOUS
<1>5. Getfile!Scanned(h) = {SubSeq(h, w[1], w[2]) :
                               w \in {w \in at \X at : Getfile!Found(h, w[1], w[2])}}
  BY DEF Getfile!Scanned
<1> HIDE DEF at
<1>6. {w \in at \X at : Getfile!Found(h, w[1], w[2])} = {<<6, n>>}
  <2>1. ASSUME NEW w \in at \X at, Getfile!Found(h, w[1], w[2]) PROVE w = <<6, n>>
    <3>1. PICK a \in at, b \in at : w = <<a, b>>
      OBVIOUS
    <3>2. Getfile!Found(h, a, b)
      BY <2>1, <3>1
    <3> QED BY <1>3, <3>1, <3>2
  <2>2. <<6, n>> \in at \X at /\ Getfile!Found(h, <<6, n>>[1], <<6, n>>[2])
    BY <1>2, <1>4
  <2> QED BY <2>1, <2>2
<1>7. <<6, n>>[1] = 6 /\ <<6, n>>[2] = n
  OBVIOUS
<1>8. {SubSeq(h, w[1], w[2]) : w \in {<<6, n>>}} = {SubSeq(h, <<6, n>>[1], <<6, n>>[2])}
  OBVIOUS
<1> QED BY <1>5, <1>6, <1>7, <1>8

\* What sscanf finds in the beginning of a request that has come, the request asks for.
LEMMA ScannedAsks ==
    ASSUME NEW h \in Seq(Getfile!Parts), NEW r \in Seq(Getfile!Parts),
           Len(h) <= Len(r), \A i \in 1 .. Len(h) : h[i] = r[i],
           NEW word \in Getfile!Scanned(h)
    PROVE  word \in Seq(Getfile!Parts) /\ Getfile!Asks(r, word)
<1> DEFINE at == 2 .. Len(h)
<1>1. PICK w \in at \X at : Getfile!Found(h, w[1], w[2]) /\ word = SubSeq(h, w[1], w[2])
  BY DEF Getfile!Scanned
<1>2. PICK a \in at, b \in at : w = <<a, b>>
  BY <1>1
<1>3. Getfile!Found(h, a, b) /\ word = SubSeq(h, a, b)
  BY <1>1, <1>2
<1>4. PICK get \in at, slash \in at : Getfile!Scans(h, get, slash, a, b)
  BY <1>3 DEF Getfile!Found
<1>5. /\ get < slash /\ slash < a /\ a <= b
      /\ h[1] = Getfile!GetFile /\ h[get] = Getfile!Get /\ h[slash] = Getfile!Slash
      /\ \A i \in 2 .. a - 1 : i \in {get, slash} \/ Getfile!IsSpace(h[i])
      /\ \A i \in a .. b : ~Getfile!IsSpace(h[i])
  BY <1>4 DEF Getfile!Scans
<1>6. Len(h) \in Nat /\ Len(r) \in Nat /\ \A i \in at : i \in 2 .. Len(r) /\ i \in 1 .. Len(h)
  OBVIOUS
<1>7. /\ word \in Seq(Getfile!Parts) /\ Len(word) = b - a + 1 /\ word # << >>
      /\ \A i \in 1 .. b - a + 1 : word[i] = h[a + i - 1]
  <2>1. word \in Seq(Getfile!Parts) /\ Len(word) = b - a + 1
        /\ \A i \in 1 .. b - a + 1 : word[i] = h[a + i - 1]
    BY <1>3, <1>5, <1>6
  <2> QED BY <1>5, <2>1
<1>8. ASSUME NEW i \in 1 .. Len(word)
      PROVE  ~Getfile!IsSpace(word[i]) /\ a + i - 1 <= Len(r) /\ word[i] = r[a + i - 1]
  <2>1. PICK j : j = a + i - 1
    OBVIOUS
  <2>2. j \in a .. b /\ j \in 1 .. Len(h) /\ word[i] = h[j] /\ j <= Len(r)
    BY <1>5, <1>6, <1>7, <2>1
  <2> QED BY <1>5, <2>1, <2>2
<1>9. /\ r[1] = Getfile!GetFile /\ r[get] = Getfile!Get /\ r[slash] = Getfile!Slash
      /\ \A i \in 2 .. a - 1 : i \in {get, slash} \/ Getfile!IsSpace(r[i])
  <2>1. 1 \in 1 .. Len(h) /\ \A i \in 2 .. a - 1 : i \in 1 .. Len(h)
    BY <1>6
  <2> QED BY <1>5, <1>6, <2>1
<1>10. get \in 2 .. Len(r) /\ slash \in 2 .. Len(r) /\ a \in 2 .. Len(r)
  BY <1>6
<1>11. \A i \in 1 .. Len(word) : a + i - 1 <= Len(r) /\ word[i] = r[a + i - 1]
  BY <1>8
<1>12. \A i \in 1 .. Len(word) : ~Getfile!IsSpace(word[i])
  BY <1>8
<1>13. \E x, y, z \in 2 .. Len(r) :
          /\ x < y /\ y < z
          /\ r[1] = Getfile!GetFile /\ r[x] = Getfile!Get /\ r[y] = Getfile!Slash
          /\ \A i \in 2 .. z - 1 : i \in {x, y} \/ Getfile!IsSpace(r[i])
          /\ \A i \in 1 .. Len(word) : z + i - 1 <= Len(r) /\ word[i] = r[z + i - 1]
  <2> WITNESS get \in 2 .. Len(r), slash \in 2 .. Len(r), a \in 2 .. Len(r)
  <2> QED BY <1>5, <1>9, <1>11
<1> QED BY <1>7, <1>12, <1>13 DEF Getfile!Asks

\* What is parsed is the whole request.
LEMMA WholeHeader ==
    ASSUME NEW h \in Seq(Getfile!Parts), NEW r \in Seq(Getfile!Parts),
           Len(h) <= Len(r), \A i \in 1 .. Len(h) : h[i] = r[i], Getfile!Complete(h),
           \A i \in 1 .. Len(r) - 1 :
              r[i] = Getfile!Crlf /\ r[i + 1] = Getfile!Crlf => i + 1 = Len(r)
    PROVE  h = r
<1>1. PICK i \in 1 .. Len(h) - 1 : h[i] = Getfile!Crlf /\ h[i + 1] = Getfile!Crlf
  BY DEF Getfile!Complete
<1>2. Len(h) \in Nat /\ Len(r) \in Nat
  OBVIOUS
<1>3. i \in 1 .. Len(h) /\ i + 1 \in 1 .. Len(h) /\ i \in 1 .. Len(r) - 1
  BY <1>2
<1>4. r[i] = Getfile!Crlf /\ r[i + 1] = Getfile!Crlf
  BY <1>1, <1>3
<1>5. i + 1 = Len(r)
  BY <1>3, <1>4
<1>6. Len(h) = Len(r)
  BY <1>2, <1>3, <1>5
<1> QED BY <1>6

\* The answer to the request.
LEMMA ParseKeeps ==
    ASSUME Getfile!RequestInv, Getfile!Parse
    PROVE  Getfile!PathWhole'
<1>1. /\ s3 = "parse" /\ UNCHANGED <<s4, s6>>
      /\ \/ \E word \in Getfile!Scanned(s6) : s7' = Getfile!Call(word)
         \/ Getfile!Scanned(s6) = {} /\ s7' = Getfile!Invalid
  BY DEF Getfile!Parse
<1>2. s4 \in Requests /\ Getfile!Received /\ Getfile!Complete(s6)
  BY <1>1 DEF Getfile!RequestInv
<1>3. PICK h, r : h = s6 /\ r = s4
  OBVIOUS
<1>4. h \in Seq(Getfile!Parts) /\ r \in Seq(Getfile!Parts)
  BY <1>2, <1>3, RequestAssumption DEF Getfile!Received
<1>5. Len(h) <= Len(r) /\ \A i \in 1 .. Len(h) : h[i] = r[i]
  <2>1. PICK q : q = s5
    OBVIOUS
  <2>2. q \in Seq(Getfile!Parts) /\ Len(h) + Len(q) = Len(r) /\ \A i \in 1 .. Len(h) : h[i] = r[i]
    BY <1>2, <1>3, <2>1 DEF Getfile!Received
  <2>3. Len(q) \in Nat /\ Len(h) \in Nat /\ Len(r) \in Nat
    BY <1>4, <2>2
  <2> QED BY <2>2, <2>3
<1>6. s7'.to = "handler" => Getfile!Asks(r, s7'.path)
  <2>1. CASE s7' = Getfile!Invalid
    BY <2>1 DEF Getfile!Invalid
  <2>2. ASSUME NEW word \in Getfile!Scanned(h), s7' = Getfile!Call(word)
        PROVE  Getfile!Asks(r, s7'.path)
    <3>1. s7'.path = word
      BY <2>2 DEF Getfile!Call
    <3>2. Getfile!Asks(r, word)
      BY <1>4, <1>5, ScannedAsks
    <3> QED BY <3>1, <3>2
  <2> QED BY <1>1, <1>3, <2>1, <2>2
<1>7. ASSUME NEW n \in 6 .. Len(r), Getfile!Wellformed(r, SubSeq(r, 6, n))
      PROVE  s7' = Getfile!Call(SubSeq(r, 6, n))
  <2>1. /\ Len(r) = n + 2
        /\ r[1] = Getfile!GetFile /\ r[2] = Getfile!Space /\ r[3] = Getfile!Get
        /\ r[4] = Getfile!Space /\ r[5] = Getfile!Slash
        /\ \A i \in 6 .. n : ~Getfile!IsSpace(r[i])
        /\ r[n + 1] = Getfile!Crlf /\ r[n + 2] = Getfile!Crlf
    BY <1>4, <1>7, RequestForm
  <2>2. n \in Nat /\ n >= 6
    BY <1>4
  <2>3. ASSUME NEW i \in 1 .. Len(r) - 1, r[i] = Getfile!Crlf PROVE i + 1 = Len(r)
    <3>1. r[i] \notin {Getfile!GetFile, Getfile!Get, Getfile!Slash, Getfile!Space}
      BY <2>3 DEF Getfile!Crlf, Getfile!GetFile, Getfile!Get, Getfile!Slash, Getfile!Space
    <3>2. i \notin {1, 2, 3, 4, 5}
      BY <2>1, <3>1
    <3>3. i \notin 6 .. n
      BY <2>1, <2>3 DEF Getfile!IsSpace
    <3>4. i \in Nat /\ 1 <= i /\ i <= n + 1
      BY <2>1, <2>2
    <3> QED BY <2>1, <2>2, <3>2, <3>3, <3>4
  <2>4. h = r
    BY <1>2, <1>3, <1>4, <1>5, <2>3, WholeHeader
  <2>5. Getfile!Scanned(r) = {SubSeq(r, 6, n)}
    BY <1>4, <2>1, <2>2, ScannedIs
  <2> QED BY <1>1, <1>3, <2>4, <2>5
<1>8. s4' = r
  BY <1>1, <1>3
<1> QED BY <1>6, <1>7, <1>8 DEF Getfile!PathWhole

\* recv brings the next parts.
LEMMA GetfileReceiveKeeps ==
    ASSUME Getfile!RequestInv, Getfile!Receive
    PROVE  Getfile!RequestInv'
<1>1. s3 = "receive" /\ UNCHANGED <<s4, s7>>
      /\ s3' = IF Getfile!Complete(s6') THEN "parse" ELSE "receive"
  BY DEF Getfile!Receive
<1>2. PICK n \in 1 .. Len(s5) :
          s6' = s6 \o SubSeq(s5, 1, n) /\ s5' = SubSeq(s5, n + 1, Len(s5))
  BY DEF Getfile!Receive
<1>3. s4 \in Requests /\ Getfile!Received /\ s7 = Getfile!NoAnswer
  BY <1>1 DEF Getfile!RequestInv
<1>4. PICK h, q, r, p, t : h = s6 /\ q = s5 /\ r = s4 /\ p = SubSeq(q, 1, n)
                           /\ t = SubSeq(q, n + 1, Len(q))
  OBVIOUS
<1>5. /\ h \in Seq(Getfile!Parts) /\ q \in Seq(Getfile!Parts) /\ Len(h) + Len(q) = Len(r)
      /\ \A i \in 1 .. Len(h) : h[i] = r[i]
      /\ \A i \in 1 .. Len(q) : q[i] = r[Len(h) + i]
  BY <1>3, <1>4 DEF Getfile!Received
<1>6. Len(h) \in Nat /\ Len(q) \in Nat /\ n \in 1 .. Len(q)
  BY <1>4, <1>5
<1>7. p \in Seq(Getfile!Parts) /\ Len(p) = n /\ \A i \in 1 .. n : p[i] = q[i]
  BY <1>4, <1>5, <1>6
<1>8. /\ t \in Seq(Getfile!Parts) /\ Len(t) = Len(q) - n
      /\ \A i \in 1 .. Len(q) - n : t[i] = q[n + i]
  BY <1>4, <1>5, <1>6
<1>9. PICK c : c = h \o p
  OBVIOUS
<1>10. /\ c \in Seq(Getfile!Parts) /\ Len(c) = Len(h) + n
       /\ \A i \in 1 .. Len(h) + n : c[i] = IF i <= Len(h) THEN h[i] ELSE p[i - Len(h)]
  <2>1. h \in Seq(Getfile!Parts) /\ p \in Seq(Getfile!Parts) /\ Len(p) = n
    BY <1>5, <1>7
  <2>2. /\ h \o p \in Seq(Getfile!Parts) /\ Len(h \o p) = Len(h) + Len(p)
        /\ \A i \in 1 .. Len(h) + Len(p) :
              (h \o p)[i] = IF i <= Len(h) THEN h[i] ELSE p[i - Len(h)]
    BY <2>1
  <2> QED BY <1>9, <2>1, <2>2
<1>11. \A i \in 1 .. Len(c) : c[i] = r[i]
  <2> SUFFICES ASSUME NEW i \in 1 .. Len(h) + n PROVE c[i] = r[i]
    BY <1>10
  <2>1. CASE i <= Len(h)
    <3>1. i \in 1 .. Len(h)
      BY <1>6, <2>1
    <3> QED BY <1>5, <1>10, <2>1, <3>1
  <2>2. CASE ~(i <= Len(h))
    <3>1. PICK j : j = i - Len(h)
      OBVIOUS
    <3>2. j \in 1 .. n /\ j \in 1 .. Len(q) /\ Len(h) + j = i
      BY <1>6, <2>2, <3>1
    <3>3. c[i] = p[j] /\ p[j] = q[j] /\ q[j] = r[Len(h) + j]
      BY <1>5, <1>7, <1>10, <2>2, <3>1, <3>2
    <3> QED BY <3>2, <3>3
  <2> QED BY <2>1, <2>2
<1>12. \A i \in 1 .. Len(t) : t[i] = r[Len(c) + i]
  <2> SUFFICES ASSUME NEW i \in 1 .. Len(q) - n PROVE t[i] = r[Len(c) + i]
    BY <1>8
  <2>1. n + i \in 1 .. Len(q) /\ Len(h) + (n + i) = (Len(h) + n) + i
    BY <1>6
  <2>2. t[i] = r[Len(h) + (n + i)]
    BY <1>5, <1>8, <2>1
  <2> QED BY <1>10, <2>1, <2>2
<1>13. Len(c) + Len(t) = Len(r)
  <2>1. PICK a, b : a = Len(h) /\ b = Len(q)
    OBVIOUS
  <2>2. Len(c) = a + n /\ Len(t) = b - n /\ Len(r) = a + b
    BY <1>5, <1>8, <1>10, <2>1
  <2>3. a \in Nat /\ b \in Nat /\ n \in Nat
    BY <1>6, <2>1
  <2> QED BY <2>2, <2>3
<1>14. s6' = c /\ s5' = t /\ s4' = r
  BY <1>1, <1>2, <1>4, <1>9
<1>15. Getfile!Received'
  BY <1>8, <1>10, <1>11, <1>12, <1>13, <1>14 DEF Getfile!Received
<1>16. Getfile!PathWhole'
  BY <1>1, <1>3 DEF Getfile!PathWhole, Getfile!NoAnswer
<1>17. s3' = "parse" => Getfile!Complete(s6')
  BY <1>1
<1>18. Getfile!Complete(s6)' <=> Getfile!Complete(s6')
  BY DEF Getfile!Complete
<1> QED BY <1>1, <1>3, <1>15, <1>16, <1>17, <1>18 DEF Getfile!RequestInv

LEMMA RequestStep ==
    ASSUME Getfile!RequestInv, Getfile!Next
    PROVE  Getfile!RequestInv'
<1>1. CASE Getfile!TryAddress
  <2>1. s3 = "socket" /\ s3' \in {"accept", "socket"} /\ UNCHANGED <<s4, s5, s6, s7>>
    BY <1>1 DEF Getfile!TryAddress
  <2> QED BY <2>1 DEF Getfile!RequestInv, Getfile!PathWhole
<1>2. CASE Getfile!Accept
  <2>1. /\ s3' = "receive" /\ s4' \in Requests /\ s5' = s4' /\ s6' = << >>
        /\ s7' = Getfile!NoAnswer
    BY <1>2 DEF Getfile!Accept
  <2>2. PICK r : r = s4'
    OBVIOUS
  <2>3. r \in Seq(Getfile!Parts) /\ Len(r) \in Nat
    BY <2>1, <2>2, RequestAssumption
  <2>4. /\ << >> \in Seq(Getfile!Parts) /\ Len(<< >>) = 0 /\ 0 + Len(r) = Len(r)
        /\ \A i \in 1 .. Len(r) : 0 + i = i
    BY <2>3
  <2>5. Getfile!Received'
    BY <2>1, <2>2, <2>3, <2>4 DEF Getfile!Received
  <2> QED BY <2>1, <2>5 DEF Getfile!RequestInv, Getfile!PathWhole, Getfile!NoAnswer
<1>3. CASE Getfile!AcceptFails
  <2>1. s3' = "stuck" /\ s7' = Getfile!NoAnswer
    BY <1>3 DEF Getfile!AcceptFails
  <2> QED BY <2>1 DEF Getfile!RequestInv, Getfile!PathWhole, Getfile!NoAnswer
<1>4. CASE Getfile!ReceiveNothing
  <2>1. s3' = "stuck" /\ UNCHANGED <<s4, s7>>
    BY <1>4 DEF Getfile!ReceiveNothing
  <2> QED BY <2>1 DEF Getfile!RequestInv, Getfile!PathWhole
<1>5. CASE Getfile!Parse
  <2>1. s3' = "accept" /\ Getfile!PathWhole'
    BY <1>5, ParseKeeps DEF Getfile!Parse
  <2> QED BY <2>1 DEF Getfile!RequestInv
<1> QED BY <1>1, <1>2, <1>3, <1>4, <1>5, GetfileReceiveKeeps DEF Getfile!Next

RequestsInv == program = "getfile" => Getfile!RequestInv

LEMMA RequestsInvariant == Spec => []RequestsInv
<1>1. Init => RequestsInv
  BY DEF Init, RequestsInv, Getfile!Init, Getfile!RequestInv, Getfile!PathWhole,
         Getfile!NoAnswer
<1>2. RequestsInv /\ [Next]_vars => RequestsInv'
  <2> SUFFICES ASSUME RequestsInv, [Next]_vars, program' = "getfile"
      PROVE  Getfile!RequestInv'
    BY DEF RequestsInv
  <2>1. CASE UNCHANGED vars
    <3>1. Getfile!RequestInv /\ UNCHANGED <<s1, s2, s3, s4, s5, s6, s7, s8>>
      BY <2>1 DEF RequestsInv, vars
    <3> QED BY <3>1 DEF Getfile!RequestInv, Getfile!PathWhole, Getfile!Received, Getfile!Complete
  <2>2. CASE Next
    <3>1. Getfile!RequestInv /\ Getfile!Next
      BY <2>2 DEF Next, RequestsInv
    <3> QED BY <3>1, RequestStep
  <2> QED BY <2>1, <2>2
<1> QED BY <1>1, <1>2, PTL DEF Spec

\* For any requests, in whatever pieces recv returns them and whoever was served
\* before: for a request as the protocol has it the handler is called with its whole
\* path, less the slash, and nothing else; and for others only where GETFILE, GET, a
\* slash and the path follow each other, blanks aside: gfserver_serve.
THEOREM PathsAreWhole == Spec => []PathWhole
<1>1. RequestsInv => PathWhole
  BY DEF RequestsInv, PathWhole, Getfile!RequestInv
<1> QED BY <1>1, RequestsInvariant, PTL
-----------------------------------------------------------------------------
(* The download client.  Its variables are here: s2 the workload, s3 its    *)
(* counter, s4 the numbers given, s5 the label, s6 the local path, s7 the   *)
(* disk, s8 the requests that have ended.                                   *)

\* What stands behind a sequence is its last element.
LEMMA LastOfAppend ==
    ASSUME NEW s, Download!IsSequence(s), NEW e
    PROVE  Append(s, e)[Len(Append(s, e))] = e /\ Len(Append(s, e)) = Len(s) + 1
<1>1. PICK n, S : n = Len(s) /\ S = {s[i] : i \in 1 .. n} \cup {e}
  OBVIOUS
<1>2. n \in Nat /\ s = [i \in 1 .. n |-> s[i]]
  BY <1>1 DEF Download!IsSequence
<1>3. s \in [1 .. n -> S]
  BY <1>1, <1>2
<1>4. s \in Seq(S) /\ e \in S
  BY <1>1, <1>2, <1>3
<1> QED BY <1>4

LEMMA FrontIs ==
    ASSUME NEW s, Download!IsSequence(s), s # << >>
    PROVE  Download!IsSequence(Download!Front(s)) /\ Len(s) \in 1 .. Len(s)
<1>1. PICK n, S : n = Len(s) /\ S = {s[i] : i \in 1 .. n}
  OBVIOUS
<1>2. n \in Nat /\ s = [i \in 1 .. n |-> s[i]]
  BY <1>1 DEF Download!IsSequence
<1>3. s \in [1 .. n -> S]
  BY <1>1, <1>2
<1>4. s \in Seq(S) /\ n # 0
  BY <1>1, <1>2, <1>3
<1>5. PICK f, m : f = SubSeq(s, 1, m) /\ m = n - 1
  OBVIOUS
<1>6. m \in Nat /\ m <= Len(s)
  BY <1>1, <1>2, <1>4, <1>5
<1>7. f \in Seq(S)
  BY <1>4, <1>5, <1>6
<1>8. Len(f) \in Nat /\ f = [i \in 1 .. Len(f) |-> f[i]]
  BY <1>7
<1>9. Download!IsSequence(f)
  BY <1>8 DEF Download!IsSequence
<1>10. Download!Front(s) = f
  BY <1>1, <1>5 DEF Download!Front
<1>11. Len(s) \in 1 .. Len(s)
  BY <1>1, <1>2, <1>4
<1> QED BY <1>9, <1>10, <1>11

\* The number in a local path.
NumberIn(l) == l[Len(l)][Len(l[Len(l)])]

LEMMA NumberIs ==
    ASSUME NEW p \in Download!Paths, NEW n
    PROVE  NumberIn(Download!LocalPath(p, n)) = n
<1>1. Download!IsSequence(p) /\ p # << >> /\ \A i \in DOMAIN p : Download!IsSequence(p[i])
  BY WorkloadAssumption
<1>2. Download!IsSequence(Download!Front(p)) /\ Len(p) \in 1 .. Len(p)
  BY <1>1, FrontIs
<1>3. DOMAIN p = 1 .. Len(p)
  BY <1>1 DEF Download!IsSequence
<1>4. PICK c, d, f, l : /\ c = p[Len(p)] /\ d = Append(c, n) /\ f = Download!Front(p)
                        /\ l = Append(f, d)
  OBVIOUS
<1>5. Download!IsSequence(c)
  BY <1>1, <1>2, <1>3, <1>4
<1>6. d[Len(d)] = n
  BY <1>4, <1>5, LastOfAppend
<1>7. l[Len(l)] = d
  BY <1>2, <1>4, LastOfAppend
<1>8. Download!LocalPath(p, n) = l
  BY <1>4 DEF Download!LocalPath, Download!Last
<1> QED BY <1>6, <1>7, <1>8 DEF NumberIn

\* The path asked for is one of the workload's.
LEMMA PathAsked ==
    ASSUME NEW w \in Seq(Download!Paths), s2 = w, w # << >>, NEW n \in Nat
    PROVE  Download!WorkloadPath(n) \in Download!Paths
<1>1. Len(w) \in Nat /\ Len(w) # 0
  OBVIOUS
<1>2. PICK k : k = Len(w)
  OBVIOUS
<1>3. n % k \in 0 .. k - 1
  BY <1>1, <1>2
<1>4. 1 + (n % k) \in 1 .. k
  BY <1>1, <1>2, <1>3
<1>5. w[1 + (n % k)] \in Download!Paths
  BY <1>2, <1>4, ElementIn
<1> QED BY <1>2, <1>5 DEF Download!WorkloadPath

Ends == [path : Download!Paths, local : Download!Locals, got : {"failed", "some", "whole"}]

\* One more request has ended.
LEMMA OneMoreEnded ==
    ASSUME NEW es \in Seq(Ends), NEW e \in Ends, NEW es2, es2 = Append(es, e)
    PROVE  /\ es2 \in Seq(Ends) /\ Len(es2) = Len(es) + 1 /\ es2[Len(es) + 1] = e
           /\ \A i \in 1 .. Len(es) : es2[i] = es[i]
<1> USE DEF Ends
<1> HIDE DEF Ends
<1> QED OBVIOUS

\* How a request has ended, seen in a disk.
Kept(r, disk) ==
    /\ r.got = "failed" => ~(r.local \in DOMAIN disk /\ disk[r.local] # Download!Directory)
    /\ r.got = "some" => r.local \in DOMAIN disk /\ disk[r.local] # Download!Directory
    /\ r.got = "whole" => /\ r.local \in DOMAIN disk /\ disk[r.local] # Download!Directory
                          /\ disk[r.local] = [of |-> r.path, part |-> "whole"]

LEMMA KeptIs ==
    ASSUME s8 \in Seq(Ends)
    PROVE  Download!DownloadsKept <=> \A i \in 1 .. Len(s8) : Kept(s8[i], s7)
<1>1. PICK es : es = s8
  OBVIOUS
<1>2. DOMAIN es = 1 .. Len(es) /\ \A i \in 1 .. Len(es) : es[i] \in Ends
  <2>1. es \in Seq(Ends)
    BY <1>1
  <2>2. \A i \in 1 .. Len(es) : es[i] \in Ends
    BY <2>1, ElementIn
  <2> QED BY <2>1, <2>2
<1>3. \A i \in 1 .. Len(es) : es[i].got \in {"failed", "some", "whole"}
  BY <1>2 DEF Ends
<1>4. ASSUME NEW i \in 1 .. Len(es)
      PROVE  (CASE es[i].got = "failed" -> ~Download!IsFile(es[i].local)
                [] es[i].got = "some"   -> Download!IsFile(es[i].local)
                [] es[i].got = "whole"  ->
                      Download!IsFile(es[i].local)
                      /\ s7[es[i].local] = [of |-> es[i].path, part |-> "whole"])
             <=> Kept(es[i], s7)
  <2>1. CASE es[i].got = "failed"
    BY <2>1 DEF Kept, Download!IsFile
  <2>2. CASE es[i].got = "some"
    BY <2>2 DEF Kept, Download!IsFile
  <2>3. CASE es[i].got = "whole"
    BY <2>3 DEF Kept, Download!IsFile
  <2> QED BY <1>3, <2>1, <2>2, <2>3
<1> QED BY <1>1, <1>2, <1>4 DEF Download!DownloadsKept

\* A file at a place of its own leaves how the others have ended.
LEMMA OthersKept ==
    ASSUME NEW r \in Ends, NEW d1, NEW d2, Kept(r, d1),
           r.local \in DOMAIN d1 => r.local \in DOMAIN d2 /\ d2[r.local] = d1[r.local],
           r.local \in DOMAIN d2 /\ r.local \notin DOMAIN d1 => d2[r.local] = Download!Directory
    PROVE  Kept(r, d2)
<1>1. r.got \in {"failed", "some", "whole"}
  BY DEF Ends
<1> QED BY <1>1 DEF Kept

\* A local path has a number of its own, so no earlier one is the same.
LEMMA OwnPath ==
    ASSUME Download!Numbered, NEW p \in Download!Paths,
           NEW i \in 1 .. Len(s8)
    PROVE  s8[i].local # Download!LocalPath(p, Len(s8))
<1>1. PICK es : es = s8
  OBVIOUS
<1>2. es \in Seq(Ends) /\ es[i].local = Download!LocalPath(es[i].path, i - 1)
  BY <1>1 DEF Download!Numbered, Ends
<1>3. es[i] \in Ends
  BY <1>1, <1>2, ElementIn
<1>4. es[i].path \in Download!Paths
  BY <1>3 DEF Ends
<1>5. NumberIn(es[i].local) = i - 1
  BY <1>2, <1>4, NumberIs
<1>6. NumberIn(Download!LocalPath(p, Len(es))) = Len(es)
  BY NumberIs
<1>7. Len(es) \in Nat
  BY <1>2
<1>8. i - 1 # Len(es)
  BY <1>1, <1>7
<1> QED BY <1>1, <1>5, <1>6, <1>8

\* What a step does to the disk leaves all that was kept elsewhere.
LEMMA DiskKept ==
    ASSUME Download!Numbered, Download!DownloadsKept, UNCHANGED s8,
           \A i \in 1 .. Len(s8) : \A l : l = s8[i].local =>
              /\ l \in DOMAIN s7 => l \in DOMAIN s7' /\ s7'[l] = s7[l]
              /\ l \in DOMAIN s7' /\ l \notin DOMAIN s7 => s7'[l] = Download!Directory
    PROVE  Download!DownloadsKept'
<1>1. s8 \in Seq(Ends)
  BY DEF Download!Numbered, Ends
<1>2. PICK es, d1, d2 : es = s8 /\ d1 = s7 /\ d2 = s7'
  OBVIOUS
<1>3. \A i \in 1 .. Len(es) : Kept(es[i], d1)
  BY <1>1, <1>2, KeptIs
<1>4. ASSUME NEW i \in 1 .. Len(es) PROVE Kept(es[i], d2)
  <2>1. es[i] \in Ends
    BY <1>1, <1>2, ElementIn
  <2>2. PICK r : r = es[i]
    OBVIOUS
  <2>3. /\ r.local \in DOMAIN d1 => r.local \in DOMAIN d2 /\ d2[r.local] = d1[r.local]
        /\ r.local \in DOMAIN d2 /\ r.local \notin DOMAIN d1 => d2[r.local] = Download!Directory
    BY <1>2, <2>2
  <2>4. Kept(r, d1) /\ r \in Ends
    BY <1>3, <2>1, <2>2
  <2>5. Kept(r, d2)
    BY <2>3, <2>4, OthersKept
  <2> QED BY <2>2, <2>5
<1>5. (s8 \in Seq(Ends) => (Download!DownloadsKept <=> \A i \in 1 .. Len(s8) : Kept(s8[i], s7)))'
  BY KeptIs, PTL
<1>6. s8' = es /\ s7' = d2
  BY <1>2
<1> QED BY <1>1, <1>2, <1>4, <1>5, <1>6

LEMMA LoadKeeps ==
    ASSUME Download!DownloadInv, Download!LoadWorkload
    PROVE  Download!DownloadInv'
<1>1. /\ s5 = "load" /\ s5' \in {"exit", "request"} /\ UNCHANGED <<s1, s3, s4, s6, s7, s8>>
      /\ s2' \in {s1, s2}
  BY DEF Download!LoadWorkload
<1>2. Download!Numbered' /\ Download!DownloadsKept'
  BY <1>1 DEF Download!DownloadInv, Download!Numbered, Download!DownloadsKept, Download!IsFile
<1> QED BY <1>1, <1>2 DEF Download!DownloadInv

LEMMA RequestKeeps ==
    ASSUME Download!DownloadInv, Download!Request
    PROVE  Download!DownloadInv'
<1>1. /\ s5 = "request" /\ Len(s8) < NRequests /\ s3' = s3 + 1 /\ UNCHANGED <<s1, s2, s7, s8>>
      /\ \/ s5' = "crash"
         \/ /\ s2 # << >> /\ s6' = Download!LocalPath(Download!WorkloadPath(s3), s4)
            /\ s4' = s4 + 1 /\ s5' = "open"
  BY DEF Download!Request
<1>2. Download!Numbered' /\ Download!DownloadsKept'
  BY <1>1 DEF Download!DownloadInv, Download!Numbered, Download!DownloadsKept, Download!IsFile
<1>3. s3 \in Nat /\ s4 = Len(s8)
  BY <1>1 DEF Download!DownloadInv
<1>4. s3' \in Nat /\ s3' # 0 /\ s3' - 1 = s3
  BY <1>1, <1>3
<1>5. Download!WorkloadPath(s3 - 1)' = Download!WorkloadPath(s3)
  BY <1>1, <1>4 DEF Download!WorkloadPath
<1> QED BY <1>1, <1>2, <1>3, <1>4, <1>5 DEF Download!DownloadInv

\* What an open file or a missing directory changes.
LEMMA OpenKeeps ==
    ASSUME Download!DownloadInv, Download!OpenFile
    PROVE  Download!DownloadInv'
<1>1. s5 = "open" /\ UNCHANGED <<s1, s2, s3, s4, s6, s8>>
  BY DEF Download!OpenFile
<1>2. PICK n \in 0 .. Len(s6) - 1 :
         \/ s7' = Download!WithDirectories(n) /\ s5' = "exit"
         \/ /\ s7' = [p \in {s6} \cup DOMAIN Download!WithDirectories(n) |->
                         IF p = s6 THEN Download!Empty(Download!WorkloadPath(s3 - 1))
                         ELSE Download!WithDirectories(n)[p]]
            /\ s5' = "perform"
  BY DEF Download!OpenFile
<1>3. PICK w : w = Download!WithDirectories(n)
  OBVIOUS
<1>4. /\ \A l \in DOMAIN s7 : l \in DOMAIN w /\ w[l] = s7[l]
      /\ \A l \in DOMAIN w : l \notin DOMAIN s7 => w[l] = Download!Directory
  BY <1>3 DEF Download!WithDirectories
<1>5. Download!Numbered /\ Download!DownloadsKept /\ s2 # << >> /\ s3 # 0 /\ s3 \in Nat
      /\ s2 \in Workloads \cup {NoList} /\ s6 = Download!LocalPath(Download!WorkloadPath(s3 - 1), Len(s8))
  BY <1>1 DEF Download!DownloadInv
<1>6. Download!WorkloadPath(s3 - 1) \in Download!Paths
  <2>1. PICK v, k : v = s2 /\ k = s3 - 1
    OBVIOUS
  <2>2. v \in Seq(Download!Paths) /\ k \in Nat
    BY <1>5, <2>1, WorkloadAssumption
  <2>3. Download!WorkloadPath(k) \in Download!Paths
    BY <1>5, <2>1, <2>2, PathAsked
  <2> QED BY <2>1, <2>3
<1>7. \A i \in 1 .. Len(s8) : s8[i].local # s6
  <2> SUFFICES ASSUME NEW i \in 1 .. Len(s8) PROVE s8[i].local # s6
    OBVIOUS
  <2>1. PICK p \in Download!Paths : p = Download!WorkloadPath(s3 - 1)
    BY <1>6
  <2>2. s8[i].local # Download!LocalPath(p, Len(s8))
    BY <1>5, OwnPath
  <2> QED BY <1>5, <2>1, <2>2
<1>8. \A l : l # s6 =>
         /\ l \in DOMAIN s7 => l \in DOMAIN s7' /\ s7'[l] = s7[l]
         /\ l \in DOMAIN s7' /\ l \notin DOMAIN s7 => s7'[l] = Download!Directory
  <2>1. CASE s7' = w
    BY <1>4, <2>1
  <2>2. CASE s7' = [p \in {s6} \cup DOMAIN w |->
                       IF p = s6 THEN Download!Empty(Download!WorkloadPath(s3 - 1)) ELSE w[p]]
    BY <1>4, <2>2
  <2> QED BY <1>2, <1>3, <2>1, <2>2
<1>9. Download!DownloadsKept'
  BY <1>1, <1>5, <1>7, <1>8, DiskKept
<1>10. Download!Numbered'
  BY <1>1, <1>5 DEF Download!Numbered
<1>11. Download!WorkloadPath(s3 - 1)' = Download!WorkloadPath(s3 - 1)
  BY <1>1 DEF Download!WorkloadPath
<1>12. s5' = "perform" =>
          s6 \in DOMAIN s7' /\ s7'[s6] = Download!Empty(Download!WorkloadPath(s3 - 1))
  BY <1>2
<1>13. /\ Len(s8) < NRequests /\ s4 = Len(s8) + 1 /\ s1 \in Workloads \cup {NoList}
       /\ s2 \in (Workloads \cup {NoList}) \cup {<< >>}
  BY <1>1 DEF Download!DownloadInv
<1>14. (Download!Empty(Download!WorkloadPath(s3 - 1)))' = Download!Empty(Download!WorkloadPath(s3 - 1))
  BY <1>11 DEF Download!Empty
<1>15. s5' \in {"exit", "perform"}
  BY <1>2
<1> QED BY <1>1, <1>5, <1>9, <1>10, <1>11, <1>12, <1>13, <1>14, <1>15 DEF Download!DownloadInv

\* The request ends: its file is there, whole or not, or is taken away.
LEMMA PerformKeeps ==
    ASSUME Download!DownloadInv, Download!Perform
    PROVE  Download!DownloadInv'
<1>1. s5 = "perform" /\ s5' = "request" /\ UNCHANGED <<s1, s2, s3, s4, s6>>
  BY DEF Download!Perform
<1>2. PICK o \in Download!Outcomes, full \in BOOLEAN :
         LET part == IF full /\ o.part = "whole" THEN "some" ELSE o.part
             kept == [s7 EXCEPT ![s6].part = part]
         IN /\ s7' = IF o.returned < 0 \/ o.status # "OK"
                     THEN Download!Restrict(s7, DOMAIN s7 \ {s6}) ELSE kept
            /\ s8' = Append(s8, [path |-> Download!WorkloadPath(s3 - 1), local |-> s6,
                                 got |-> IF o.part # "whole" THEN "failed" ELSE part])
  BY DEF Download!Perform
<1>3. PICK path, part, got, e :
         /\ path = Download!WorkloadPath(s3 - 1)
         /\ part = IF full /\ o.part = "whole" THEN "some" ELSE o.part
         /\ got = IF o.part # "whole" THEN "failed" ELSE part
         /\ e = [path |-> path, local |-> s6, got |-> got]
  OBVIOUS
<1>4. PICK es, d1, d2, l, es2 : es = s8 /\ d1 = s7 /\ d2 = s7' /\ l = s6 /\ es2 = s8'
  OBVIOUS
<1>5. /\ Download!Numbered /\ Download!DownloadsKept /\ s2 # << >> /\ s3 # 0 /\ s3 \in Nat
      /\ s2 \in (Workloads \cup {NoList}) \cup {<< >>} /\ s1 \in Workloads \cup {NoList}
      /\ s4 = Len(s8) + 1 /\ Len(s8) < NRequests /\ s6 = Download!LocalPath(path, Len(s8))
      /\ s6 \in DOMAIN s7 /\ s7[s6] = Download!Empty(path)
  BY <1>1, <1>3 DEF Download!DownloadInv
<1>6. path \in Download!Paths
  <2>1. PICK v, k : v = s2 /\ k = s3 - 1
    OBVIOUS
  <2>2. v \in Seq(Download!Paths) /\ k \in Nat
    BY <1>5, <2>1, WorkloadAssumption
  <2>3. Download!WorkloadPath(k) \in Download!Paths
    BY <1>5, <2>1, <2>2, PathAsked
  <2> QED BY <1>3, <2>1, <2>3
<1>7. es \in Seq(Ends) /\ Len(es) \in Nat
  <2>1. es \in Seq(Ends)
    BY <1>4, <1>5 DEF Download!Numbered, Ends
  <2> QED BY <2>1
<1>8. /\ o.part \in {"none", "some", "whole"}
      /\ (o.part = "whole" <=> ~(o.returned < 0 \/ o.status # "OK"))
  BY DEF Download!Outcomes
<1>9. got \in {"failed", "some", "whole"}
  BY <1>3, <1>8
<1>10. e \in Ends
  <2>1. Len(es) \in 0 .. NRequests
    BY <1>4, <1>5, <1>7, WorkloadAssumption
  <2>2. l = Download!LocalPath(path, Len(es))
    BY <1>4, <1>5
  <2>3. l \in Download!Locals
    BY <1>6, <2>1, <2>2 DEF Download!Locals
  <2> QED BY <1>3, <1>4, <1>6, <1>9, <2>3 DEF Ends
<1>11. es2 = Append(es, e)
  BY <1>2, <1>3, <1>4
<1>12. /\ es2 \in Seq(Ends) /\ Len(es2) = Len(es) + 1 /\ es2[Len(es) + 1] = e
       /\ \A i \in 1 .. Len(es) : es2[i] = es[i]
  BY <1>7, <1>10, <1>11, OneMoreEnded
<1>13. d2 = IF o.part # "whole" THEN Download!Restrict(d1, DOMAIN d1 \ {l})
            ELSE [d1 EXCEPT ![l].part = part]
  BY <1>2, <1>3, <1>4, <1>8
<1>14. l \in DOMAIN d1 /\ d1[l] = [of |-> path, part |-> "none"]
  BY <1>4, <1>5 DEF Download!Empty
<1>15. \A m : m # l => (m \in DOMAIN d2 <=> m \in DOMAIN d1)
                       /\ (m \in DOMAIN d1 => d2[m] = d1[m])
  <2>1. CASE o.part # "whole"
    BY <1>13, <2>1 DEF Download!Restrict
  <2>2. CASE o.part = "whole"
    BY <1>13, <2>2
  <2> QED BY <2>1, <2>2
<1>16. Kept(e, d2)
  <2>1. CASE o.part # "whole"
    <3>1. l \notin DOMAIN d2
      BY <1>13, <2>1 DEF Download!Restrict
    <3>2. e.got = "failed" /\ e.local = l
      BY <1>3, <1>4, <2>1
    <3> QED BY <3>1, <3>2 DEF Kept
  <2>2. CASE o.part = "whole"
    <3>1. l \in DOMAIN d2 /\ d2[l] = [of |-> path, part |-> part]
      BY <1>13, <1>14, <2>2
    <3>2. part \in {"some", "whole"} /\ e.got = part /\ e.local = l /\ e.path = path
      BY <1>3, <1>4, <2>2
    <3>3. d2[l] # Download!Directory
      BY <3>1, <3>2 DEF Download!Directory
    <3> QED BY <3>1, <3>2, <3>3 DEF Kept
  <2> QED BY <2>1, <2>2
<1>17. ASSUME NEW i \in 1 .. Len(es)
       PROVE  Kept(es2[i], d2) /\ es2[i].local = Download!LocalPath(es2[i].path, i - 1)
  <2>1. PICK r : r = es[i]
    OBVIOUS
  <2>2. r \in Ends
    BY <1>7, <2>1, ElementIn
  <2>3. Kept(r, d1)
    BY <1>4, <1>5, <1>7, <2>1, KeptIs
  <2>4. r.local # l
    <3>1. i \in 1 .. Len(s8)
      BY <1>4
    <3>2. s8[i].local # Download!LocalPath(path, Len(s8))
      BY <1>5, <1>6, <3>1, OwnPath
    <3> QED BY <1>4, <1>5, <2>1, <3>2
  <2>5. /\ r.local \in DOMAIN d1 => r.local \in DOMAIN d2 /\ d2[r.local] = d1[r.local]
        /\ r.local \in DOMAIN d2 /\ r.local \notin DOMAIN d1 => d2[r.local] = Download!Directory
    BY <1>15, <2>4
  <2>6. Kept(r, d2)
    BY <2>2, <2>3, <2>5, OthersKept
  <2>7. r.local = Download!LocalPath(r.path, i - 1)
    BY <1>4, <1>5, <2>1 DEF Download!Numbered
  <2> QED BY <1>12, <2>1, <2>6, <2>7
<1>18. ASSUME NEW i \in 1 .. Len(es2)
       PROVE  Kept(es2[i], d2) /\ es2[i].local = Download!LocalPath(es2[i].path, i - 1)
  <2>1. CASE i \in 1 .. Len(es)
    BY <1>17, <2>1
  <2>2. CASE i = Len(es) + 1
    <3>1. es2[i] = e /\ i - 1 = Len(es)
      BY <1>7, <1>12, <2>2
    <3>2. e.local = Download!LocalPath(path, Len(es)) /\ e.path = path
      BY <1>3, <1>4, <1>5
    <3> QED BY <1>16, <3>1, <3>2
  <2>3. i \in 1 .. Len(es) \/ i = Len(es) + 1
    BY <1>7, <1>12
  <2> QED BY <2>1, <2>2, <2>3
<1>19. Download!Numbered'
  <2>1. /\ s8' \in Seq(Ends)
        /\ \A i \in 1 .. Len(s8') : s8'[i].local = Download!LocalPath(s8'[i].path, i - 1)
    BY <1>4, <1>12, <1>18
  <2> QED BY <2>1 DEF Download!Numbered, Ends
<1>20. Download!DownloadsKept'
  <2>1. (s8 \in Seq(Ends) => (Download!DownloadsKept <=> \A i \in 1 .. Len(s8) : Kept(s8[i], s7)))'
    BY KeptIs, PTL
  <2>2. s8' = es2 /\ s7' = d2
    BY <1>4
  <2> QED BY <1>12, <1>18, <2>1, <2>2
<1>21. s4' = Len(s8')
  BY <1>1, <1>4, <1>5, <1>12
<1> QED BY <1>1, <1>5, <1>19, <1>20, <1>21 DEF Download!DownloadInv

DownloadsInv == program = "download" => Download!DownloadInv

LEMMA DownloadInit == Download!Init => Download!DownloadInv
<1> SUFFICES ASSUME Download!Init PROVE Download!DownloadInv
  OBVIOUS
<1>1. /\ s1 \in Workloads \cup {NoList} /\ s2 = << >> /\ s3 = 0 /\ s4 = 0 /\ s5 = "load"
      /\ s8 = << >>
  BY DEF Download!Init
<1>2. Len(s8) = 0 /\ DOMAIN s8 = {}
  BY <1>1
<1>3. Download!Numbered
  <2>1. << >> \in Seq(Ends)
    OBVIOUS
  <2>2. s8 \in Seq(Ends)
    BY <1>1, <2>1
  <2> QED BY <1>2, <2>2 DEF Download!Numbered, Ends
<1>4. Download!DownloadsKept
  BY <1>2 DEF Download!DownloadsKept
<1> QED BY <1>1, <1>2, <1>3, <1>4 DEF Download!DownloadInv

LEMMA DownloadsInvariant == Spec => []DownloadsInv
<1>1. Init => DownloadsInv
  BY DownloadInit DEF Init, DownloadsInv
<1>2. DownloadsInv /\ [Next]_vars => DownloadsInv'
  <2> SUFFICES ASSUME DownloadsInv, [Next]_vars, program' = "download"
      PROVE  Download!DownloadInv'
    BY DEF DownloadsInv
  <2>1. CASE UNCHANGED vars
    <3>1. Download!DownloadInv /\ UNCHANGED <<s1, s2, s3, s4, s5, s6, s7, s8>>
      BY <2>1 DEF DownloadsInv, vars
    <3>2. Download!Numbered' /\ Download!DownloadsKept'
      BY <3>1 DEF Download!DownloadInv, Download!Numbered, Download!DownloadsKept, Download!IsFile
    <3>3. Download!WorkloadPath(s3 - 1)' = Download!WorkloadPath(s3 - 1)
      BY <3>1 DEF Download!WorkloadPath
    <3>4. (Download!Empty(Download!WorkloadPath(s3 - 1)))'
              = Download!Empty(Download!WorkloadPath(s3 - 1))
      BY <3>3 DEF Download!Empty
    <3> QED BY <3>1, <3>2, <3>3, <3>4 DEF Download!DownloadInv
  <2>2. CASE Next
    <3>1. Download!DownloadInv /\ Download!Next
      BY <2>2 DEF Next, DownloadsInv
    <3> QED BY <3>1, LoadKeeps, RequestKeeps, OpenKeeps, PerformKeeps DEF Download!Next
  <2> QED BY <2>1, <2>2
<1> QED BY <1>1, <1>2, PTL DEF Spec

\* For any workload, any number of requests and whatever is on the disk before: what
\* a request has downloaded is whole in the file of its own, a request that failed has
\* left none, and no later request changes that: gfclient_download.
THEOREM DownloadsAreKept == Spec => []DownloadsKept
<1>1. DownloadsInv => DownloadsKept
  BY DEF DownloadsInv, DownloadsKept, Download!DownloadInv
<1> QED BY <1>1, DownloadsInvariant, PTL
=============================================================================
