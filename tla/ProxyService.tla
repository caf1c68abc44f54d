---------------------------- MODULE ProxyService ----------------------------
(***************************************************************************)
(* What the web proxy promises its clients, with no word about how: a      *)
(* client asks for a path and is told "not found" when the cache holds no  *)
(* byte of it; otherwise it is told "ok" and gets the file's chunks, all   *)
(* of them, in order.  A thread of the proxy answers one client at a time. *)
(***************************************************************************)
EXTENDS Integers, Sequences

CONSTANTS Workers, Files, NoFile, ChunkSize,
          Length(_)   \* the length of a path's file, 0 if there is none

VARIABLES asked, header, body
vars == <<asked, header, body>>

\* The n-th chunk of f, and how many chunks f has.
Chunk(f, n)   == [file |-> f, at |-> (n - 1) * ChunkSize]
ChunkCount(f) == (Length(f) + ChunkSize - 1) \div ChunkSize

Init ==
    /\ asked = [w \in Workers |-> NoFile]
    /\ header = [w \in Workers |-> "none"]
    /\ body = [w \in Workers |-> << >>]

Ask(w) ==
    /\ asked[w] = NoFile
    /\ \E f \in Files : asked' = [asked EXCEPT ![w] = f]
    /\ UNCHANGED <<header, body>>

Refuse(w) ==
    /\ asked[w] # NoFile
    /\ header[w] = "none"
    /\ Length(asked[w]) = 0
    /\ header' = [header EXCEPT ![w] = "notfound"]
    /\ UNCHANGED <<asked, body>>

Accept(w) ==
    /\ asked[w] # NoFile
    /\ header[w] = "none"
    /\ Length(asked[w]) > 0
    /\ header' = [header EXCEPT ![w] = "ok"]
    /\ UNCHANGED <<asked, body>>

Deliver(w) ==
    /\ header[w] = "ok"
    /\ Len(body[w]) < ChunkCount(asked[w])
    /\ body' = [body EXCEPT ![w] = Append(@, Chunk(asked[w], Len(@) + 1))]
    /\ UNCHANGED <<asked, header>>

Finish(w) ==
    /\ \/ header[w] = "notfound"
       \/ header[w] = "ok" /\ Len(body[w]) = ChunkCount(asked[w])
    /\ asked' = [asked EXCEPT ![w] = NoFile]
    /\ header' = [header EXCEPT ![w] = "none"]
    /\ body' = [body EXCEPT ![w] = << >>]

Next == \E w \in Workers :
            Ask(w) \/ Refuse(w) \/ Accept(w) \/ Deliver(w) \/ Finish(w)

Spec == Init /\ [][Next]_vars
=============================================================================
