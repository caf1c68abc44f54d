---------------------------- MODULE DirectHandlers ----------------------------
(***************************************************************************)
(* The two handlers of pr3 that answer without the cache: handle_with_curl *)
(* gets the whole page into memory first, handle_with_file reads and sends *)
(* the file piece by piece.                                                *)
(*                                                                         *)
(* A byte is its number in the page or file.  What curl and the library of *)
(* gfserver do is external: any outcome of theirs is possible.             *)
(***************************************************************************)
EXTENDS Integers, Sequences

CONSTANTS
    Sizes,         \* of pages and files
    BufSize,       \* BUFSIZE: 128 and 512 in the code
    MaxSends       \* bound of the model: of a loop that need not end

VARIABLES
    source,        \* which handler it is, how the page or file can be had, its bytes
    pc,
    chunk,         \* what is in memory: the page so far, or the piece just read
    header,        \* sent to the client
    sent,          \* the bytes behind the header
    done,          \* rounds of the loop and bytes_transferred
    result,        \* of the handler
    faulty         \* history: a send has failed or was not whole

vars == <<source, pc, chunk, header, sent, done, result, faulty>>

Outcomes ==
    [curl |-> {"ok", "no url", "no handle", "http error", "other error"},
     file |-> {"ok", "not found", "no access", "no status"}]

NoHeader       == [status |-> "none", length |-> 0]
Header(s, n)   == [status |-> s, length |-> n]
Failure        == -1      \* SERVER_FAILURE
ExitFailure    == 1       \* EXIT_FAILURE
NoResult       == -2
Beyond         == 0       \* a byte behind the end of what is in memory

Init ==
    /\ \E kind \in {"curl", "file"}, n \in Sizes :
          \E outcome \in Outcomes[kind] :
             source = [kind |-> kind, outcome |-> outcome, bytes |-> [i \in 1 .. n |-> i]]
    /\ pc = "start"
    /\ chunk = << >>
    /\ header = NoHeader
    /\ sent = << >>
    /\ done = [rounds |-> 0, bytes |-> 0]
    /\ result = NoResult
    /\ faulty = FALSE

Return(value) == pc' = "return" /\ result' = value
-----------------------------------------------------------------------------
(* handle_with_curl.                                                        *)

\* When curl cannot be initialised res has no value: it is taken for any.
CurlStart ==
    /\ source.kind = "curl" /\ pc = "start"
    /\ CASE source.outcome = "no url" -> Return(Failure)
         [] source.outcome = "no handle" ->
               pc' \in {"ok", "http error", "other error"} /\ UNCHANGED result
         [] OTHER -> pc' = "perform" /\ UNCHANGED result
    /\ UNCHANGED <<source, chunk, header, sent, done, faulty>>

\* writer: curl brings the page in pieces.  Memory may run out.
Writer ==
    /\ pc = "perform"
    /\ source.outcome \in {"ok", "other error"}
    /\ \/ \E n \in 1 .. Len(source.bytes) - Len(chunk) :
             /\ chunk' = SubSeq(source.bytes, 1, Len(chunk) + n)
             /\ UNCHANGED pc
       \/ /\ Len(chunk) < Len(source.bytes)
          /\ pc' = "other error"
          /\ UNCHANGED chunk
    /\ UNCHANGED <<source, header, sent, done, result, faulty>>

CurlEnds ==
    /\ pc = "perform"
    /\ source.outcome = "ok" => chunk = source.bytes
    /\ pc' = source.outcome
    /\ UNCHANGED <<source, chunk, header, sent, done, result, faulty>>

CurlAnswer ==
    /\ source.kind = "curl"
    /\ \/ /\ pc = "http error"
          /\ \/ header' = Header("FILE_NOT_FOUND", 0) /\ Return(0)
             \/ UNCHANGED header /\ Return(Failure)
       \/ /\ pc = "ok"
          /\ header' = Header("OK", Len(chunk))
          /\ pc' = "send"
          /\ UNCHANGED result
       \/ /\ pc = "other error"
          /\ Return(ExitFailure)
          /\ UNCHANGED header
    /\ UNCHANGED <<source, chunk, sent, done, faulty>>

\* Variant for mutation: every piece has the size of the buffer.
PieceLengthWhole == BufSize

\* The subtraction is one of size_t: behind the end it is a large number.
PieceLength ==
    LET rest == Len(chunk) - done.rounds * BufSize
    IN IF rest \in 0 .. BufSize - 1 THEN rest ELSE BufSize

Piece ==
    [i \in 1 .. PieceLength |->
        IF done.rounds * BufSize + i <= Len(chunk) THEN chunk[done.rounds * BufSize + i]
        ELSE Beyond]

\* The next round goes to the next piece, whatever became of this one.
CurlSend ==
    /\ source.kind = "curl" /\ pc = "send"
    /\ IF done.bytes < Len(chunk)
       THEN /\ done.rounds < MaxSends
            /\ \/ \E n \in 1 .. PieceLength :
                     /\ sent' = sent \o SubSeq(Piece, 1, n)
                     /\ done' = [rounds |-> done.rounds + 1, bytes |-> done.bytes + n]
                     /\ faulty' = (faulty \/ n < PieceLength)
               \/ /\ done' = [done EXCEPT !.rounds = @ + 1]
                  /\ faulty' = TRUE
                  /\ UNCHANGED sent
            /\ UNCHANGED <<pc, result>>
       ELSE Return(done.bytes) /\ UNCHANGED <<sent, done, faulty>>
    /\ UNCHANGED <<source, chunk, header>>
-----------------------------------------------------------------------------
(* handle_with_file.                                                        *)

FileOpen ==
    /\ source.kind = "file" /\ pc = "start"
    /\ CASE source.outcome = "ok" ->
               /\ header' = Header("OK", Len(source.bytes))
               /\ pc' = "read"
               /\ UNCHANGED result
         [] source.outcome = "not found" ->
               \/ header' = Header("FILE_NOT_FOUND", 0) /\ Return(0)
               \/ UNCHANGED header /\ Return(Failure)
         [] OTHER -> Return(Failure) /\ UNCHANGED header
    /\ UNCHANGED <<source, chunk, sent, done, faulty>>

\* read fails, or finds the end before it should be there.
FileRead ==
    /\ pc = "read"
    /\ IF done.bytes < Len(source.bytes)
       THEN \/ /\ chunk' = SubSeq(source.bytes, done.bytes + 1,
                              IF done.bytes + BufSize < Len(source.bytes)
                              THEN done.bytes + BufSize ELSE Len(source.bytes))
               /\ pc' = "write"
               /\ UNCHANGED result
            \/ Return(Failure) /\ UNCHANGED chunk
       ELSE Return(done.bytes) /\ UNCHANGED chunk
    /\ UNCHANGED <<source, header, sent, done, faulty>>

FileWrite ==
    /\ pc = "write"
    /\ \/ /\ sent' = sent \o chunk
          /\ done' = [rounds |-> done.rounds + 1, bytes |-> done.bytes + Len(chunk)]
          /\ pc' = "read"
          /\ UNCHANGED <<result, faulty>>
       \/ \E n \in 0 .. Len(chunk) - 1 :
             /\ sent' = sent \o SubSeq(chunk, 1, n)
             /\ faulty' = TRUE
             /\ Return(Failure)
             /\ UNCHANGED done
    /\ UNCHANGED <<source, chunk, header>>

Next == CurlStart \/ Writer \/ CurlEnds \/ CurlAnswer \/ CurlSend
        \/ FileOpen \/ FileRead \/ FileWrite

Spec == Init /\ [][Next]_vars
-----------------------------------------------------------------------------
(* Properties.                                                              *)

TypeOK ==
    /\ source.outcome \in Outcomes[source.kind]
    /\ pc \in {"start", "perform", "ok", "http error", "other error", "send", "read",
               "write", "return"}
    /\ chunk \in Seq(1 .. Len(source.bytes))
    /\ header.status \in {"none", "OK", "FILE_NOT_FOUND"} /\ header.length \in Nat
    /\ sent \in Seq(Nat)
    /\ done.rounds \in 0 .. (IF source.kind = "curl" THEN MaxSends ELSE done.bytes)
    /\ done.bytes \in Nat
    /\ result >= NoResult /\ faulty \in BOOLEAN

\* As long as the client takes what it is sent, it gets the page or the file from
\* its beginning, without a gap and nothing from behind its end; and a handler
\* that returns a number of bytes has sent as many as the header announced:
\* whatever the size, and in whatever pieces curl brought it.  A curl that could not
\* be initialised is left out: its OK of 0 bytes means nothing.  When sends fail or
\* are cut short, the body has gaps, and behind the end of the page come bytes that
\* are not of it; but no byte of it comes twice or after a later one, and as many
\* have been sent as the handler returns.
BodyTruthful ==
    /\ ~faulty /\ source.outcome # "no handle" =>
          /\ Len(sent) <= Len(source.bytes) /\ sent = SubSeq(source.bytes, 1, Len(sent))
          /\ pc = "return" /\ header.status = "OK" /\ result >= 0 =>
                sent = source.bytes /\ header.length = Len(sent)
    /\ \A j \in 1 .. Len(sent) : \A i \in 1 .. j - 1 : sent[j] # Beyond => sent[i] < sent[j]
    /\ pc = "return" /\ header.status = "OK" /\ result >= 0 => result = Len(sent)

\* Why it holds.  What has been sent are the pieces so far, or all when the last
\* was shorter; what is in memory to be sent comes next.
StartOfBytes(bytes) ==
    /\ bytes \in Seq(Int) /\ Len(bytes) <= Len(source.bytes)
    /\ \A i \in 1 .. Len(bytes) : bytes[i] = i

Fetched ==
    /\ source \in [kind : {"curl", "file"},
                   outcome : Outcomes["curl"] \cup Outcomes["file"],
                   bytes : {[i \in 1 .. n |-> i] : n \in Sizes}]
    /\ source.outcome \in Outcomes[source.kind]
    /\ done \in [rounds : Nat, bytes : Nat]
    /\ source.kind = "file" =>
          /\ pc \in {"start", "read", "write", "return"}
          /\ pc = "write" =>
                /\ chunk \in Seq(Int) /\ done.bytes + Len(chunk) <= Len(source.bytes)
                /\ \A i \in 1 .. Len(chunk) : chunk[i] = done.bytes + i
    /\ source.kind = "curl" =>
          /\ pc \in {"start", "perform", "ok", "http error", "other error", "send", "return"}
          /\ pc = "perform" => source.outcome \in {"ok", "http error", "other error"}
          /\ StartOfBytes(chunk)
          /\ pc \in {"ok", "send"} /\ source.outcome # "no handle" => chunk = source.bytes

Passed ==
    /\ StartOfBytes(sent) /\ Len(sent) = done.bytes
    /\ pc = "send" => done.bytes = Len(chunk) \/ done.bytes = done.rounds * BufSize
    /\ pc \in {"start", "perform", "ok", "http error", "other error"} =>
          done = [rounds |-> 0, bytes |-> 0] /\ header = NoHeader
    /\ pc \in {"send", "read", "write"} => header = Header("OK", Len(source.bytes))
    /\ pc = "return" /\ header.status = "OK" /\ result >= 0 =>
          header.length = Len(source.bytes) /\ done.bytes = header.length
          /\ result = done.bytes

\* What has been sent comes before what will be, also when sends fail.
Ordered ==
    /\ sent \in Seq(Int)
    /\ \A j \in 1 .. Len(sent) : \A i \in 1 .. j - 1 : sent[j] # Beyond => sent[i] < sent[j]
    /\ source.kind = "file" => StartOfBytes(sent) /\ (pc # "return" => Len(sent) = done.bytes)
    /\ source.kind = "curl" =>
          /\ Len(sent) = done.bytes
          /\ \A i \in 1 .. Len(sent) : sent[i] <= done.rounds * BufSize
    /\ pc \in {"start", "perform", "ok", "http error", "other error"} => header = NoHeader
    /\ pc = "return" /\ header.status = "OK" /\ result >= 0 => result = Len(sent)

DirectInv == Fetched /\ (~faulty /\ source.outcome # "no handle" => Passed)
=============================================================================
