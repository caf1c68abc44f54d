----------------------------- MODULE FileTransfer -----------------------------
(***************************************************************************)
(* transferserver and transferclient of pr1: one client, one file.         *)
(*                                                                         *)
(* The server sends each line of the file, or piece of a long line, in a   *)
(* buffer of fixed size that is filled up with zeros.  The connection      *)
(* keeps the bytes in order and forgets the buffers: recv returns any part *)
(* of what has come in.  The client saves what its buffer holds up to the  *)
(* first zero, and does not clear the buffer between two recv.             *)
(***************************************************************************)
EXTENDS Integers, Sequences

CONSTANTS
    Texts,         \* files to transfer: sequences of characters, EndOfLine one
    EndOfLine,
    BufSize        \* BUFSIZE: 218 in the code

VARIABLES
    text,          \* the file at the server
    position,      \* of the server in it
    server, client,
    stream,        \* sent and not received
    buffer,        \* the client's
    saved,         \* the client's file
    aligned        \* history: each recv has returned what one send was given

vars == <<text, position, server, client, stream, buffer, saved, aligned>>

Zero      == "zero"         \* the end of a string
Unwritten == "unwritten"    \* a byte of the client's stack

Characters == UNION {{t[i] : i \in DOMAIN t} : t \in Texts}

Zeros(n) == [i \in 1 .. n |-> Zero]

Init ==
    /\ text \in Texts
    /\ position = 0
    /\ server = "listen"
    /\ client = "connect"
    /\ stream = << >>
    /\ buffer = [i \in 1 .. BufSize |-> Unwritten]
    /\ saved = << >>
    /\ aligned = TRUE

\* The first address on which a socket can be bound; the server exits without one.
Listen ==
    /\ server = "listen"
    /\ server' \in {"accept", "exit"}
    /\ UNCHANGED <<text, position, client, stream, buffer, saved, aligned>>

\* The client tries its addresses in turn, and exits when nobody listens on one.  The
\* server exits when accept fails, and dies in fgets when the file did not open.
Connect ==
    /\ client = "connect"
    /\ \/ server = "accept" /\ server' \in {"send", "dead"} /\ client' = "receive"
       \/ server # "accept" /\ client' = "failed" /\ UNCHANGED server
    /\ UNCHANGED <<text, position, stream, buffer, saved, aligned>>

\* Variant for mutation: fgets is given a buffer without room for the zero.
LineEndWithoutRoom ==
    CHOOSE n \in position .. Len(text) :
        /\ n = Len(text) \/ n = position + BufSize
           \/ (n > position /\ text[n] = EndOfLine)
        /\ \A i \in position + 1 .. n - 1 :
              text[i] # EndOfLine /\ i < position + BufSize

\* fgets: to the end of the line, of the file, or of the buffer less one.
LineEnd ==
    CHOOSE n \in position .. Len(text) :
        /\ n = Len(text) \/ n = position + BufSize - 1
           \/ (n > position /\ text[n] = EndOfLine)
        /\ \A i \in position + 1 .. n - 1 :
              text[i] # EndOfLine /\ i < position + BufSize - 1

SendContents ==
    /\ server = "send"
    /\ position < Len(text)
    /\ stream' = stream \o SubSeq(text, position + 1, LineEnd)
                        \o Zeros(BufSize - (LineEnd - position))
    /\ position' = LineEnd
    /\ UNCHANGED <<text, server, client, buffer, saved, aligned>>

\* At the end of the file both sockets are closed and the server exits.  It exits
\* without a word when a send fails, as after the client is gone.
ServerExit ==
    /\ server = "send"
    /\ position = Len(text) \/ client = "exit"
    /\ server' = "exit"
    /\ UNCHANGED <<text, position, client, stream, buffer, saved, aligned>>

\* The string that starts in the buffer: when no byte of it is a zero it goes on
\* behind the buffer.
String(bytes) ==
    LET zeros == {i \in 1 .. Len(bytes) : bytes[i] = Zero}
    IN IF zeros = {} THEN bytes \o <<Unwritten>>
       ELSE SubSeq(bytes, 1, (CHOOSE i \in zeros : \A j \in zeros : i <= j) - 1)

Receive ==
    /\ client = "receive"
    /\ \E n \in 1 .. BufSize :
          /\ n <= Len(stream)
          /\ buffer' = SubSeq(stream, 1, n) \o SubSeq(buffer, n + 1, BufSize)
          /\ stream' = SubSeq(stream, n + 1, Len(stream))
          /\ aligned' = (aligned /\ n = BufSize)
    /\ saved' = saved \o String(buffer')
    /\ UNCHANGED <<text, position, server, client>>

\* recv returns 0 at the end of the stream; an error ends the file too.
ReceiveEnd ==
    /\ client = "receive"
    /\ \/ server \in {"exit", "dead"} /\ stream = << >> /\ UNCHANGED aligned
       \/ aligned' = FALSE
    /\ client' = "exit"
    /\ UNCHANGED <<text, position, server, stream, buffer, saved>>

Next == Listen \/ Connect \/ SendContents \/ ServerExit \/ Receive \/ ReceiveEnd

Spec == Init /\ [][Next]_vars
-----------------------------------------------------------------------------
(* Properties.                                                              *)

TypeOK ==
    /\ text \in Texts /\ position \in 0 .. Len(text)
    /\ server \in {"listen", "accept", "send", "exit", "dead"}
    /\ client \in {"connect", "failed", "receive", "exit"}
    /\ Len(buffer) = BufSize
    /\ Len(stream) % BufSize = 0 \/ ~aligned
    /\ aligned \in BOOLEAN

\* As long as every recv returns as many bytes as the server gave to one send, the
\* client's file is a beginning of the server's, and the whole of it when the
\* client ends, unless the server has died: with lines longer than the buffer, with
\* and without an end of line at the end.  Once a recv returns less, bytes of the
\* line before are saved again and the rest of this one comes out of place.
SavedWhole ==
    aligned =>
        /\ Len(saved) <= Len(text) /\ saved = SubSeq(text, 1, Len(saved))
        /\ client = "exit" /\ server # "dead" => saved = text

\* Why it holds.  The stream is whole buffers: each starts with the piece of the
\* text that comes after the piece before, and zeros follow it.
Beginning(bytes) ==
    /\ bytes \in Seq(Characters) /\ Len(bytes) <= Len(text)
    /\ \A i \in 1 .. Len(bytes) : bytes[i] = text[i]

Pieces(starts, cuts) ==
    /\ {0, Len(stream)} \subseteq starts
    /\ cuts[0] = Len(saved) /\ cuts[Len(stream)] = position
    /\ \A p \in starts \ {Len(stream)} :
          /\ p + BufSize \in starts
          /\ cuts[p + BufSize] - cuts[p] \in 1 .. BufSize - 1
          /\ \A j \in 1 .. BufSize :
                stream[p + j] = IF j <= cuts[p + BufSize] - cuts[p]
                                THEN text[cuts[p] + j] ELSE Zero

Buffered ==
    \E starts \in SUBSET (0 .. Len(stream)) :
        \E cuts \in [starts -> 0 .. Len(text)] : Pieces(starts, cuts)

LinesInv ==
    /\ server \in {"listen", "accept", "send", "exit", "dead"}
    /\ client \in {"connect", "failed", "receive", "exit"}
    /\ client = "receive" => server \in {"send", "exit", "dead"}
    /\ aligned =>
          /\ text \in Texts
          /\ stream \in Seq(Characters \cup {Zero})
          /\ buffer \in Seq(Characters \cup {Zero, Unwritten}) /\ Len(buffer) = BufSize
          /\ Beginning(saved) /\ Buffered
          /\ client = "receive" /\ server = "exit" => position = Len(text)
          /\ client = "exit" /\ server # "dead" => saved = text
=============================================================================
