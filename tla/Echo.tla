--------------------------------- MODULE Echo ---------------------------------
(***************************************************************************)
(* echoserver and echoclient of pr1: the search for an address on which a  *)
(* socket can be had, and the exchange of one buffer with each client.     *)
(*                                                                         *)
(* The server has one buffer for all its clients and sends the whole of it *)
(* whatever has come in: behind the part of this client's message stands   *)
(* what earlier ones have left.  A client prints what one recv gives it.   *)
(***************************************************************************)
EXTENDS Integers, Sequences

CONSTANTS
    Messages,      \* of the clients: sequences of characters
    AddressLists,  \* what getaddrinfo may give: sequences of outcomes
    BufSize,       \* 16 in the code
    MaxPending     \* -n: 5 by default

VARIABLES
    addresses,     \* not tried yet
    server,        \* label
    pending,       \* maxnpending: clients left to serve
    client,        \* of this round: label, message, whether it has not closed its socket
    reply,         \* bytes on the way to it
    buffer,        \* the server's
    got,           \* what the last recv returned, which the server does not keep
    longest        \* history: the most that a recv has returned

vars == <<addresses, server, pending, client, reply, buffer, got, longest>>

Unwritten == "unwritten"     \* a byte of the server's stack
NoClient  == [pc |-> "socket", message |-> << >>, open |-> TRUE]

Init ==
    /\ addresses \in AddressLists
    /\ server = "socket"
    /\ pending = MaxPending
    /\ client = NoClient
    /\ reply = << >>
    /\ buffer = [i \in 1 .. BufSize |-> Unwritten]
    /\ got = 0
    /\ longest = 0

\* One round of the loop over the addresses: socket, setsockopt, bind.
TryAddress ==
    /\ server = "socket"
    /\ \/ /\ addresses = << >>
          /\ server' = "exit"
          /\ UNCHANGED addresses
       \/ /\ addresses # << >>
          /\ addresses' = Tail(addresses)
          /\ server' = CASE Head(addresses) \in {"no socket", "in use"} -> "socket"
                         [] Head(addresses) = "no option" -> "exit"
                         [] Head(addresses) = "free" -> "accept"
    /\ UNCHANGED <<pending, client, reply, buffer, got, longest>>

\* The next client.  Its own loop over addresses is the same, with connect; it
\* exits when nobody listens.
ClientSends ==
    /\ client.pc = "socket"
    /\ server = "accept"
    /\ \E m \in Messages : client' = [NoClient EXCEPT !.pc = "connected", !.message = m]
    /\ UNCHANGED <<addresses, server, pending, reply, buffer, got, longest>>

\* The client is stopped while it waits.  What it has sent can still be received.
ClientStops ==
    /\ client.pc \in {"connected", "accepted"} /\ client.open
    /\ client' = [client EXCEPT !.open = FALSE]
    /\ UNCHANGED <<addresses, server, pending, reply, buffer, got, longest>>

\* An error of accept, or of recv, ends the server.
Accept ==
    /\ server = "accept"
    /\ \/ /\ client.pc = "connected"
          /\ server' = "receive"
          /\ client' = [client EXCEPT !.pc = "accepted"]
       \/ /\ server' = "exit"
          /\ UNCHANGED client
    /\ UNCHANGED <<addresses, pending, reply, buffer, got, longest>>

\* recv returns n bytes.
Receives(n) ==
    /\ buffer' = SubSeq(client.message, 1, n) \o SubSeq(buffer, n + 1, BufSize)
    /\ got' = n
    /\ longest' = IF n > longest THEN n ELSE longest
    /\ server' = "send"

\* Variant for mutation: an error of recv is not noticed.
ServerReceivesUnchecked ==
    /\ server = "receive"
    /\ \E n \in 0 .. BufSize : n <= Len(client.message) /\ Receives(n)
    /\ UNCHANGED <<addresses, pending, client, reply>>

\* Some of the message, a byte at least.  When it is empty there is nothing to
\* receive until the client closes its socket.
ServerReceives ==
    /\ server = "receive"
    /\ \/ \E n \in 1 .. BufSize : n <= Len(client.message) /\ Receives(n)
       \/ client.message = << >> /\ ~client.open /\ Receives(0)
       \/ server' = "exit" /\ UNCHANGED <<buffer, got, longest>>
    /\ UNCHANGED <<addresses, pending, client, reply>>

\* A failure of send is not looked at.  The connection is closed, and after the
\* last client the server's socket.
ServerSends ==
    /\ server = "send"
    /\ reply' \in {<< >>} \cup (IF client.open THEN {buffer} ELSE {})
    /\ pending' = pending - 1
    /\ server' = IF pending' = 0 THEN "exit" ELSE "accept"
    /\ client' = [client EXCEPT !.pc = "answered"]
    /\ UNCHANGED <<addresses, buffer, got, longest>>

\* The client exits, with an error or after printing what recv gave.
ClientReceives ==
    /\ client.pc = "answered" \/ (client.pc # "socket" /\ server = "exit")
    /\ client' = NoClient
    /\ reply' = << >>
    /\ UNCHANGED <<addresses, server, pending, buffer, got, longest>>

Next == TryAddress \/ ClientSends \/ ClientStops \/ Accept
        \/ ServerReceives \/ ServerSends \/ ClientReceives

Spec == Init /\ [][Next]_vars
-----------------------------------------------------------------------------
(* Properties.                                                              *)

TypeOK ==
    /\ server \in {"socket", "accept", "receive", "send", "exit"}
    /\ pending \in 0 .. MaxPending
    /\ pending = 0 => server = "exit"
    /\ client.pc \in {"socket", "connected", "accepted", "answered"}
    /\ client.message \in Messages \cup {<< >>} /\ client.open \in BOOLEAN
    /\ Len(buffer) = BufSize /\ got \in 0 .. BufSize /\ longest \in 0 .. BufSize
    /\ reply = << >> \/ Len(reply) = BufSize

\* What a client is sent begins with what the server has received of its own
\* message, a byte at least, and a client that sends nothing is sent nothing.  The
\* buffer is kept from client to client, always sent whole, and does not know how
\* much of it recv has filled: so behind that part comes what earlier clients have
\* left there, but no byte that no client has sent before the most of them that
\* have come in at once end.  It is not an echo of the message alone.
EchoTruthful ==
    reply # << >> =>
        /\ got \in 1 .. Len(client.message)
        /\ \A i \in 1 .. got : reply[i] = client.message[i]
        /\ \A i \in 1 .. BufSize : reply[i] = Unwritten <=> i > longest

\* Why it holds: from recv to send the client is the one whose message came, and
\* only this one has an answer.
Characters == UNION {{m[i] : i \in DOMAIN m} : m \in Messages}

Begins ==
    /\ got <= Len(client.message)
    /\ client.open => got >= 1
    /\ \A i \in 1 .. got : buffer[i] = client.message[i]

Outcomes == {"no socket", "in use", "no option", "free"}

EchoInv ==
    /\ addresses \in Seq(Outcomes)
    /\ client \in [pc : {"socket", "connected", "accepted", "answered"},
                   message : Messages \cup {<< >>}, open : BOOLEAN]
    /\ buffer \in Seq(Characters \cup {Unwritten}) /\ Len(buffer) = BufSize
    /\ got \in 0 .. BufSize /\ longest \in got .. BufSize
    /\ \A i \in 1 .. BufSize : buffer[i] = Unwritten <=> i > longest
    /\ server \in {"receive", "send"} => client.pc = "accepted"
    /\ server = "send" => Begins
    /\ reply # << >> => client.pc = "answered" /\ client.open /\ reply = buffer /\ Begins
=============================================================================
